# TLA+ models of GMR Engine

GMR Engine is a Go service that keeps transactions and contract deployments in a
Memgraph store, signs them with a wallet per project and broadcasts them through
TypeScript commands. Beside it the repository holds Solidity contracts, account
abstraction scripts and zero-knowledge circuits. This directory holds TLA+ models
of them, TLC configurations that check the models on small instances, and proofs
checked by TLAPS.

Run from this directory:

    tlc -config TransactionQueueEngines.cfg MCTransactionQueue
    tlapm TransactionQueueProofs.tla

`PROJECT.json` lists the runs with their properties, maps each definition to the
source lines it stands for, names for each property a mutant of the model that
breaks it, and lists the hazards of the code with the properties that cover them.

## The system

| Part | Source | State | Operations |
|---|---|---|---|
| Transaction queue and worker | `internal/store/memgraph.go` 1371-1605, `internal/deployer/deployer.go` 38-161, 462-577 | `EngineTransaction` nodes: status, attempt count, hash, queue time | enqueue, claim, broadcast, marks, retry, webhook |
| Wallet lock | `memgraph.go` 3521-3577, `handlers.go` 666-707 | one `EngineWalletLock` node per app and wallet: holder id, expiry | acquire, re-enter, expire, release |
| Deployment queues | `memgraph.go` 1607-3352, `deployer.go` 163-434, 579-614 | seven kinds of deployment nodes | create, claim, mark, retry, remove |
| Accounts, sessions | `memgraph.go` 50-215, `dashboard.go` 24-85 | accounts, session nodes with expiry | seed, login, look up, log out |
| API keys, scopes, rate limiter | `memgraph.go` 1134-1322, `api.go` 198-380 | key nodes, counters in memory | create, verify, rotate, revoke, limit |
| Apps, imported contracts | `memgraph.go` 217-733 | app nodes | create, update, archive, import |
| Wallets | `memgraph.go` 735-1132, `api.go` 397-431, `handlers.go` 267-314, `vaultclient` | wallet nodes, keys in the vault | create on first use, register, delete |
| Proof submissions | `memgraph.go` 3354-3519, `zkverify.go` | submission nodes | submit, mark, read back the newest |
| Synchronous transfers | `handlers.go` 359-517, `permit_transfer.go` | none of their own | sign and send within the request |
| Write console | `dashboard.go` 650-735, 1045-1199 | none of its own | enqueue a write, or one for each recipient of an airdrop |
| Contracts | `internal/contracts/templates.go`, `contracts/privacy`, `contracts/aa` | balances, markets, pools, roots, deposits | the contracts' functions |
| Private bundler | `scripts/aa/private-bundler.ts` | operations in memory | accept, sponsor, bundle, receipt |
| Insights, record conversion, configuration, SDK, verifiers | see `PROJECT.json` | none of their own | read-only or generated |

API handlers write records and answer at once. One goroutine per engine process
(`Worker.Run`) loops over `processOnce`: it serves one transaction and then one
deployment of each of the seven kinds, runs a command for each as a child process,
and writes the result back. Some handlers run a command themselves while the client
waits, with the same wallet. Handlers and workers, possibly of several processes,
meet only in the store, whose write transactions are atomic, in the vault, at the
wallet lock and in the nonces of the wallet on the chain.
What makes the behaviour hard is listed under "hazards" in `PROJECT.json`:

- two engine processes interleave between their store calls, and a claim records no owner;
- the errors of marks and lock calls are dropped, so the worker goes on with a record
  that skipped a step;
- a command that is killed or loses its receipt looks like one that never sent;
- a retry happens before the deferred lock release, and both sides of the lock are
  told apart by transaction id only;
- a lock can expire under its holder, and nothing but `MERGE` keeps its node single;
- nothing recovers a record whose worker died;
- webhooks are posted once and may be lost;
- handlers look something up, call the vault and then write to the store, three calls with
  other requests in between, of which any may fail;
- what a request has looked up (account, key, project, minute, default wallet) it uses as a
  copy, while it is revoked, archived or replaced in the store;
- scripts of handlers and of the worker choose nonces of one wallet without a lock, so a
  transaction may be replaced by another's;
- rotations, airdrops and proof submissions consist of several calls and may stop in between;
- the bundler forgets what it sent when it restarts, and searches a window of the log;
- the contracts count money in fixed units, with fees, rounding, batches, nullifiers,
  rings of roots and nonces at their limits.

## Modules

| Module | Stands for | Checked in | Proofs |
|---|---|---|---|
| `TransactionQueue` | the queue, the wallet lock, the API's lock clients, the worker's `processTransaction`, the chain | `MCTransactionQueue`, `MCSettles` | `TransactionQueueProofs` |
| `TransactionPromise` | the abstract promise of the queue about one transaction | `MCTransactionQueue` | |
| `DeploymentQueue` | the seven deployment kinds, their dashboard operations and the worker's round | `MCDeploymentQueue`, `MCSettles` | `DeploymentQueueProofs` |
| `WalletLock` | the nodes of one wallet lock under overlapping store transactions | `MCWallets` | `WalletsProofs` |
| `ProjectWallets` | admin and server wallets: look-up, vault, store, and the worker's check of the signer | `MCWallets`, `MCAnswers` | `WalletsProofs` |
| `UserWallets` | managed wallets of users, registrations and deletions, and transfers that sign with them | `MCWallets` | `WalletsProofs` |
| `RateLimiter` | the bucket of one API key | `MCRequests` | `RequestsProofs` |
| `ApiKeys` | the keys of a project, their rotation, and the calls made with them | `MCApiKeys` | `ApiKeysProofs` |
| `Dashboard` | accounts, sessions, projects and imported contracts | `MCDashboard`, `MCApiKeys` | `DashboardProofs` |
| `Transfers` | the transfers that are signed within a request, and the nonces they share with the worker | `MCRequests`, `MCAnswers` | `RequestsProofs` |
| `TokenConsole` | the console's queued writes and airdrops | `MCRequests` | `RequestsProofs` |
| `ZkProofSubmissions` | submissions to zkVerify and their answers | `MCRequests`, `MCAnswers` | `RequestsProofs` |
| `BudolEscrow` | the prediction-market contract of the template the engine deploys | `MCTemplates` | `TemplatesProofs` |
| `PrivateClaimRegistry` | roots, resolutions and claims | `MCTemplates` | `TemplatesProofs` |
| `ShieldedPayoutPool` | credited and withdrawn notes | `MCTemplates` | `TemplatesProofs` |
| `Erc20Token`, `Erc1155Edition` | the token templates | `MCTemplates` | `TemplatesProofs` |
| `ShieldedTradeVault` | deposits, Merkle tree, batches and settlement | `MCContracts`, `MCAnswers` | `ContractsProofs` |
| `Bundler` | the private bundler and the paymaster | `MCContracts`, `MCAnswers` | `ContractsProofs` |
| `Wallets` | `WalletLock`, `ProjectWallets` and `UserWallets` together | `MCWallets` | `WalletsProofs` |
| `Requests` | `RateLimiter`, `Transfers`, `TokenConsole` and `ZkProofSubmissions` together | `MCRequests` | `RequestsProofs` |
| `Templates` | `BudolEscrow`, `PrivateClaimRegistry`, `ShieldedPayoutPool`, `Erc20Token` and `Erc1155Edition` together | `MCTemplates` | `TemplatesProofs` |
| `Contracts` | `ShieldedTradeVault` and `Bundler` together | `MCContracts` | `ContractsProofs` |

`Wallets`, `Requests`, `Templates`, `Contracts` and some MC modules put several components into one specification. They share no
state, so a behaviour is of one of them: the variable `part` says of which, the others stay as they started, and a property about
a component is about the behaviours of that component. This loses nothing, because a
step of one component neither enables nor disables one of another; where components do meet (worker
and lock, worker and chain, transfers and the worker's nonces), they meet within one module. Instances that
have nothing to do with each other use the same model values, which keeps the number of permutations small.

A client whose request fails may send it again: that is a request of its own. Where a
model has a set of requests, they are the ones served at the same time, or all of them
where a request is never served twice; the text of each module says which.

### TransactionQueue

Each store call is one atomic action. `pc[e]` says between which two calls engine `e`
stands: `claimed` after the claim, `locked` or `denied` after asking for the lock,
`command` while the child process runs, `broadcast` when it has printed a receipt,
`errored` when it failed, `recorded` after the submitted mark, `releasing` when only
the deferred release is left. `cur` and `att` are the claimed record's id and attempt
count as the worker holds them in its local variable; the store's own copy is
`attempts`. Statuses, hash and queue time are the node's fields.

- The k-th attempt of a transaction sends at most once, so k stands for that send's
  hash; 0 is the empty string. `HashAfter` is the Cypher `CASE` that keeps the old
  hash when the new one is empty.
- Every mark may fail (`Fault`): its error is dropped in the code, so the worker moves
  on and the record stays as it was. A claim or a lock acquisition may also commit with
  its answer lost.
- A webhook is delivered or lost (`Webhook`), after the mark it announces and whether or
  not that mark succeeded. In the `errored` and `denied` stages the webhook and the mark
  are one action: nobody can see the state between them.
- `CommandFails` without a send needs no fault; once the chain has the transaction a
  failing command is a lost receipt, and counts as a fault. The chain mines what was
  sent, as a success or reverted.
- `Crash` is a dead process, `Shutdown` the SIGTERM path on which the worker's context
  is cancelled and only the deferred release, which has a context of its own, reaches
  the store. A child process that outlives a crash and sends then is not told apart
  from one that sent just before it.
- The receipt a script is given is that of the transaction mined with its nonce. Transactions
  that hold no lock on the wallet (synchronous transfers, deployments, a command that outlived its
  lock) may take the nonce of a send: `Displace`, at most `MaxDisplaced` times. The script then
  prints its own hash with the other's status (`contract-call.ts:95`), so a confirmed record
  stands for a nonce that was used with success.
- The clock counts the whole seconds of the stored RFC3339 times. It does not pass the
  deadline of a running command, nor `StartDelay` between lock and command.
- `IdsAssumption`: API clients pass ids of their own to the lock routes, not those of
  queued transactions. The routes do not check this; a client that breaks it re-enters
  a worker's lock. `WalletLock` models such clients.

### DeploymentQueue

The seven kinds have the same code under different names, so the actions of each are
instances of one operator per operation (`Create`, `Remove`, `Claim`), with the
differences kept: only ERC-20 deployments can be retried; account abstraction deploys an
entry point first, unless the request names one, and its script throws on a reverted
receipt where `deploy-contract.ts` prints it.
`turn[e]` is the engine's place in the round of `processOnce`. Runs of a deployment are
numbered by its claims; the number stands for the run's hash and address, and `runs` is
the one variable the store has no field for. The transaction step of the round is left to
`TransactionQueue`.
`DeleteQueued...Deployment` of the store is not modelled: no route calls it.

### WalletLock

`TransactionQueue` takes an acquire for one atomic step. Here it is the store transaction
it is: `Ask` reads the clock, `Open` the nodes of the wallet into a snapshot, and the commit
creates, takes over or refuses on what the snapshot showed. No uniqueness constraint covers
`EngineWalletLock`, so a `MERGE` whose snapshot shows no node creates one, and two that
overlap create two. Transactions that write the same node conflict, and the driver runs
the later one again on a new snapshot. A release deletes all nodes with its id.
An actor is a worker, which passes the id of its transaction, or a client of the lock
routes, which passes any id; `shared` holds the ids that more than one actor has passed.

### ProjectWallets and UserWallets

A request for a project's default admin wallet looks it up, creates a key in the vault and
stores a wallet, and a request for a user's managed wallet does the same: `stage[r]` says
between which calls it is. Each call may fail, before or after it took effect. An address
stands for its key. Creation times are whole seconds, so which of two wallets of one second
a query returns is open.

In `ProjectWallets` a write is queued for the default wallet or for one a client names. The
worker looks the default up again for each attempt and refuses a write queued for another
address. In `UserWallets` a user is a pair of `authProvider` and `userId`. Clients may
register addresses (`Registered`), the vault's included, and may delete any wallet. A registration's
body is the store's own input, so it may carry a reference (`ClientRef`), which then replaces the
stored one, that of a managed wallet as well. It is none of the vault's, since no route returns
those. A transfer that signs with a wallet has looked it up before its script starts, and goes on
with the reference it found (`signer`).

### RateLimiter, ApiKeys and Dashboard

`RateLimiter` has one action before the mutex, where the minute is read, and one within it,
so a call may come with a minute that is over. Two bursts around the turn of a minute both
pass: that is what a fixed window does, and no property speaks against it.

In `ApiKeys` a call reads the clock, is verified once and then works with its copies of the
project's policy and the key's scopes (`policy`, `scopes`). The contract console has the
policy from the start; the console of a deployed token (`Deployed`) queues its writes without
looking at the project at all. Meanwhile managers create, revoke and rotate keys, change the list of allowed contracts
and archive the project. Both rotations are modelled, the dashboard's and the admin's, each
with the store calls in the order of its code; either call may fail before or after it took
effect.

In `Dashboard` an account is its username. `SeedOwnerAccount` runs at every start of an
engine, under the name and password it is configured with, and disables the account of the
legacy address. A login checks the password and then creates a session; a request loads the
account of its session and then acts as that account. The trading fee stands for all settings
of a project: they are written the same way, and it is the one that is brought into a range.

### Transfers and TokenConsole

`Transfers` keeps for each wallet its transactions in the order of their nonces (`line`). A
script takes the nonce that the node answers it, so two scripts may take the same one; the
node then refuses the second or lets it replace the first, whose script waits on and, as it
asks for its nonce's receipt, may take the other's for its own (`displaced`). The worker's
transactions are in the line of the project wallet as well. A permit transfer is two
transactions, the owner's permit and `transferFrom`; a managed one looks up the user's
wallet; a plain one (`erc20Transfer`) answers ok for every receipt without reading its
status. A script may be killed by its context at any point, and any transaction may revert.

In `TokenConsole` an amount is a sequence of groups of digits, the text between its dots, and
`NotDigit` stands for any other character: the code's conversion to base units is modelled
digit by digit (`decimalToUnits`), since `QueuedIsWhatWasAsked` is about it. An airdrop
queues its entries one store call after the other and stops at the first error.

### ZkProofSubmissions

A request stores its record, runs the script for at most four minutes, marks the record and
answers with the newest record of its app, which need not be its own. Scripts share one
zkVerify account and lose nonces to one another; a transaction may be finalised after its
script was killed. `lost` holds the records whose mark was lost or whose engine died.

### BudolEscrow

An external function is one atomic action, since the chain executes one call after the
other and undoes a call whose `require` fails; actions without a trader are the owner's.
The market's fields and the position's are variables of their names; `balance` is what the
token contract, which is external, holds for the escrow. `paid` and `taken` record what
each trader and the treasury were paid by each market, which the contract only emits as
events; they are read by properties alone. Reentrancy is left out since `buy`, `claim` and
`withdrawFees` hold the `nonReentrant` guard. `setTreasury`, `transferOwnership`, the
market's data URI and sums beyond 256 bits are not modelled.

### ShieldedTradeVault, ShieldedPayoutPool and PrivateClaimRegistry

Hashes are free of collisions: a pair stands for its hash, a root for the notes below it. A
proof is accepted when its circuit can be satisfied, and what the circuit binds is a guard.
The vault's insertion is the contract's: one hash per level along `filledSubtrees` (`Walk`, `Filled`); `Root`
is what the circuit's `MerkleRoot` computes, the root of the whole tree, whose rows are recursive functions. A batch's
check of its expiry never decides, because the expiry lies after the start.
The pool compares note and nullifier with the proof and takes the recipient from the call;
who the relayer is, is left out. In the registry the nullifier is made of the note's secret
and its market, so notes of one secret and market share it.

### Erc20Token and Erc1155Edition

Amounts have `MaxUint + 1` values as `uint256` has 2^256, so overflow and the allowance
without limit are within reach. `granted` and `pulled` add up what a holder approved and what
spenders took, and `uses` counts a permit's successes; properties alone read them. A batch is
executed in rounds as the contract loops over it (`MoveRounds`, `MintRounds`), and undone when one fails.

### Bundler

The bundler's calls are actions up to the next `await`: a call of `eth_sendUserOperation` is
accepted, simulated and sent, and two calls with the same operation may both be under way. A
transaction has a state on the chain, and one that was replaced never gets a receipt. A block
is mined every second, and a receipt is looked for first in memory and then in the log of the
last `LogWindow` blocks. A node's request that fails is taken for an empty answer, so a receipt once
given may be answered with null later (`Answers`); what it says never changes. The paymaster's checks are the contract's, and its owner may change
each of its settings. A mempool that drops a transaction is not modelled.

## Runs

| Run | Module, configuration | Instances | Shows |
|---|---|---|---|
| `queue` | `MCTransactionQueue`, `TransactionQueueEngines` | 2 engines, 2 transactions of one wallet, 3 attempts, 1 fault, 1 displaced transaction, locks that may expire under a command, clock 0..1; and 1 engine with 1 API client, whose locks and commands all last 1 second and start up to 1 second apart, 2 transactions, 2 attempts, 1 fault, clock 0..2 | Two engines compete for two transactions of one wallet under crashes, shutdowns, lost answers, lost receipts and a receipt of another transaction of the wallet, and one engine shares the wallet's lock with a client: no transaction has two owners, records and webhooks agree with the chain, faults alone strand or repeat a transaction, a client's lock is over a running command only once the lock taken for that command has run out, and the queue implements its abstract promise. |
| `settles` | `MCSettles`, `Settles` | 1 engine with 2 deployments of any of the seven kinds, 2 runs each, clock 0..1; 2 engines with 2 transactions, 2 attempts; no faults | Without faults and under a fair loop every deployment and every transaction reaches its verdict: the deployments with one engine, the transactions with two that keep each other's wallets busy. |
| `answers` | `MCAnswers`, `Answers` | bundler: 1 operation, 2 calls, 2 transactions, 1 restart, 1 replacement; project wallets: 2 requests, 2 keys, 1 write with 3 attempts; transfers: 2 requests of 2 payments, 1 transaction of the worker; proofs: 2 requests of one app, 2 faults; vault: 2 notes, 2 orders, 2 batches | What requests begin is ended: promised receipts, queued writes, transfers, proofs and the settlement of batches, each under the fairness of its own loop. |
| `deployments` | `MCDeploymentQueue`, `DeploymentQueue` | 2 engines, 2 deployments of the two kinds that differ most (ERC-20, account abstraction), 2 runs each, 2 faults, clock 0..1 | Two engines deploy tokens and account abstraction with retries, removals, crashes and lost answers: records show the run they are of, faults alone make second contracts or strand a record, and removed records are left alone. |
| `templates` | `MCTemplates`, `Templates` | escrow: 2 markets, 2 traders, 3 purchases, fees of 0 or 1000 basis points (2000 is refused), clock 0..1; registry: 3 notes, 2 roots, 2 markets, 2 resolutions of each; pool: 3 notes, 2 recipients, denomination 11, fees 0..2; ERC-20: 2 holders of which 1 approves and signs, amounts 0..2, 2 approvals or permits, clock 0..1; ERC-1155: 2 holders, 2 tokens, amounts 0..2, batches of up to 3 | The contract templates under every order of legal calls: what the escrow owes is there and nobody is paid short over two markets, claims by proof are of winning notes, the pool is backed, and supplies, allowances, permits and batches of tokens add up. |
| `wallets` | `MCWallets`, `Wallets` | lock: 3 actors, 2 ids, 4 nodes, 2 acquires open, clock 0..2; project wallets: 2 requests, 3 keys, 1 write with 2 attempts, clock 0..1; user wallets: 2 requests for 2 users with 3 keys, of which a client may register one, with or without 1 reference of its own | Overlapping acquires of wallet locks, and racing requests that look up, create and store project and user wallets while the vault or the store fails and clients register and delete the same wallets: holders have their node, wallets can be signed for by their owners and nobody else, and nothing stored is lost but a reference that a client replaces. |
| `dashboard` | `MCDashboard`, `Dashboard` | 2 names, 2 passwords, 2 sessions, 1 project, 3 contracts, 2 requests, 2 starts, clock 0..1 | Two accounts, their sessions and racing requests: projects are changed by their owners only, and imports into an archived project are no more than the requests under way. |
| `requests` | `MCRequests`, `Requests` | limiter: 3 calls at a time, limit 2, 3 minutes, 1 restart; transfers: 3 requests for 4 payments, one of each route that sends, 3 tokens; console: 2 requests of up to 3 entries, 2 wallets, 2 faults; proofs: 3 requests of 2 apps, 1 fault, clock 0..1 | Requests that race: the limiter's windows, permit and plain transfers with one wallet's nonces, airdrop lists and proof submissions; answers tell what happened and a signature pays once. |
| `contracts` | `MCContracts`, `Contracts` | vault: 5 notes for a tree of 4 leaves, 3 roots kept, 3 orders, 2 batches, clock 0..2; bundler: 1 operation, 2 calls, 2 transactions, 1 restart, 1 replacement, 1 change by the owner, 2 targets, deposit for 1 operation, sponsorships of 1 second, clock 1..3 | The vault, its tree of four leaves full and its ring of three roots wrapped around, and the bundler with its paymaster while two requests send one operation, its owner interferes, sponsorships expire, logs grow too old and the bundler restarts: roots, batches and collateral are sound, receipts are true, and the paymaster pays for what was signed and in time. |
| `keys` | `MCApiKeys`, `ApiKeys` | 2 keys, 2 managers, 1 call; 1 key, 2 contracts of which 1 is a deployed token, 1 manager, 1 call, clock 0..1; sessions: 2 names, 1 session, 2 requests, 3 starts, clock 0..1 | Two managers rotate, revoke and use keys while steps fail: the old key is revoked before the new one exists, and access ends with keys, policies, projects, sessions and accounts, but for the console of a project's own tokens. |
| `exclusive` | `MCTransactionQueue`, `TransactionQueueExclusive` | 2 engines, 2 transactions, no faults | **violated** (see Findings): Two engines run two commands for one wallet, though its lock is held. |
| `covered` | `MCTemplates`, `TemplatesCovered` | as `templates` | **violated** (see Findings): Fees withdrawn before the winners claim are promised to them again. |

Some properties stand for several of the components, which state them one by one:

| Property | Is |
|---|---|
| `ClientsLockRespected` | `TransactionQueue`: `ClientLockRespected`, `LockNotStolen` |
| `QueueSettles` | `TransactionQueue`: `Settles` |
| `BegunIsEnded` | `ProjectWallets`: `QuietWriteIsSigned`; `Transfers`: `Answered`; `ZkProofSubmissions`: `QueuedSettles`; `ShieldedTradeVault`: `OrdersReachEscrow` |
| `DeploymentsInOrder` | `DeploymentQueue`: `TypeOK`, `OneDeployer`, `StrandedBounded`, `FactoryHasEntryPoint`, `ConfirmedHasHash` |
| `EscrowAddsUp` | `BudolEscrow`: `ShortfallIsFees`, `PaidFairly`, `NothingTrapped` |
| `EscrowKeepsItsWord` | `BudolEscrow`: `PayoutNeverFalls`, `NoLateBets` |
| `ProjectCanSign` | `ProjectWallets`: `WalletsHaveKeys`, `DefaultsBounded`, `SignedByDefault`, `RefusedOnlyAfterRace` |
| `OwnWalletServes` | `UserWallets`: `OwnCanSign`, `NoOneElsesWallet`, `SigningHasKey`, `OwnBounded` |
| `WalletsStand` | `UserWallets`: `KeyNeverForgotten`, `DeletedStaysDeleted`; `ProjectWallets`: `DefaultOnlyGetsOlder`, `SignsWhatWasQueued` |
| `AnswersMeanMoves` | `Transfers`: `OkMeansMoved`, `FailedMovedNothing` |
| `SignaturePaysOnce` | `Transfers`: `SignaturePaysOnce`, `LeftoverIsUnpaid` |
| `ListsAsAsked` | `TokenConsole`: `QueuedIsPrefix`, `QueuedIsWhatWasAsked`, `OneSigner` |
| `ProofAnswersTrue` | `ZkProofSubmissions`: `OkIsVerified`, `AnswerIsOwnUnlessNewer` |
| `BatchesAddUp` | `ShieldedTradeVault`: `CollateralAddsUp`, `SealedStaysSealed` |
| `TreeIsSound` | `ShieldedTradeVault`: `RootIsMerkle`, `KnownRootsAreRecent` |
| `TokensAddUp` | `Erc20Token`: `SupplyIsBalances`, `PulledWithinGranted`, `OnePermitPerNonce`; `Erc1155Edition`: `SupplyIsBalances`, `BatchMovesTotals` |
| `SponsorIsHonest` | `Bundler`: `ReceiptsTellTheTruth`, `SponsoredInTime`, `RevertIsExplained`, `ReceiptStands` |
| `AccessEnds` | `ApiKeys`: `RevokedIsOver`, `ExpiredIsOver`, `ArchivedIsOver`, `PolicyTakesHold`; `Dashboard`: `LoggedOutIsOver`, `ExpiredIsOver`, `DisabledIsOver` |
| `TypesOK` | the `TypeOK` of each component of the run |

### Bounds

The attempt limit is the code's own 3 in `queue` and for the writes of `answers`, 2 elsewhere: with 2
there is a first attempt, a retry and an exhausted count. Two transactions
are needed for an engine to go on to the next one while another still has the first; the
transactions share a wallet, since nothing but the lock connects two wallets. The locks of the two
engines last 0 seconds and commands may start 1 second after the lock is
taken, so a lock may expire under its holder within the two clock values. Beside the API client
the worker's lock and its command both last 1 second, as both last 300 in the code, and the command
may start in the second after the one in which the lock was granted: it may then run for the second in
which the lock is over, and the client may take the lock in that very second.
One displaced transaction of the two shows every mark a receipt that is not its own.
One fault is enough to skip any single mark or lose any one answer, a second lets two
marks of one deployment be lost.

In `templates` a trader may hold both outcomes and any number of stakes, so three purchases
give two winners who share a loser's stake and round, winners of unequal size, or a second market whose stakes a
first one could eat. That the sums come out for any number of purchases is proved. A clock of two values with times 0 (none) and 1 puts calls before,
at and without a start and an end.

Races over a look-up need two requests and one key more than they can create at a time, so
that a third wallet could show that a bound is exceeded (`DefaultsBounded`, `OwnBounded`).
A client may register one of these addresses for either user, with a reference of its own or none: it is one whose key
the vault has, or one that the vault then never creates, which is how an address of the client's own
comes in. The other two are alike, and what a registration does to one address it does to no other.
The limiter needs three calls at a time for two late ones on either side of the bucket's
minute, and a third minute for a call that is late by two. Two keys let two managers rotate the
same one; a new key that is rotated again while an older rotation is under way is left to the
proof of `RotatedIsRevoked`. In `WalletLock` three actors
with two ids have to share one, and four nodes are one more than the actors can leave
(`NodesBounded` would fail at the fourth). Three requests may all carry one permit, so a repeated one
meets the first at every step and a third comes when both are over; or each is of another route,
and they fight over the nonces of one wallet. The worker's transactions in this fight are bounded by
`MaxOthers`: none in `requests`, where requests displace one another, one in `answers`; the
proofs are for any number of them. The tree has one note more than
leaves, so it is full with one to refuse, and a ring shorter than the number of roots.
A denomination of 11 has a tenth that is rounded, with fees on both sides of it.
Of two token holders one approves and signs; approvals of the other would be of the same code and a second
set of counters. The bundler's deposit pays for one operation, so one sent for a second time finds it used up, and its clock starts at 1, since
an end of 0 is no end. A sponsorship of one second that is signed at 1 ends at 2 and is over at 3, and the operation pays one of
two targets, so it may not be for the one that is sponsored. Amounts of three values overflow with two summands, and batches of three items name one
token twice and another in between. An airdrop of three entries may fail at the first, in the
middle and at the end, with an amount of fewer digits than the token has and one that is none. A log
window of one block reaches from block 3 back to block 2 and leaves the first out.

Symmetry is used in safety runs only, over sets whose members play the same part. Deadlock
is not checked where the system rightly stops: when everything is settled, or the counted
steps (requests that are made once, transactions, clock) are used up.

### Fairness

Each part of a run has the fairness of its own component: `WF(part = "..." /\ A)`.

| Run | Part | Assumed | Because |
|---|---|---|---|
| `settles` | both queues | `WF(EngineStep(e))`, `WF(ChainStep)` | the goroutine loops on its ticker and each of its calls has a timeout; the chain mines what it accepted |
| `answers` | bundler | `WF(Serve(r))`, `WF(Mine)` | a request in flight goes on, and the chain mines what it has |
| | project wallets | `WF(Attempt(w))` | the worker comes round to every queued write |
| | transfers | `WF(Script(r))` | a script goes on or is killed by its context of five minutes; the chain promises nothing |
| | proofs | `WF(Serve(r))` | the handler goes on while the engine runs, and its script ends within four minutes; zkVerify need not finalise |
| | vault | `WF(Tick)`, `WF(SettleBatch(b))` | time passes, and settlement is open to anyone |
| `keys` | calls | `WF(CallStep(c))` | a handler that was called runs to its end |
| | sessions | `WF(RequestStep(r))` | the same |

Clients, managers, owners, faults and, but for the vault, the clock are not fair. `Settles` is
stated without faults because a crash in a claimed transaction leaves it in `signing` for
ever: no query takes it back. The same holds of a deployment in `deploying`, which then can
be neither retried nor removed. `StrandedBounded` says what a fault costs: at most one record
each. `QueuedSettles` excepts the submissions in `lost` for the same reason.

### Faultless properties

`SentOnceUnlessFaulty`, `OneContractUnlessFaulty` and
`ConfirmedHasHash` hold while `faults = 0`, and each fails with one fault: after a lost
receipt a retry sends a second time or creates a second contract, and the confirmed mark
of a deployment carries no hash, so one whose submitted mark was lost shows none. The
other safety properties hold with faults, except where they name what went wrong:

- `HolderHasNode`, `Exclusive`: ids that two actors pass (`shared`), for which the lock cannot
  tell them apart; `Exclusive` holds only where acquires do not overlap, since two that do may
  create a node each and both be granted the lock.
- `OkMeansMoved`, `SignaturePaysOnce`, `LeftoverIsUnpaid`: requests whose pending transaction was
  replaced by one with the same nonce (`displaced`). `OkMeansMoved` says of plain transfers only
  that they were mined, because `erc20Transfer` answers ok for a reverted one.
- `ClientsLockRespected`: the seconds from `CoveredUntil` on, in which a command has outlived its lock.
- `WalletsStand`, `OwnWalletServes`: references that a client registered (`ClientRef`). A transfer
  that signs by one signs with whatever that reference names in the vault.
- `ArchivedIsOver`, `PolicyTakesHold`: the consoles of deployed tokens, which ask neither whether the
  project is archived nor which contracts it allows (`dashboard.go:650`, `memgraph.go:1922`).
- `Backed`: notes credited without tokens to spare, which `creditFundedNote` allows. An owner who
  does so has sold what the pool cannot pay; the property speaks of pools where that never happened.
- `ReceiptsTellTheTruth`, `ReceiptStands`, `PromisedIsAnswered`: an operation sent twice at
  once, a bundler that restarts, a transaction that was replaced.
- `ProofClaimsWon`: a market that is resolved a second time, which the registry allows; notes of the
  first outcome stay claimed.

### Findings

**Two commands for one wallet.** `exclusive` checks `WalletExclusive`: two commands never run for one wallet at a time. The
worker treats a wallet whose lock is held as `"wallet is busy"` (`deployer.go:94`) and
`README.md:8` lists transaction queues and locks among what the engine provides. The
property is violated by two engines without any fault. When a broadcast fails, the
worker puts the transaction back in the queue (`deployer.go:103`) before its deferred
release runs (`deployer.go:97`). A second engine claims the transaction and re-enters
the lock, since the holder is the same transaction id (`memgraph.go:3534`). Then the first
engine's release deletes the second engine's lock (`memgraph.go:3567`), and the first
engine claims the wallet's next transaction and runs its command as well.

With one engine process the wallet is served by one goroutine and the property is trivially
true, so what is checked for one engine is the lock against API clients,
`ClientLockRespected`. The lock lasts 300 seconds from the second in which it was granted and the
command 300 seconds from its start, which may be later (`StartDelay`). So a command can outlive the
lock that covers it, and a client of the lock routes can take the wallet under it. The property says
that this is the only way: client and command meet in no second up to `CoveredUntil`, the last in
which the worker's lock is certainly valid. Where a lock lasts `StartDelay + CommandTimeout` they never meet.

**Fees withdrawn before claims.** `covered` checks `PendingPayoutsCovered`: what
`pendingPayout` answers to all traders together is there to be paid. `resolveMarket` takes
the fee out of the losing side, and `claim` and `pendingPayout` share out the pools less
`feeAccrued` (`templates.go:781`, `807`). `withdrawFees` sets `feeAccrued` to 0
(`templates.go:816`), so a fee withdrawn before the last claim is shared out a second time:
later winners are promised part of it, and the last claim's transfer
(`templates.go:786`) is refused or paid from another market's stakes. `ShortfallIsFees`
says how far this goes: no more is ever missing than the fees paid out.

## Proofs

The proof modules prove, for all values of the constants and from the assumptions that the modules
name, what TLC checks on the instances above, and further properties that no run needs to check
again:

| Module | Theorem | Statement | Says |
|---|---|---|---|
| `TransactionQueueProofs` | `TypeCorrect` | `[]TypeOK` | Records, locks, worker locals and chain keep their shape for any number of transactions, wallets, engines and clients. |
| `TransactionQueueProofs` | `QueueLive` | `[]QueuedIsClaimable` | A queued transaction always passes the claim query's test of the attempt count. |
| `TransactionQueueProofs` | `Ownership` | `[]OneOwner` | One engine at a time works on a transaction, with any number of engines, crashes and lost answers. |
| `TransactionQueueProofs` | `RecordsSound` | `[]RecordMatchesChain` | Recorded hashes and confirmations agree with the chain. |
| `TransactionQueueProofs` | `FailuresExplained` | `[]FailedIsExplained` | A failed record used up its attempts or was reverted on chain. |
| `TransactionQueueProofs` | `WebhooksSound` | `[]WebhooksAgree` | Delivered webhooks never contradict one another or the chain. |
| `TransactionQueueProofs` | `SentOnce` | `[]SentOnceUnlessFaulty` | A second send of one transaction needs a lost receipt, a lost store answer or a lost process. |
| `TransactionQueueProofs` | `VerdictFinal` | `VerdictIsFinal` | No step changes the status or the hash of a transaction that has its verdict. |
| `TransactionQueueProofs` | `SendDiscipline` | `SendOnlyWhileSigning` | Every send belongs to the attempt that the record shows as being signed. |
| `TransactionQueueProofs` | `LocksNotStolen` | `LockNotStolen` | A valid wallet lock is only ever given up, and a client's lock only by a client. |
| `TransactionQueueProofs` | `StrandedCounted` | `[]StrandedBounded` | No more transactions are left in the middle of an attempt than faults happened, whatever the number of engines. |
| `TransactionQueueProofs` | `ClientsExcludeEngine` | `[]ClientLockRespected`, assuming one engine | With one engine, and for any lifetimes of locks, delays and commands, a command runs beside a client's valid lock only after the lock taken for the command has run out: not at all where that lock is long enough. |
| `TransactionQueueProofs` | `Refinement` | `KeepsPromise` | The queue and its workers implement TransactionPromise, step by step. |
| `DeploymentQueueProofs` | `DeploymentQueueIInv` | `[]IInv` | The inductive invariant of the deployment queues. |
| `DeploymentQueueProofs` | `TypeCorrect` | `[]TypeOK` | Types of records, workers and chain, for any engines, deployments and kinds. |
| `DeploymentQueueProofs` | `DeploysAlone` | `[]OneDeployer` | At most one engine works on a deployment. |
| `DeploymentQueueProofs` | `LinksAreReal` | `[]RecordMatchesRun` | The hash and address of a record are those of the run it shows. |
| `DeploymentQueueProofs` | `FactoriesServe` | `[]FactoryHasEntryPoint` | A factory is only sent when its entry point is there. |
| `DeploymentQueueProofs` | `HashIsKept` | `[]ConfirmedHasHash` | Without faults a confirmed record shows its hash. |
| `DeploymentQueueProofs` | `OneContract` | `[]OneContractUnlessFaulty` | Without faults a deployment creates one contract. |
| `DeploymentQueueProofs` | `Confirmed` | `ConfirmedIsFinal` | A confirmed record never changes its outcome. |
| `DeploymentQueueProofs` | `Removed` | `RemovedStaysUntouched` | Nobody works on a removed record. |
| `DeploymentQueueProofs` | `StrandedCounted` | `[]StrandedBounded` | No more records are stranded in deploying than faults happened. |
| `DeploymentQueueProofs` | `InOrder` | `[]DeploymentsInOrder` | Deployments are in one hand each, stranded only by faults, and show what they are, for any number of engines and records. |
| `WalletsProofs` | `WalletLockIInv` | `[]IInv` | The inductive invariant of the lock nodes under overlapping acquires. |
| `WalletsProofs` | `HoldersHaveNodes` | `[]HolderHasNode` | Who holds the lock in time has a node that says so, however many acquires overlap. |
| `WalletsProofs` | `NodesAreFew` | `[]NodesBounded` | There are no more double nodes than actors. |
| `WalletsProofs` | `NodesAreReleased` | `[]NothingLeftBehind` | With all locks released no node stays behind. |
| `WalletsProofs` | `ExclusiveWhenSerial` | `[]Exclusive`, assuming `MaxOpen <= 1` | Where no two acquires are open at once, one actor with an id of its own has the wallet at a time. |
| `WalletsProofs` | `WalletTypes` | `[]TypesOK` | Lock, server wallets and managed wallets keep their types, for any actors, requests, keys and users. |
| `WalletsProofs` | `ProjectSigns` | `[]ProjectCanSign` | The project's default wallet can be signed for, there are no more defaults than requests raced, and a write is refused only after such a race. |
| `WalletsProofs` | `UsersAreServed` | `[]OwnWalletServes` | A user's wallet has its key and is answered to nobody else, a transfer signs with the wallet's own key or by a reference a client registered for it, and a user has no more wallets than requests were served. |
| `WalletsProofs` | `WalletsKept` | `WalletsStand` | No step replaces a key's reference but a registration that carries another, or brings back a deleted wallet, displaces a default one by a newer one or signs with another wallet than the write was queued for. |
| `RequestsProofs` | `AdmissionsBounded` | `[]AdmittedBounded` | For any number of calls at a time and any limit, the calls admitted with one minute stay within one limit per concurrent call and restart; exactly one limit when calls come one after the other. |
| `RequestsProofs` | `RefusalsJustified` | `RefusedOnlyWhenSpent` | A call is refused only after a whole limit of calls of its own minute was admitted. |
| `RequestsProofs` | `TypesCorrect` | `[]TypesOK` | Limiter, transfers, the console's lists and the proof submissions keep their types, for any number of requests, users, payments, projects, numbers and lists. |
| `RequestsProofs` | `AnswersTrue` | `[]AnswersMeanMoves` | A transfer answered with ok, whose nonce nobody displaced, went through exactly once (a plain token transfer: was mined), and a refused one never does, for any number of requests and any payments. |
| `RequestsProofs` | `PaidOncePerSignature` | `[]SignaturePaysOnce` | However many requests carry a signature it pays once, whatever became of the earlier ones, and an allowance left over is of a permit whose transfer was not paid. |
| `RequestsProofs` | `ListsKept` | `[]ListsAsAsked` | What an airdrop has queued is its list from the start, every amount in exactly the base units that were asked for, all of one signer, for any list, any digits and any number of decimals. |
| `RequestsProofs` | `ProofAnswersHold` | `[]ProofAnswersTrue` | A proof answered with 202 was verified, and the record in the answer is the request's own or a newer one of its app. |
| `ApiKeysProofs` | `ApiKeysIInv` | `[]IInv` | The inductive invariant: what a rotating request knows of the old key is still so. |
| `ApiKeysProofs` | `TypeCorrect` | `[]TypeOK` | Keys, managers and calls keep their types, for any scopes, contracts and clock. |
| `ApiKeysProofs` | `OldKeyRevoked` | `[]RotatedIsRevoked` | A rotation's new key exists only when the old one is revoked, whatever fails or runs at the same time. |
| `ApiKeysProofs` | `PowersKept` | `[]PowersInherited` | However often a key is rotated, the new keys can do what the first could and no longer. |
| `DashboardProofs` | `DashboardIInv` | `[]IInv` | The inductive invariant: requests act as accounts that are there, and late imports use up requests. |
| `DashboardProofs` | `TypeCorrect` | `[]TypeOK` | Accounts, sessions, projects and requests keep their types; every fee is in its range. |
| `DashboardProofs` | `LateImports` | `[]LateImportsBounded` | No more contracts are imported late than requests are served at a time, for any number of them. |
| `DashboardProofs` | `OwnersOnly` | `OnlyOwnerChanges` | A project is changed by its owner's requests only, or in its settings through its own API. |
| `DashboardProofs` | `ArchivedStays` | `ArchivedIsFrozen` | An archived project is left as it is. |
| `TemplatesProofs` | `TypesCorrect` | `[]TypesOK` | Escrow, registry, pool and tokens keep their types, for any markets, traders, notes, holders and amounts: no subtraction goes below zero and no sum over the largest amount. |
| `TemplatesProofs` | `EscrowInvariant` | `[]EscrowIInv` | The escrow's inductive invariant: pools are sums of stakes, a resolved market's fee stays what it was, the paid have their shares but for a fraction of a unit, and the contract holds what was staked and not paid. |
| `TemplatesProofs` | `SharedOut` | `[]EscrowAddsUp` | Over all markets no more is missing than the fees paid out, whoever was paid got his stake back, and only rounding, less than a unit a winner, stays behind. |
| `TemplatesProofs` | `WordKept` | `EscrowKeepsItsWord` | No step lowers a payout a trader may count on, and none stakes on a market whose outcome may be announced already. |
| `TemplatesProofs` | `RegistryInvariant` | `[]RegistryIInv` | The registry's inductive invariant: types, and no claim by proof before a market's first resolution. |
| `TemplatesProofs` | `ClaimedOnce` | `[]Registry!NoteClaimedOnce` | No note is claimed twice, under whatever roots and markets. |
| `TemplatesProofs` | `ClaimsWon` | `[]ProofClaimsWon` | A claim by proof is of a winning note, and agrees with a market resolved only once. |
| `TemplatesProofs` | `PoolInvariant` | `[]PoolIInv` | The pool's inductive invariant: types, backing, payouts and the count of nullifiers. |
| `TemplatesProofs` | `NotesBacked` | `[]Backed` | The pool has the tokens for every note not withdrawn, unless one was credited without tokens to spare. |
| `TemplatesProofs` | `PaidOnce` | `[]Pool!PaidInFullOnce` | A spent note has paid its denomination exactly once and nine tenths of it to the recipient. |
| `TemplatesProofs` | `NullifiersOnce` | `[]Pool!OneNullifierEach` | There are as many used nullifiers as withdrawals. |
| `TemplatesProofs` | `TokenInvariant` | `[]TokenIInv` | The token's inductive invariant: the supply is the sum of the balances, what is left of allowances and was taken of them is within the approved, and a permit that was taken has a nonce that is used up. |
| `TemplatesProofs` | `EditionInvariant` | `[]EditionIInv` | The editions' inductive invariant: types, and supplies that are the sums of balances, over any batches. |
| `TemplatesProofs` | `TokensAdded` | `[]TokensAddUp` | Supplies are what the holders have, spenders take what they were approved, a permit is taken once, and a batch of any length moves the sum it has of each token or nothing. |
| `ContractsProofs` | `TypesCorrect` | `[]TypesOK` | Vault and bundler keep their types, whatever the tree's height, the operations and the bounds. |
| `ContractsProofs` | `VaultInvariant` | `[]VaultIInv` | The vault's inductive invariant, for a tree of any height and a ring of any size: the left neighbours kept are nodes of the whole tree, the ring holds the roots of the last insertions in order, and the books agree with the orders. |
| `ContractsProofs` | `TreeSound` | `[]TreeIsSound` | The root computed along one path is the root of the whole tree, and orders may refer to exactly the roots after the last insertions. |
| `ContractsProofs` | `BatchesKept` | `BatchesAddUp` | Vault and escrow share the deposits, open batches can be paid, and a batch whose time has come gets no more orders. |
| `ContractsProofs` | `BundlerInvariant` | `[]BundlerIInv` | The bundler's inductive invariant: what each request knows of its transaction, what operations are remembered, and that what ran was vetted, in the order of its nonces. |
| `ContractsProofs` | `SponsorHonest` | `SponsorIsHonest` | Receipts tell the truth and stand, the paymaster pays for what was signed and in time, and reverts are explained, for any operations, requests, clock and settings. |

Hardly any of these is inductive by itself. Each module has a strengthening, `IInv`, which is shown
to hold at the start and to be kept by every step, one lemma per action or group of actions.

**TransactionQueue.** That a late mark finds its record as the worker left it needs ownership, and
ownership is not in the store: it follows from `OwnerState` (an engine in an attempt holds a record
whose attempt count is its own copy and whose status is `signing`, or `submitted` after its mark)
together with `OneOwner` and the claim query's guard. `SendsState` ties sends to attempts (no
attempt after the last claimed has sent, none before its command), `RecordState` says when a record
may have a hash, `AnnouncedState` that nobody works on a transaction whose verdict was announced
even if the mark itself was lost, and `FaultlessState` that without faults a send is always that of
the latest attempt, which will not be retried. Steps that write no record are covered by two frame
lemmas (`QuietIInv`, `MoveIInv`). `ClientsExcludeEngine` has an invariant of its own (`LockHeld`):
the engine holds the lock it took for the command up to `CoveredUntil`, and what is left of the command's time after that is the client's to meet.

`StrandedState` counts records in the middle of an attempt that nobody owns: a step of an engine
strands one at most, and only with a fault.

**DeploymentQueue.** `WorkerState`, `RecordState`, `FactoryState` and `FaultlessState` play the same
parts: what a worker holds, what a record may show in which status, that a factory is sent only with
its entry point, and that without faults earlier runs left nothing behind. `StrandedState` counts as
in `TransactionQueue`.

**Wallets.** Every lock node belongs to an actor that has yet to release (`HeldNodes`), and nodes
together with the open transactions that have seen none (`EmptyOpen`), each of which may still
create one, are no more than the actors (`NodeCount`). Where no two transactions are open at once
there is one node at most, and none while somebody may create one (`Serial`): the double creation is
all that stands between this lock and exclusion. Wallets are counted the same way: default wallets
and the requests that may still store one are together no more than the requests (`DefaultCount`),
and so are a user's wallets (`OwnCount`). A request stores a wallet only when it saw none, so each
step turns a request into a wallet and no step makes both. That a user's wallet has its own key or
one that a client named for it, and never that of another wallet, rests on `StoringIsNew` and
`RefsAreKeys`: what is about to be stored is new, and a reference is empty, the address's own key, or
a client's.

**RateLimiter.** A late call is worth a limit in the present minute until it has passed the bucket
(`PresentMinute`), and in a minute that is over there is a limit left to give or the calls that come
too late are among those still waiting (`PastMinutes`). `BucketCounts` relates the bucket to what
was admitted and gives `RefusedOnlyWhenSpent`.

**Transfers.** `Placed` says where in the lines of the wallets the transactions of a request are and
in which status, `PlacedOnce` that there is one of each step, `Answers` what a receipt stands for as
long as nobody took the transaction's place. Owners' nonces are counted: the owner's next nonce is
the number of permits that went through (`Permits`), so two requests with one signature cannot both
have one. `Leftover` names the permit an allowance is of. Lines are bounded because every
transaction uses up a step that its request has not sent (`Unsent`, `LinesBounded`).

**TokenConsole.** The queue holds the first entries of each request's list, in their order and with
the amounts they had when it was accepted (`QueuedFirst`, `EntryOf`), one more when the answer of
the store was lost. That an amount in base units is the decimal number that was entered
(`QueuedIsWhatWasAsked`) holds for any digits and any number of decimals: the values of a sequence
of digits and the powers of ten are recursive functions, whose equations are proved from the order
of the natural numbers, which is well-founded (`Induction`, `Recursion`).

**ZkProofSubmissions.** `ProofOf` says what each status of a record and each stage of its request
stand for; the record that is answered was there and as new when it was listed, and records stay.

**ApiKeys.** What a rotating request knows of the old key stays so, and by the time it creates the
new one the old key is revoked (`Promised`), because no step of the store changes what a stored key
may do or brings back a revoked one (`KeysKept`).

**Dashboard.** What a request has found is there (`Acting`), and once a project is archived its late
imports and the requests that may still import one are together no more than the requests served
(`LateCount`).

**BudolEscrow.** Three properties compare sums over traders or markets, so the module begins with
sums: that the fold of the community modules is any element's value plus the sum over the others
(`SumElement`), that a sum changes as the one value that changes (`SumChange`), and that sums
compare as their elements do, also in proportion (`SumsCompare`). They are proved by induction on
the size of the set. The invariant `EscrowIInv` has five parts beside the types. Pools are the sums
of stakes (`Stakes`). Nobody is paid before the end (`Unclaimed`). A resolved market's fee,
withdrawn or not, stays what `resolveMarket` set (`FeesKept`). The contract holds what was staked
and not paid (`Conserved`). A paid winner has at most his share of what is to be shared now, and at
least his share of what is left without any fee, but for a fraction of a unit (`PaidShares`). The
last is where the order of claims and withdrawals enters: what is to be shared grows when fees are
withdrawn, so a share that was fair when it was paid is still no more than it is worth now. Summed
over the traders it says that what a market paid and owes is at most its pools (`WithinMarket`), the
fees paid to the treasury not counted, which gives `ShortfallIsFees`; from below it gives
`PaidFairly` and `NothingTrapped`. No overflow is in the model, so nothing is proved of it.

**Erc20Token.** The supply is a sum over the holders, which a transfer changes in two places, written
one after the other because payer and payee may be the same (`MoveKeeps`). A spender's limit needs
more than `PulledWithinGranted`, which says nothing while an allowance has no limit: what was taken is
within what was approved at all times (`PulledAlways`). A holder's nonce counts its permits that were
taken (`NoncesCount`), and a permit that was taken has a nonce below it, so another of the same nonce
comes too late.

**Erc1155Edition.** A batch is a loop, here a recursive function of the number of rounds
(`MoveRounds`, `MintRounds`). An induction over the rounds says what is moved after each of them: the
totals of the first items, for each token, and that the payer had them (`MoveRound`, `MoveTotals`), or
nothing when payer and payee are the same (`MoveToSelf`). Each round keeps the sums (`MintRound`), and
because a supply never exceeds `MaxUint` no receiver's balance does (`EditionFits`): the checked sum
of a transfer, which the model leaves out, cannot fail.

**ShieldedTradeVault.** The contract keeps one node of each row of its Merkle tree. The invariant is
`FilledInv`: wherever the next leaf's ancestor is a right child, its left neighbour in the tree of all
leaves is kept. From it, row by row up the tree (`UpTheTree`), the walk of an insertion computes the
new leaf's ancestors (`WalkIsRow`), and so the root (`RootIsMerkle`). Three facts about trees carry
it: what lies right of the last leaf is empty (`RightIsEmpty`), a new leaf changes nothing beside its
path (`BesideIsKept`), and the ancestors of the next leaf are the same or the next ones
(`AncestorsNext`). `RingInv` says which root is where in the ring. When it turns, the oldest root is
forgotten, and that only this one is needs `RootsDiffer`: trees of different numbers of leaves have
different roots, since the hash is free of collisions and no note is the empty leaf. The orders and
the money are `Books`: orders use up notes one by one (`SpentInv`), a batch counts its orders
(`BatchInv`), and what the escrow has is what settled batches counted (`MoneyInv`).

**Bundler.** `RevertIsExplained` is about what may happen between the estimate and the transaction, so
the invariant says what survives: an operation that passed once is `Vetted`, that is, its nonce is
next or taken, its sponsorship was signed, and it is still sponsored unless the owner has called. That
a nonce that is not next any more was taken by an operation that ran is `NonceInv`: a sender's
operations that ran have the nonces from 0 on, which follows from counting them (`MineCounts`). The
receipts rest on the types alone: what the bundler remembers of an operation is a transaction of it,
and a transaction once mined keeps its state (`SuccessStands`).

**ShieldedPayoutPool** and **PrivateClaimRegistry.** What the pool owes is the denomination times a
cardinality, which a credit raises by one and a withdrawal lowers by one (`CreditOwes`,
`WithdrawOwes`). In the registry no claim by proof comes before the market's first resolution
(`NoClaimBefore`), or that resolution could disagree with it.

Proved and checked by no run: `QueuedIsClaimable`, `FailedIsExplained`, `VerdictIsFinal` and
`SendOnlyWhileSigning` of `TransactionQueue`, `ConfirmedIsFinal` of `DeploymentQueue`,
`RefusedOnlyWhenSpent`, `PowersInherited`, `ArchivedIsFrozen`, `PaidInFullOnce`, `OneNullifierEach`,
`NoteClaimedOnce`, and `NodesBounded`, `NothingLeftBehind` and `Exclusive` of `WalletLock`.

Induction over data goes through where it can be led along the natural numbers: the digits of
`TokenConsole`, the sums of escrow and tokens, the rounds of a batch and the rows of the tree. It is
led with sets in place of predicates: the provers cannot instantiate a theorem about an arbitrary
predicate, but `Induction` is about an arbitrary set of naturals.

The assumptions are on constants, in the modules that declare them: sets that are counted or summed over
are finite, amounts and bounds are natural numbers, sizes (`TreeLevels`, `RootHistorySize`,
`Denomination`) are positive, model values that stand for nothing (`NoBatch`, `NoOp`, `Zero`) are none
of the things they stand beside, and functions from notes and operations have the ranges their comments say.
`SecretAssumption` says what the circuit computes: notes with one nullifier are of one market. That
hashes do not collide is built into `Hash`, which is the pair of what is hashed.

Only model-checked:

- All liveness (`Settles`, `QueueSettles`, `BegunIsEnded`, `PromisedIsAnswered`) and `AccessEnds`, whose parts are
  liveness, too: fairness and `ENABLED` are out of the prover's reach.
- `ClientsLockRespected`, which is `ClientLockRespected` and `LockNotStolen` of a second instance of
  `TransactionQueue`. Both are proved of `TransactionQueue` itself (`ClientsExcludeEngine`, `LocksNotStolen`).

## Not modelled

- The verifier contracts and circuits: the arithmetic of pairings is far out of TLC's reach. What a
  proof binds is a guard of the contracts' models.
- The receipts of deployments whose nonce another transaction took: `DeploymentQueue` takes a run's
  receipt for that of the run's own send, while `deploy-contract.ts:50` may be given another's
  (item 1 of the plan). `TransactionQueue` and `Transfers` have them.
- Dashboard insights, record conversion and the models: read-only views and field-by-field copies.
- The SDK and the command-line helpers, contract compilation, reading the environment,
  formatting and logging.
- Fields that decide nothing: names and origins of keys, `lastUsedAt`, token URIs, interface
  identifiers, a market's data URI. Settings of a project beyond the trading fee and the list of
  allowed contracts are written in the same way; the last write wins, by design.
- `DeleteQueued...Deployment`, which no route calls.
- `transferOwnership` of the contracts other than the tokens, `setTreasury`, `setOwner` and the vault's `setVerifier`: who
  the owner, the treasury and the verifier are is fixed, though pool and registry may be without a verifier; gas estimates and prices; a mempool that drops transactions.
- The idempotency key of a request, which is stored and never read, so that nothing is promised of it.
- The expiry of a key is compared as text by the store, which orders only times written in one form:
  the order of strings is below the model, which compares times.
- Accounts that starts under changing names have disabled: no start makes one active again, and no
  code promises it.

## Plan

Done: the queues, the lock, wallets, keys, the limiter, the dashboard, transfers, the console, proof
submissions, the contracts and the bundler, as above, and proofs of every invariant and every action
property that the runs check, but for the second instance in `ClientsLockRespected`. Left:

1. The composition of both queues and `Transfers` on one wallet: deployments sign with the
   project wallet and take neither its lock nor part in the nonces of `Transfers`, which models
   the worker by single transactions.
2. Larger instances of the liveness run `answers`: one operation, and two of everything else, are the
   smallest in which a wait can fail.
