# Smart Agent: specifications and proofs

TLA+ models of the parts of Smart Agent whose correctness depends on the order
of events: the sessions people sign in with, the delegations agents act under,
the recovery of accounts, the governance of agents, the relationships the web
application writes on chain, the queue it writes through, the knowledge base it
keeps in step, and the credential wallets of its users. The models are
translated from the source; `PROJECT.json` maps every definition to the lines
it stands for, lists the runs, the hazards each property is aimed at and the
places where code and documentation disagree.

Run a model with `tlc -config X.cfg MCModule`, check a proof with `tlapm
ModuleProofs.tla`.

## The system

| Component | State | Operations | Modelled by |
|---|---|---|---|
| Session grant policy (`packages/privacy-creds`, `apps/web`) | none | classify risk, default grant, constraints | `SessionGrant` |
| Web app: passkey ceremony and action dispatch | pending-grant tokens (in the browser), signed actions (on the wire) | `start`, `finalize`, `dispatchWalletAction` | `DelegatedAction` |
| person-mcp: session store and verifier | `sessions`, `revocation_epochs`, `action_nonces_v2`, `audit_log` (SQLite) | insert, verify, revoke, bump epoch | `DelegatedAction`, `OneUseActions` |
| A2A agent | `challenges`, `sessions` (SQLite) | challenge, verify, init, package, delete, mint, proxy | `AgentSessions`, `DelegatedTokens` |
| person-mcp: delegation tokens | `token_usage` (SQLite), `isRevoked` on chain | verify a token for a tool call | `AgentSessions`, `DelegatedTokens` |
| AgentAccount, AgentAccountFactory | owners, passkeys, counters, linked manager | create, add and remove signers, execute | `AgentAccount`, `Redemption` |
| DelegationManager | revoked hashes | redeem, revoke | `Redemption` |
| RateLimitEnforcer, RecoveryEnforcer | buckets; proposals, consumed intents | before hooks, propose, cancel | `Redemption`, `GuardedRecovery` |
| AgentControl | owners, quorum, proposals, votes | initialise, owners, quorum, propose, approve | `AgentControl`, `OwnerCouncil` |
| Web app: deployer-signed writes (`lib/contracts.ts`) | lock, nonce counter (in memory), the node's pool | `writeContract`, `sendTransaction`, clients beside the lock | `DeployerQueue` |
| AgentRelationship, AgentAssertion | edges, roles, assertions | create, roles, set status, confirm, reject, activate, assert | `AgentRelationship`, `RelationshipFlows` |
| Web app: relationship server actions | none of their own, several transactions each | assert, confirm, reject | `RelationshipFlows` |
| Web app: knowledge base sync | debounce lock (in memory), the data graph of GraphDB | schedule, sync, direct sync | `KnowledgeSync` |
| person-mcp: SSI wallet | `holder_wallets`, `action_nonces`, `credential_metadata`, the vault (SQLite) | provision, rotate, request, store | `HolderWallet`, `CredentialExchange` |
| Names, claim registries | trees and versioned records | register, renew, revoke | not yet |
| people-group-mcp | revocation epochs, catalogue | revoke with roll back | not yet |
| org-mcp, issuer and verifier services | issuance codes, nonces in memory | issue, verify | not yet |
| Profiles, reviews, disputes, ontology; SDK; discovery; pages | records, or none | | out of scope |

How they interact:

- A user signs in with a passkey. The web app reads the account's revocation
  epoch from person-mcp (`start`), has the grant signed, checks the signature by
  an ERC-1271 call to the AgentAccount (`finalize`) and stores a session in
  person-mcp. From then on the custody backend signs wallet actions for the
  session and person-mcp decides each of them.
- A user also gives the A2A agent a delegation to a session key the agent made.
  The agent mints short-lived tokens from it; person-mcp checks such a token
  against the DelegationManager (revoked?) and the AgentAccount (ERC-1271) and
  counts its uses.
- On chain, a redeemer hands the DelegationManager a chain of delegations; each
  one's enforcers run before the root delegator's account makes the call.
  Guardian recovery is such a redemption, behind a delay and a threshold.
- AgentControl stands alone: owners of an agent vote on proposals.
- The web app signs most transactions with one deployer key. They queue for a
  process-wide lock and take their nonces from a shared counter; a relationship
  action sends up to five such transactions one after the other, and announces
  the result to the knowledge base sync, which reads the chain and replaces a
  graph of GraphDB.
- A user's credential wallet lives in person-mcp: wallet actions are signed,
  checked, and change three tables and a vault between which nothing is atomic.

What makes this hard: handlers suspend in the middle (`recoverAddress`, chain
calls, WebCrypto) with values read before; rows and counters are written by
statements that commit one by one; signed messages can be repeated and delayed
for ever; nonces are thrown away after a time that has to exceed the life of
what they protect; two processes have two clocks; and on chain, long sequences
of legal calls must not break counters, thresholds or delays. The web app adds
calls that may hang for ever, or fail after they took effect; a queue whose
members are abandoned but not stopped; and a mirror that is rebuilt from reads
made while others write.

## Modules

`SessionGrant` (operators only): the policy steps 5 to 8 of the verifier.

`DelegatedAction` extends it with state. One variable per table (`sessions`,
`epoch`, `nonces`, `audit`), sets for what is on the wire (`tokens`, `signed`),
and one record per suspended handler (`finalizing`, `reqs`).
- `finalize` is `FinalizeCheck` (up to the wait for ERC-1271) and
  `FinalizeInsert` or `FinalizeFail`. The verifier is `BeginVerify` (steps 2 to
  9, up to the wait for `recoverAddress`) or `Deny`, then `DenySignature`,
  `Replay` or `Commit` (steps 11 to 13).
- better-sqlite3 is synchronous, so nothing interleaves between the statements
  of `Commit`, but the process may die there: `CrashInCommit`. `Crash` loses all
  suspended handlers at any time.
- `signed` is never emptied, so every action can be presented again at any later
  time, also concurrently: that is the network that delays and duplicates.
- `now` is person-mcp's clock. The web app's is any value within `ClockSkew` of
  it, chosen anew at every use.
- `Entry.startedAt`, `startEpoch`, `Row.grantEpoch` and `answer` are history.
- `Services` are the names an action can be verified for: the service of
  `/wallet-action/dispatch`, and any that a caller of `/wallet-action/verify` gives.
- Left out: the `prevEntryHash` chain; `/audit/append`, which nothing calls; the
  wallet handler that runs after the verifier accepted.

`OneUseActions` is what this promises an account holder, without clocks, nonce
tables, tokens and logs: an action is admitted while its session is open and its
grant of the account's present generation, and accepted once; the module counts
the acceptances of each use, and accepts one only while no use of that nonce was
accepted. `DelegatedAction` implements it: a session row is its grant, a suspended
verification an admitted use, and `accepted` the number of "allowed" entries the
log has of a use, so a second entry would be a step the module does not have.

`AgentSessions`: the A2A agent's two tables, the tokens minted, and person-mcp's
verification of them. Handlers are cut at their chain and crypto waits, mint and
the proxy as well (`MintBegin` up to the decryption, `MintEnd` with the signature),
and verify between its two statements (`VerifyMark`, `VerifyInsert`). Anybody may
revoke any delegation on chain, also one no session has. Rows are numbered by insertion, since mint takes
the first match of an unordered SELECT. A delegation's hash is the delegation
itself. `Granted` stands for path A of `requireSession`, the accounts that hold
a SessionGrant; it is empty in the runs, so authentication is by the table.

`DelegatedTokens` is what this promises the accounts tokens speak for: a key is
given a delegation only by the account it was made for, a token is asked for under
what its key holds and minted once for what was asked, a use of it is admitted while that is not withdrawn, and
accepted within the token's limit. `AgentSessions` implements it: a session row is
a key, an active row's delegation what the key holds, a suspended mint a request
for a token, a use is admitted once
`isRevoked` answered false, and `token_usage` counts the accepted ones. Challenges,
authentication and the chain calls are invisible there. What the implementation
does not promise is visible in the abstract module: a delegation may be given after
a release, since a package in flight undoes a deletion, and a token minted after
one, by a request that had read the row before.

`AgentAccount` (operators only): the signer sets of an account as guards and
functions from storage to storage.

`Redemption` composes accounts, DelegationManager and the two enforcers that
keep state. A transaction is atomic and a reverted one changes nothing, so an
action is a transaction that succeeds. The exception is `redeemDelegation`, whose
hooks read what the ones before them wrote: `BeginRedemption` checks the array,
each `BeforeHook` is a step on a copy of the enforcers' storage (`tx.store`), and
`ExecuteFromDelegator` commits the copy or `Revert` drops it, with nothing in
between. Redeemers are addresses without code and agent accounts (`Senders`), and
a chain may name a delegation twice. `HandleOps` bundles two user operations and
validates both before it executes either, as the EntryPoint does (external code,
modelled from how the account uses it). AllowedTargets and AllowedMethods together
are the set of calls a delegation admits.

The before hooks check no caller, and the model has them called by anyone:
`CallRateHook` counts a call in any bucket under terms of the caller's own, and
`CallRecoveryHook` consumes any proposed intent, since guardians and delay are the
caller's as well. What the properties say takes that into account. A bucket is
named by delegator, hash and scope key, its window and its limit are those of the
call at hand, and two caveats of one delegation may share it: `RateBounded`
bounds the calls of a bucket that was used under one limit's terms alone, and
says nothing of another. An intent that stands proposed may be spent without being
run (`Spend` in `GuardedRecovery`), and then never runs. `uint64(delaySeconds)`
keeps the delay modulo `DelayRange` (2^64; the run takes 4, with a delay of 6).
Not modelled: upgrades, value transfers, the factory's setters.

`GuardedRecovery` is what the recovery enforcer promises an owner: one policy
gives the guardians, the threshold and the delay, the delay runs from the first
proposal the owner has not cancelled, and an intent runs once, which the module
counts (`runs`). It does not speak of delegations, chains or redeemers.
`Redemption` implements it: a committed redemption is `Run` of the set of intents
its hooks consumed, and `runs` the number of redemptions recorded for an intent.

`AgentControl`: one agent, since the storage of different agents is disjoint.
A proposal's class and data decide nothing in the contract and are left out.
`OwnerCouncil` is the same council with sets for members, ballots and what has
passed; `AgentControl` implements it with an array, a mapping, counters and
lengths.

`DeployerQueue`: `withDeployerLock`, `nextDeployerNonce` and the wallet client.
- A write has two lives: what its caller sees (`caller`, `timer`) and its own
  function (`fn`), which goes on after the caller's patience ended. `Acquire`
  and `RunExpires` are the two races against the cap.
- A transaction is sent (`Broadcast`), and then the node's decision and the end
  of the call are separate: an answer may be lost, and a request may arrive
  after its call failed. The pool is external: one transaction per nonce, later
  ones may replace it, gaps are accepted.
- `OutsideSend` is a client of the deployer key that uses neither lock nor
  counter. `faults` records what the lock alone cannot order, and the properties
  say which of these they need absent.

`AgentRelationship` (operators only): one edge, guards and functions, with the
roles kept twice as in the contract. `RelationshipFlows` composes it with the
server actions: a program counter per action, one step per look, and for each
transaction the steps of its life.
- `Submit` is the gas estimate and the sending: a transaction that would revert
  now is refused, one that would not is in the node's pool. `Mine` takes the pool
  in nonce order. `Mined` has the effect, `MinedReverting` none, when another
  transaction came first. The action goes on in both cases, since
  `waitForTransactionReceipt` resolves for a reverted transaction and its status
  is never looked at (`Resolved`).
- `GiveUp` is a refusal, a lost answer, a timeout, or the cap of the lock, which
  ends the action but not its write: that is sent later (`SubmitLate`) and mined
  later. `Drop` is a transaction the node forgets.
- `PartyActs` is everyone else: `createEdge` by any caller with any list of
  `InitialRoles`, and every other transition of the contract by the callers it
  admits for it.
The deployer is the only asserter, which is how the application asserts for both
sides. Left out: metadata, the second and later roles of one `createRelationship`
call (each is the step `grant` again), notifications, and transactions replaced by
another of the same nonce (`DeployerQueue` has those).

`KnowledgeSync`: the chain is a set of parts with a version each; a sync reads
them one by one and replaces the graph. The locked sync and the direct ones run
the same steps. An upload whose client has given up may be applied at any later
time, also after the process died (`stray`, `LandLate`). `excuse` collects why the graph may be behind, `owed` that an
announced write still waits for a sync to begin.

`HolderWallet`: one (principal, context) pair, since the rows of different pairs
are disjoint. (The names of their vault profiles need not be: `askarProfileFor`
replaces characters and joins principal and context by '-'. The secrets and requests
of a shared profile have random names, so two pairs would still not meet.) A handler is cut at its awaits with what it has
read before (`hw`), the two statements of a rotation can be torn apart by a crash
(`RotateTorn`). Proofs and secrets are AnonCreds' (external): a credential is
processed if the secret is its request's. `InsertCredential` gives the row what
the handler read, not what the wallet says by then. It implements
`CredentialExchange` under the mapping at its end: a request is open while it
is in the vault or in the hands of a store that has not given it up.

`MC*` modules give the runs their shapes, delegations and symmetry;
`*Proofs` modules hold the theorems.

## Runs

All bounds are constants of the configurations. Time units are abstract: only
the order of the deadlines matters.

| Run | Shows | Bounds |
|---|---|---|
| `delegated_replay` | `ReplayFree`, `AuditBacked`, `AllowedIsAudited`, `IdleNeverCollapses` and the refinement `ImplementsActions` | one session, two nonces, two verifications at once, one bump of the epoch, times to 4 with a retention of 3, so that nonces are collected, actions expire and a verification can last 2 |
| `delegated_panic` | `PanicSticks`, `RevocationHolds`, `RowsOnlyAge` | two sessions, one bump of the epoch, times to 2 |
| `delegated_audit` (violated) | a denied action leaves no audit entry | five shapes, one per policy check and a good one |
| `agent_sessions` | `TokensSpeakForOwner`, `TokenUseMetered`, `RevocationReachesTokens`, `ChallengeSpent`, `RevokedStays` and the refinement `ImplementsTokens` | two accounts, two rows, two handlers at once, one token with one use, one revocation on chain of any delegation (`MaxRevocations`) |
| `sessions_challenge` (violated) | two concurrent verifications of one challenge open two sessions | as above |
| `redemption` | `AccountsSound`, `RateBounded`, `RecoveryDelayed`, `RecoveryOnce` and the refinement `ImplementsGuarded` | one account, two owners, one passkey, two recoveries of one call with different guardians and delays (one beyond `DelayRange`), alone and in one chain, one of them rate-limited, a limited delegation and a redelegation of it to the account, a stranger's terms for one bucket; times to 3, at most one revocation and four calls counted by a bucket |
| `agent_control` | `OwnersAgree`, `VotesCounted`, `DecidedByQuorum`, `QuorumAttainable` and the refinement `ImplementsCouncil` | four users, two proposals, quorum and minimum up to 3 |
| `control_quorum_decides` (violated) | a proposal with enough approvals that nobody can execute | as above |
| `deployer_queue` | `OneAtATime`, `NonceFresh`, `SentStays`, `NoOrphanGap`, and the liveness property `EveryWriteAnswered` | three writes, one client beside the lock, a cap of one tick, nonces to 3 |
| `relationship_flows` | `RolesAgree`, `RolesGranted`, `SelfClaimed`, `RejectionStands` | one edge, two roles, three calls (`MaxCalls`), each of an action or of anyone else, edges created with up to two roles, the same one twice as well |
| `knowledge_sync` | `StaleForAReason` and the liveness property `OwedSyncRuns` | two parts with one write each (`MaxVersion`), two actions, one direct sync, one upload applied late (`MaxStray`) |
| `holder_wallet` | `ActiveIsCurrent`, `OneCredentialPerRequest`, `BoundToItsRequest`, `ProvisioningKeepsWallet` and the refinement `ImplementsExchange` | three calls at once, three signed nonces (dispatched calls need none), three secrets, two requests |

Why these bounds are enough: a replay takes two presentations of one action, and
a race takes two handlers; a panic bump concerns one epoch and the next; a
challenge or package race takes two requests; the last-signer guard is about two
kinds of signer and two removals; a double recovery takes two delegations with
one intent; a burst across a window's boundary takes three calls of a limit of two, and a fourth
would break the bound;
a stuck proposal takes three owners with a lower quorum; an overtaking takes
three writes, and a lost answer, a stale count and a gap take two; a race of
relationship actions takes two, one of them mined reverting, and a third call that
confirms, rejects or removes a role; a sync that
is overtaken takes two syncs and a write between their reads, and one part written
once tells an old read from a new one; a torn rotation
takes a second rotation and a store. The theorems below remove the bounds for
all of these properties but the two of liveness.

`deployer_queue` lets the writes enter in the order of their numbers (they are
alike, and symmetry sets are not sound for liveness): the constraint cuts off
only behaviours that are renamings of others, and no step under fairness leaves
it.

Each violated run states what a document or a comment says and the code does
otherwise; the finding in `PROJECT.json` quotes both. Every property of a
passing run is broken by at least one plausible mistake in the code; the
operators marked "Mutation" are those mistakes and are used by nothing else.

Fairness is stated where a liveness property is checked, and only of what the
process does by itself:

- `DeployerQueue`: timers fire (`Tick`), and the event loop runs a write whose
  wait is over and rejects one whose time is up (`Acquire`, `RunExpires`). Nothing
  is assumed of the node, the network or the functions: `EveryWriteAnswered` holds
  although each of them may hang for ever, which is what the cap is for.
- `KnowledgeSync`: the debounce timer fires, and the locked sync goes on. Its
  reads and its upload are HTTP requests whose clients have timeouts (viem's
  transport, undici), so each ends in an answer or an error. There are finitely
  many actions, so a stream of calls that keeps resetting the timer is not
  modelled: within a burst the code promises nothing.

The other specifications state none: their safety does not depend on it.
Deadlock is checked in every passing run: there is always a crash, a restart, a
retry, a proposal or a vote that may happen.

## Proofs

`DelegatedActionProofs`, from `TimingAssumption` (an action's life, the clocks'
difference and the longest verification fit in the nonce retention:
`ActionWindow + ClockSkew + MaxVerify <= NonceTTL`; 5 min + slack <= 10 min in
the source) and the null values being none of the others:

- `InvariantHolds`: `Spec => []IInv`. `ReplayFree` is not inductive: once a nonce
  row is collected, only time keeps the action from passing again. `IInv` adds
  that nonces are unique among signed actions and no action was stamped in the
  future (`SignedInv`), that a suspended verification began at most `MaxVerify`
  ago with an action that was alive (`PendingInv`), and for each accepted entry
  that its nonce row exists until `ts + NonceTTL` (`AuditInv`). A second
  acceptance of the nonce at `now` would need `now > ts + NonceTTL` and
  `now <= created + ActionWindow + MaxVerify <= ts + ClockSkew + ActionWindow +
  MaxVerify`, which contradict the assumption.
- `ActionsNotReplayed`, `PanicHolds`, `RevocationEffective`, `NoncesBackAudit`
  follow from it. `PanicHolds` needs `RowInv`: rows carry the epoch their grant
  was signed with, because finalize compares the two before it waits.
- `SessionsOnlyAge`: an action property, one step per action of the session store.
- `ActionsImplemented`: every step is a step of `OneUseActions` or invisible there.
  A mint gives a grant of a generation the account has had (`FinalizeInv`: no
  ceremony carries one it has not reached); the checks before the wait are those
  of `Admit` because rows carry the epoch of their grant; and `Commit` adds one to
  the number of entries of a use, none of whose nonce was there, which is again
  the timing argument (`NoSecondAcceptance`). What a crash drops was never accepted.

`RedemptionProofs`, from `DelegationAssumption` (what a delegation, its caveats and
the arrays submitted are; nothing is assumed of who calls a hook, of the scope keys
of a delegation, or of a chain's delegations being distinct):

- `RedemptionInvariant`: `Spec => []IInv`, with the counters as cardinalities
  (`FiniteSetTheorems`), the pending time of each intent (`PendingInv`: it stands
  proposed since `firstAt` at the latest), and what is known of the enforcers'
  storage (`StoreInv`), stated of the storage and of the copy a redemption works on.
- `AccountsStaySound`, `RecoveriesWait`, `RecoveriesRunOnce`.
- `BurstsAreBounded`: `RateBounded` counts calls in an interval, of which the bucket
  remembers only those of the last window. `BucketInv` recovers the rest from the
  history: while a bucket was used under one limit's terms alone, some calls opened
  a window (`WindowsOpened`), two of them are at least a window apart, and of any
  `max + 1` calls in a row one after the first opened a window. Were there `2 * max`
  calls in one interval, two of these would fall inside it, less than a window apart.
- `RecoveryGuarded`: the step that commits a redemption is `Run` of the intents its
  copy consumed, and each has one more recovery on record. `TxInv` keeps, from hook
  to commit, that these were open when the redemption began and that one policy of
  each was ripe and backed; neither can change meanwhile, for nothing else runs. The
  delay runs from `firstAt`, which `PendingInv` puts no later than the enforcer's
  `proposedAt`: proposing again only makes a recovery wait longer. A hook called by
  a stranger is `Spend`.

`AgentControlProofs`, from `SizesAssumption`:

- `ControlInvariant`: `Spec => []IInv`; the core is that swap and pop removes
  exactly one owner from a duplicate-free array and keeps it so.
- `OwnersConsistent`, `VotesDistinct`, `ExecutedByQuorum`, `QuorumStaysAttainable`.
- `CouncilImplemented`: the length of the array is the number of owners
  (`OwnersCounted`, from the absence of duplicates), and the approval count the
  number of ballots, so what the contract compares is what the council counts.

`DelegatedActionProofs` also proves, each with an invariant of its own beside
`IInv`: `AllowedAreAudited` (`AnswerInv`: the last "allowed" went to an action of
the log) and `IdleDeadlineHolds` (`IdleInv`: no deadline is further ahead of now
than the window and the skew, so a slide from an old clock value cannot move it
back by more than a verification).

`AgentSessionsProofs`: `SessionInvariant`, with what each suspended handler has
read and what of it still holds when it goes on (`LoginOK`, `PackageOK`,
`AskedOK`, `UseOK`);
then `SessionTypes`, `TokensAreTheOwners`, `TokensAreMetered`,
`RevocationReaches`, `ChallengesAreSpent`, `RevocationIsFinal`. `TokensImplemented`
is the step simulation for `DelegatedTokens`, one lemma per action that is visible
there. It needs that a package in flight carries a delegation to the very key of
its row, signed by the row's account, across the wait for ERC-1271 (`PackageOK`),
and that a token is signed with the key and the delegation that were read before the
waits, whatever has become of the row.

`DeployerQueueProofs`, from `QueueAssumption`: `QueueInvariant`. Tickets are dense
and distinct and whoever acquired in turn has only answered writes before it
(`OrderInv`), so without a cap reached one function is alive; then the nonces in
use are an initial segment and the counter, the live function and the node agree
where it ends (`SegmentInv`). `NoOrphanGap` needs none of this: it is inductive with
what a late count may overwrite (`GapInv`), and so holds under every disturbance.

`RelationshipFlowsProofs`, from `OthersAssumption` (the deployer is none of the
other callers): `FlowInvariant`. The core is `WithoutRole`, that swap and pop removes
the one occurrence of a role from a duplicate-free array, and what each transaction
leaves alone while others are in the pool. An action has one write at a time, in
the pool or left to the lock (`OneWrite`), asked for by the step it is at or gave up
at (`WriteInv`), so a transaction mined late is still known to be its action's:
`GrantInv` and `ClaimInv` say what it may change by then. `RolesGranted` has one
exemption that is a defect of the code and not of the model (`reverted`): nobody
looks at the receipt of the transaction that should have granted the role.

`KnowledgeSyncProofs`, from `SyncAssumption`: `SyncInvariant`. While no sync is due
and no reason recorded, a sync that began after the last locked one holds what
the chain has in every part it has read, also when it gave its upload up, and once
the locked one ended the graph equals the chain (`FreshInv`).

`HolderWalletProofs`, from `WalletAssumption`: `WalletInvariant`, a request is in
one place only (the vault, one call, or a credential), and `ExchangeImplemented`,
the step simulation for `CredentialExchange`.

The inductive invariants were checked by TLC on the runs above before they were
proved; now that they are theorems, the runs check what they imply.

Only model-checked: the liveness properties `EveryWriteAnswered` and
`OwedSyncRuns`. Liveness, ENABLED and induction over data are out of the prover's
reach.

## Plan

Done: `SessionGrant`, `DelegatedAction`, `AgentSessions`, `AgentAccount`,
`Redemption`, `AgentControl`, `DeployerQueue`, `AgentRelationship` and
`RelationshipFlows`, `KnowledgeSync`, `HolderWallet`, and the abstract modules, all
with proofs.

Next, in this order:

1. `GroupRevocation`: people-group-mcp's bump, chain submission and roll back,
   with receipts that time out after the transaction was mined and two requests
   at once. It would carry the divergence about the discarded epoch.
2. `NameRegistry`: the name tree with expiry and transfer.
3. One more abstract specification: a serial queue with answers in time,
   implemented by `DeployerQueue` where no cap is reached.

## Not modelled

- Encodings, signature arithmetic and circuits, SPARQL queries, scores, pages:
  pure functions or views.
- The web application's engagement, intent, need, entitlement and work item
  actions: they work on tables that `apps/web/src/db/index.ts` drops at every
  start, with each query inside a catch, so they keep no state to be right about.
- The tools of org-mcp, people-group-mcp and person-mcp that read or write single
  rows of their caller; reviews, disputes, profiles and claims on chain that are
  appended or overwritten by their owner.
- Presentations (`proofs.ts`, `oid4vp.ts`): they change no state of the wallet but
  their audit rows; that they accept stale credentials is a finding.
- Demonstration seeds, which are a large part of `apps/web/src/lib`.
