----------------------------- MODULE Redemption -----------------------------
(***************************************************************************)
(* Redeeming delegations on chain: the DelegationManager, the agent         *)
(* accounts it executes through, and the two caveat enforcers that keep     *)
(* state, RateLimitEnforcer and RecoveryEnforcer, whose hooks are open to   *)
(* any caller.                                                              *)
(*                                                                          *)
(* Transactions are atomic, their order and the block times arbitrary.  Each *)
(* action but a redemption's is one transaction that succeeds.  A redemption *)
(* takes a step for every hook, on a copy of the enforcers' storage, and    *)
(* nothing else runs before it commits the copy or reverts.                 *)
(***************************************************************************)
EXTENDS AgentAccount, Sequences, Functions

CONSTANTS
  Accounts,      \* agent accounts, deployed during the run
  EOAs,          \* addresses without code: they send, guard and delegate
  Hashes,        \* delegation hashes, the identity of a delegation
  ScopeKeys,     \* the bucket keys of RateLimitEnforcer
  Delegation,    \* Delegation[h]: the delegation with that hash
  Chains,        \* the delegation arrays redeemers submit
  Calls,         \* the calls redeemed or sent as user operations
  Other,         \* a call to a contract outside this model
  HookTerms,     \* HookTerms[h]: the terms given to RateLimitEnforcer for h
                 \* outside a redemption
  DelayRange,    \* 2^64: what uint64(delaySeconds) keeps is taken modulo this
  Root, Open, NoAccount,
  MaxTime        \* bound on block.timestamp

RateTerms == [kind : {"rate"}, scopeKey : ScopeKeys, max : Nat, window : Nat]
RecoveryTerms ==
  [kind : {"recovery"}, guardians : SUBSET EOAs, threshold : Nat, delay : Nat]

\* Who gives, to whom, under which parent, which key of the delegator signed,
\* and the caveats: AllowedTargets and AllowedMethods together as the set of
\* calls, the two with state as the sequence of their terms, in the order the
\* hooks run.
DelegationRecord ==
  [ delegator : Accounts \cup EOAs,
    delegate : Accounts \cup EOAs \cup {Open},
    authority : Hashes \cup {Root},
    signer : Owners \cup Passkeys \cup EOAs,
    calls : SUBSET Calls,
    caveats : Seq(RateTerms \cup RecoveryTerms) ]

ASSUME DelegationAssumption ==
  /\ Delegation \in [Hashes -> DelegationRecord]
  /\ Calls \subseteq SelfCall \cup {Other}
  /\ Chains \subseteq Seq(Hashes)
  /\ HookTerms \in [Hashes -> SUBSET RateTerms]
  /\ DelayRange \in Nat \ {0} /\ MaxTime \in Nat
  /\ Accounts \cap EOAs = {}
  /\ NoAccount \notin Account /\ Other \notin SelfCall

VARIABLES
  now,        \* block.timestamp, never 0
  accounts,
  revoked,    \* DelegationManager._revoked
  store,      \* the storage the enforcers' hooks write, and its history
  proposedAt, \* RecoveryEnforcer.proposedAt, 0 when absent
  endorsed,   \* guardian signatures over intent hashes, given off chain
  firstAt,    \* history: when an intent was first proposed since its last
              \* cancellation, 0 when it was not
  tx          \* the redemption under way

vars == << now, accounts, revoked, store, proposedAt, endorsed, firstAt, tx >>

\* The stateful caveats of a delegation, of either enforcer.
Caveats(h, kind) == { terms \in Range(Delegation[h].caveats) : terms.kind = kind }

\* An intent hash stands for the delegator and the call.
IntentOf(h, call) == [delegator |-> Delegation[h].delegator, call |-> call]
Intents ==
  UNION { { IntentOf(h, call) : call \in Delegation[h].calls } :
          h \in { g \in Hashes : Caveats(g, "recovery") # {} } }

\* RateLimitEnforcer.Bucket; times and limits are history: when the bucket
\* counted a call, and the terms it counted calls under.
Bucket == [start : Nat, calls : Nat, times : Seq(Nat), limits : SUBSET RateTerms]

\* recoveries is history: the redemptions an intent was consumed by.
Recovery == [at : Nat, first : Nat, delay : Nat]
Store ==
  [ buckets : [Hashes -> [ScopeKeys -> Bucket]],  \* _buckets, of the delegator
    consumed : SUBSET Intents,
    recoveries : [Intents -> Seq(Recovery)] ]

\* Which element of the array the loops of redeemDelegation have reached, how
\* many of its caveats' hooks have run, and the storage they leave.
NoTx == [chain |-> << >>]
Redemptions ==
  [chain : Chains, call : Calls, at : Nat \ {0}, ran : Nat, store : Store]

TypeOK ==
  /\ now \in Nat \ {0}
  /\ accounts \in [Accounts -> Account \cup {NoAccount}]
  /\ revoked \subseteq Hashes
  /\ store \in Store
  /\ proposedAt \in [Intents -> Nat]
  /\ endorsed \subseteq EOAs \X Intents
  /\ firstAt \in [Intents -> Nat]
  /\ tx \in {NoTx} \cup Redemptions

NoCalls == [start |-> 0, calls |-> 0, times |-> << >>, limits |-> {}]

Init ==
  /\ now = 1
  /\ accounts = [a \in Accounts |-> NoAccount]
  /\ revoked = {}
  /\ store = [ buckets |-> [h \in Hashes |-> [key \in ScopeKeys |-> NoCalls]],
               consumed |-> {},
               recoveries |-> [i \in Intents |-> << >>] ]
  /\ proposedAt = [i \in Intents |-> 0]
  /\ endorsed = {}
  /\ firstAt = [i \in Intents |-> 0]
  /\ tx = NoTx

-----------------------------------------------------------------------------
(* The accounts.                                                            *)

Deployed(a) == accounts[a] # NoAccount

\* AgentAccountFactory.createAccount.
Deploy(a, owner, server, linked) ==
  /\ tx = NoTx /\ ~Deployed(a)
  /\ accounts' = [accounts EXCEPT ![a] = Initialized(owner, server, linked)]
  /\ UNCHANGED << now, revoked, store, proposedAt, endorsed, firstAt, tx >>

\* One call the account makes; a call that reverts leaves the account alone.
Executed(acct, call) ==
  IF call # Other /\ Allows(acct, call) THEN After(acct, call) ELSE acct

HasSigner(a) ==
  Deployed(a) /\ \E signer \in Owners \cup Passkeys : IsSigner(accounts[a], signer)

\* EntryPoint.handleOps with a bundle of two operations: both are validated
\* before either is executed, so the first may remove the second's signer.
HandleOps(a, call1, call2) ==
  /\ tx = NoTx /\ HasSigner(a)
  /\ accounts' = [accounts EXCEPT ![a] = Executed(Executed(@, call1), call2)]
  /\ UNCHANGED << now, revoked, store, proposedAt, endorsed, firstAt, tx >>

\* setDelegationManager, by an owner directly or by the account.
LinkManager(a, linked) ==
  /\ tx = NoTx /\ HasSigner(a)
  /\ accounts' = [accounts EXCEPT ![a] = SetDelegationManager(@, linked)]
  /\ UNCHANGED << now, revoked, store, proposedAt, endorsed, firstAt, tx >>

-----------------------------------------------------------------------------
(* The enforcers outside a redemption.                                      *)

\* propose, by anyone, again as often as they like.
Propose(i) ==
  /\ tx = NoTx
  /\ proposedAt' = [proposedAt EXCEPT ![i] = now]
  /\ firstAt' = [firstAt EXCEPT ![i] = IF @ = 0 THEN now ELSE @]
  /\ UNCHANGED << now, accounts, revoked, store, endorsed, tx >>

\* Mutation: the proposal survives its cancellation.
CancelNothing(i) ==
  /\ tx = NoTx
  /\ i.delegator \in Accounts => HasSigner(i.delegator)
  /\ firstAt' = [firstAt EXCEPT ![i] = 0]
  /\ UNCHANGED << now, accounts, revoked, store, proposedAt, endorsed, tx >>

\* cancel, by the delegator: a user operation or an EOA's transaction.
Cancel(i) ==
  /\ tx = NoTx
  /\ i.delegator \in Accounts => HasSigner(i.delegator)
  /\ proposedAt' = [proposedAt EXCEPT ![i] = 0]
  /\ firstAt' = [firstAt EXCEPT ![i] = 0]
  /\ UNCHANGED << now, accounts, revoked, store, endorsed, tx >>

Endorse(g, i) ==
  /\ tx = NoTx /\ << g, i >> \notin endorsed
  /\ endorsed' = endorsed \cup { << g, i >> }
  /\ UNCHANGED << now, accounts, revoked, store, proposedAt, firstAt, tx >>

\* Mutation: the window rolls one second early.
RolledEarly(bucket, terms) ==
  IF bucket.start = 0 \/ now + 1 >= bucket.start + terms.window
  THEN [bucket EXCEPT !.start = now, !.calls = 0]
  ELSE bucket

\* RateLimitEnforcer.beforeHook: the window rolls when it is over by the terms
\* of this call, whoever gave them.
Rolled(bucket, terms) ==
  IF bucket.start = 0 \/ now >= bucket.start + terms.window
  THEN [bucket EXCEPT !.start = now, !.calls = 0]
  ELSE bucket

RateAllows(bucket, terms) ==
  /\ terms.max > 0 /\ terms.window > 0
  /\ Rolled(bucket, terms).calls + 1 <= terms.max

Counted(bucket, terms) ==
  [ Rolled(bucket, terms) EXCEPT
      !.calls = @ + 1, !.times = Append(@, now), !.limits = @ \cup {terms} ]

CountedIn(s, h, terms) == [s EXCEPT !.buckets[h][terms.scopeKey] = Counted(@, terms)]

\* The hook is external and checks no caller: anyone may have it count a call
\* in any bucket, under terms of their own.
CallRateHook(h, terms) ==
  /\ tx = NoTx /\ RateAllows(store.buckets[h][terms.scopeKey], terms)
  /\ store' = CountedIn(store, h, terms)
  /\ UNCHANGED << now, accounts, revoked, proposedAt, endorsed, firstAt, tx >>

\* uint64(delaySeconds).  A sum beyond 64 bits reverts, and is beyond every
\* block time as well.
DelayOf(terms) == terms.delay % DelayRange

\* Mutation: a consumed intent is not refused.
RecoveryAllowsAgain(consumed, i, terms) ==
  /\ terms.threshold \in 1 .. Cardinality(terms.guardians)
  /\ proposedAt[i] # 0
  /\ now >= proposedAt[i] + DelayOf(terms)
  /\ Cardinality({ g \in terms.guardians : << g, i >> \in endorsed }) >= terms.threshold

\* Mutation: the guardians' signatures are not counted.
RecoveryUnendorsed(consumed, i, terms) ==
  /\ terms.threshold \in 1 .. Cardinality(terms.guardians)
  /\ proposedAt[i] # 0 /\ i \notin consumed
  /\ now >= proposedAt[i] + DelayOf(terms)

\* RecoveryEnforcer.beforeHook: proposed, not consumed, ripe, and endorsed by
\* enough guardians.
RecoveryAllows(consumed, i, terms) ==
  /\ terms.threshold \in 1 .. Cardinality(terms.guardians)
  /\ proposedAt[i] # 0 /\ i \notin consumed
  /\ now >= proposedAt[i] + DelayOf(terms)
  /\ Cardinality({ g \in terms.guardians : << g, i >> \in endorsed }) >= terms.threshold

ConsumedIn(s, i) == [s EXCEPT !.consumed = @ \cup {i}]
RecoveredIn(s, i, recovery) ==
  [s EXCEPT !.consumed = @ \cup {i}, !.recoveries[i] = Append(@, recovery)]

\* This hook is anyone's as well: with a guardian and a delay of the caller's
\* own, the proposal is all that is left to check.
CallRecoveryHook(i) ==
  /\ tx = NoTx /\ proposedAt[i] # 0 /\ i \notin store.consumed
  /\ store' = ConsumedIn(store, i)
  /\ UNCHANGED << now, accounts, revoked, proposedAt, endorsed, firstAt, tx >>

-----------------------------------------------------------------------------
(* DelegationManager.                                                       *)

RevokeDelegation(h) ==
  /\ tx = NoTx
  /\ revoked' = revoked \cup {h}
  /\ UNCHANGED << now, accounts, store, proposedAt, endorsed, firstAt, tx >>

\* _validateDelegation for the i-th element of the array.
ValidDelegation(c, i, sender) ==
  LET d == Delegation[c[i]]
      redeemer == IF i = 1 THEN sender ELSE Delegation[c[i - 1]].delegator IN
  /\ c[i] \notin revoked
  /\ d.delegate \in { Open, redeemer }
  /\ d.authority # Root => i < Len(c) /\ d.authority = c[i + 1]
  /\ IF d.delegator \in EOAs
     THEN d.signer = d.delegator
     ELSE Deployed(d.delegator) /\ IsSigner(accounts[d.delegator], d.signer)

Senders == EOAs \cup { a \in Accounts : HasSigner(a) }

\* redeemDelegation.  The signatures, the authority chain and the caveats
\* without state depend on nothing the hooks change, so they are checked first.
BeginRedemption(c, sender, call) ==
  /\ tx = NoTx /\ c # << >>
  /\ \A k \in DOMAIN c : ValidDelegation(c, k, sender) /\ call \in Delegation[c[k]].calls
  /\ tx' = [chain |-> c, call |-> call, at |-> 1, ran |-> 0, store |-> store]
  /\ UNCHANGED << now, accounts, revoked, store, proposedAt, endorsed, firstAt >>

\* The delegation whose hooks run.
Current == tx.chain[tx.at]

\* _runBeforeHooks: the next hook of the delegation.
BeforeRateHook(terms) ==
  /\ RateAllows(tx.store.buckets[Current][terms.scopeKey], terms)
  /\ tx' = [tx EXCEPT !.ran = @ + 1, !.store = CountedIn(@, Current, terms)]

BeforeRecoveryHook(terms) ==
  LET i == IntentOf(Current, tx.call)
      recovery == [at |-> now, first |-> firstAt[i], delay |-> DelayOf(terms)] IN
  /\ RecoveryAllows(tx.store.consumed, i, terms)
  /\ tx' = [tx EXCEPT !.ran = @ + 1, !.store = RecoveredIn(@, i, recovery)]

BeforeHook ==
  /\ tx # NoTx /\ tx.at \in DOMAIN tx.chain
  /\ tx.ran < Len(Delegation[Current].caveats)
  /\ LET terms == Delegation[Current].caveats[tx.ran + 1] IN
       \/ terms.kind = "rate" /\ BeforeRateHook(terms)
       \/ terms.kind = "recovery" /\ BeforeRecoveryHook(terms)
  /\ UNCHANGED << now, accounts, revoked, store, proposedAt, endorsed, firstAt >>

\* From the leaf towards the root.
NextDelegation ==
  /\ tx # NoTx /\ tx.at \in DOMAIN tx.chain
  /\ tx.ran = Len(Delegation[Current].caveats)
  /\ tx' = [tx EXCEPT !.at = @ + 1, !.ran = 0]
  /\ UNCHANGED << now, accounts, revoked, store, proposedAt, endorsed, firstAt >>

\* The root delegator's account makes the call; a plain call to an address
\* without code succeeds and does nothing.
ExecuteFrom(root, call) ==
  IF root \in EOAs THEN UNCHANGED accounts
  ELSE /\ accounts[root].linked
       /\ IF call = Other THEN UNCHANGED accounts
          ELSE /\ Allows(accounts[root], call)
               /\ accounts' = [accounts EXCEPT ![root] = After(@, call)]

\* _executeFromDelegator, the last thing that may fail: the after hooks do
\* nothing, and the transaction takes effect.
ExecuteFromDelegator ==
  /\ tx # NoTx /\ tx.at = Len(tx.chain) + 1
  /\ ExecuteFrom(Delegation[tx.chain[Len(tx.chain)]].delegator, tx.call)
  /\ store' = tx.store
  /\ tx' = NoTx
  /\ UNCHANGED << now, revoked, proposedAt, endorsed, firstAt >>

\* A hook or the call refuses, or the gas runs out.
Revert ==
  /\ tx # NoTx
  /\ tx' = NoTx
  /\ UNCHANGED << now, accounts, revoked, store, proposedAt, endorsed, firstAt >>

Tick ==
  /\ tx = NoTx /\ now < MaxTime
  /\ now' = now + 1
  /\ UNCHANGED << accounts, revoked, store, proposedAt, endorsed, firstAt, tx >>

Next ==
  \/ \E a \in Accounts, o \in Owners, linked \in BOOLEAN :
       \E server \in { NoServer } \cup { {s} : s \in Owners } :
         Deploy(a, o, server, linked)
  \/ \E a \in Accounts, c1, c2 \in Calls : HandleOps(a, c1, c2)
  \/ \E a \in Accounts, linked \in BOOLEAN : LinkManager(a, linked)
  \/ \E i \in Intents : Propose(i) \/ Cancel(i) \/ CallRecoveryHook(i)
  \/ \E i \in Intents, g \in EOAs : Endorse(g, i)
  \/ \E h \in Hashes : \E terms \in HookTerms[h] : CallRateHook(h, terms)
  \/ \E h \in Hashes : RevokeDelegation(h)
  \/ \E c \in Chains, sender \in Senders, call \in Calls :
       BeginRedemption(c, sender, call)
  \/ BeforeHook \/ NextDelegation \/ ExecuteFromDelegator \/ Revert
  \/ Tick

Spec == Init /\ [][Next]_vars

-----------------------------------------------------------------------------
(* Properties.                                                              *)

\* Whatever bundles, recoveries and redemptions do to it, an account's counters
\* agree with its mappings and it never loses its last signer.
AccountsSound == \A a \in Accounts : Deployed(a) => SignersSound(accounts[a])

\* The calls a bucket counted in the half-open interval of length w from t.
CallsWithin(bucket, t, w) ==
  Cardinality({ k \in DOMAIN bucket.times : t <= bucket.times[k] /\ bucket.times[k] < t + w })

\* Whoever had the bucket count a call did so under these terms.
OnlyUnder(bucket, terms) == bucket.limits = {terms}

\* The fixed window admits a burst across its boundary, but a bounded one: where
\* the enforcer was called for a bucket under a limit's own terms alone, by
\* redemptions or by anyone, no interval of the window's length sees as many as
\* 2 * maxCalls calls.  (Other terms, of a second caveat with the scopeKey or of
\* a stranger's, share the bucket and may reset it: the limit promises nothing.)
RateBounded ==
  \A h \in Hashes : \A terms \in Caveats(h, "rate") : \A t \in 1 .. now :
    LET bucket == store.buckets[h][terms.scopeKey] IN
    OnlyUnder(bucket, terms) => CallsWithin(bucket, t, terms.window) < 2 * terms.max

\* The owner has the full delay to cancel: a recovery runs only when the intent
\* has stood proposed, uncancelled, for the caveat's delay.
RecoveryDelayed ==
  \A i \in Intents : \A k \in DOMAIN store.recoveries[i] :
    LET r == store.recoveries[i][k] IN r.first # 0 /\ r.at >= r.first + r.delay

\* "Prevents replay of a successful recovery": an intent is executed once, also
\* when it is proposed again, cancelled, or carried by several delegations.
RecoveryOnce == \A i \in Intents : Len(store.recoveries[i]) <= 1

\* What is known of an intent in the enforcers' storage: it ran at most once,
\* late enough, and is consumed since.
RecoveredOnce(s, i) ==
  /\ Len(s.recoveries[i]) <= 1
  /\ s.recoveries[i] # << >> => i \in s.consumed
  /\ \A k \in DOMAIN s.recoveries[i] :
       LET r == s.recoveries[i][k] IN r.first # 0 /\ r.at >= r.first + r.delay

\* It stands proposed at least since the time that counts.
PendingInv(i) ==
  /\ firstAt[i] <= proposedAt[i] /\ firstAt[i] <= now
  /\ firstAt[i] = 0 <=> proposedAt[i] = 0

\* The calls in W opened the windows of a bucket: the first call did, and the
\* one the bucket remembers; two windows begin at least a window apart, and no
\* maxCalls calls in a row follow the k-th without opening one.
WindowsOpened(bucket, terms, W) ==
  LET u == bucket.times
      last == Len(u) + 1 - bucket.calls IN
  /\ 1 \in W /\ last \in W
  /\ u[last] = bucket.start
  /\ \A j \in W : j <= last
  /\ \A i, j \in W : i < j => u[j] >= u[i] + terms.window
  /\ \A k \in DOMAIN u : k + terms.max <= Len(u) =>
       \E j \in W : k < j /\ j <= k + terms.max

\* What is known of a bucket at time t: the times of its calls only grow, and
\* when they all came under the same terms, those divide them into windows.
BucketInv(bucket, t) ==
  LET u == bucket.times IN
  /\ \A k \in DOMAIN u : 0 < u[k] /\ u[k] <= t
  /\ \A j, k \in DOMAIN u : j <= k => u[j] <= u[k]
  /\ u = << >> <=> bucket.start = 0
  /\ u = << >> <=> bucket.limits = {}
  /\ \A terms \in bucket.limits :
       OnlyUnder(bucket, terms) =>
         /\ bucket.calls \in 1 .. terms.max
         /\ bucket.calls <= Len(u)
         /\ \E W \in SUBSET DOMAIN u : WindowsOpened(bucket, terms, W)

StoreInv(s, t) ==
  /\ \A i \in Intents : RecoveredOnce(s, i)
  /\ \A h \in Hashes, key \in ScopeKeys : BucketInv(s.buckets[h][key], t)

-----------------------------------------------------------------------------
(* The recovery the enforcer promises.                                      *)

\* The recovery caveats of the delegations an intent can be redeemed by.
Covering(i) ==
  { h \in Hashes : Delegation[h].delegator = i.delegator /\ i.call \in Delegation[h].calls }
Policy(terms) ==
  [guardians |-> terms.guardians, threshold |-> terms.threshold, delay |-> DelayOf(terms)]
PoliciesOf(i) ==
  UNION { { Policy(terms) : terms \in Caveats(h, "recovery") } : h \in Covering(i) }

Guarded == INSTANCE GuardedRecovery WITH
  Guardians <- EOAs, Policies <- [i \in Intents |-> PoliciesOf(i)],
  pending <- firstAt, spent <- store.consumed,
  runs <- [i \in Intents |-> Len(store.recoveries[i])]

\* propose, cancel, the hooks anyone may call and redemptions, in chains of any
\* shape, implement guarded recovery: the threshold and the delay that let an
\* intent run are those of one policy, and it runs once, or never again when
\* somebody consumed it without running it.
ImplementsGuarded == Guarded!Spec

-----------------------------------------------------------------------------
\* What a redemption under way has consumed, each intent once: it was open to it,
\* ripe and backed under one policy, and its recovery is the last one recorded.
TxInv ==
  /\ StoreInv(tx.store, now)
  /\ store.consumed \subseteq tx.store.consumed
  /\ \A i \in Intents :
       IF i \in tx.store.consumed \ store.consumed
       THEN /\ Len(tx.store.recoveries[i]) = Len(store.recoveries[i]) + 1
            /\ \E policy \in PoliciesOf(i) :
                 Guarded!Ripe(i, policy) /\ Guarded!Backed(i, policy)
       ELSE tx.store.recoveries[i] = store.recoveries[i]

\* What a redemption has checked before its hooks run, and what is left to do.
PathInv ==
  /\ tx.chain # << >> /\ tx.at \in 1 .. Len(tx.chain) + 1
  /\ \A k \in DOMAIN tx.chain :
       LET d == Delegation[tx.chain[k]] IN
       tx.call \in d.calls /\ (d.delegator \in EOAs \/ Deployed(d.delegator))

\* The inductive invariant behind the properties above.
IInv ==
  /\ TypeOK
  /\ AccountsSound
  /\ \A a \in Accounts : Deployed(a) =>
       IsFiniteSet(accounts[a].owners) /\ IsFiniteSet(accounts[a].registered)
  /\ \A i \in Intents : PendingInv(i)
  /\ StoreInv(store, now)
  /\ tx # NoTx => TxInv /\ PathInv
=============================================================================
