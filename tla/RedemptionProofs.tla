-------------------------- MODULE RedemptionProofs --------------------------
(***************************************************************************)
(* Proofs about Redemption, for any accounts, delegations and delegation    *)
(* arrays that satisfy DelegationAssumption, and any time bound.            *)
(***************************************************************************)
EXTENDS Redemption, FiniteSetTheorems, SequenceTheorems, WellFoundedInduction,
        TLAPS

-----------------------------------------------------------------------------
(* The operations of AgentAccount keep an account sound.                    *)

Sound(acct) ==
  /\ acct \in Account
  /\ SignersSound(acct)
  /\ IsFiniteSet(acct.owners)
  /\ IsFiniteSet(acct.registered)

LEMMA InitializedSound ==
  ASSUME NEW owner \in Owners, NEW server \in { NoServer } \cup { {s} : s \in Owners },
         NEW linked \in BOOLEAN
  PROVE  Sound(Initialized(owner, server, linked))
<1>. DEFINE acct == Initialized(owner, server, linked)
            n == IF server = NoServer \/ server = {owner} THEN 1 ELSE 2
<1>1. /\ acct.owners = {owner} \cup server /\ acct.ownerCount = n
      /\ acct.keys = {} /\ acct.registered = {} /\ acct.count = 0
      /\ acct.linked = linked
  BY DEF Initialized
<1>2. {owner} \cup server \subseteq Owners /\ n \in Nat
  BY DEF NoServer
<1>3. acct \in Account
  BY <1>2 DEF Account, Initialized
<1>4. IsFiniteSet({owner} \cup server) /\ Cardinality({owner} \cup server) = n
  <2>1. CASE server = NoServer \/ server = {owner}
    <3>1. {owner} \cup server = {owner} /\ n = 1
      BY <2>1 DEF NoServer
    <3>. QED
      BY <3>1, FS_Singleton
  <2>2. CASE ~(server = NoServer \/ server = {owner})
    <3>1. PICK s \in Owners : server = {s} /\ s # owner
      BY <2>2
    <3>2. IsFiniteSet({owner}) /\ Cardinality({owner}) = 1 /\ s \notin {owner}
      BY <3>1, FS_Singleton
    <3>3. IsFiniteSet({owner} \cup {s}) /\ Cardinality({owner} \cup {s}) = 1 + 1
      BY <3>2, FS_AddElement
    <3>. QED
      BY <2>2, <3>1, <3>3
  <2>. QED
    BY <2>1, <2>2
<1>5. IsFiniteSet({}) /\ Cardinality({}) = 0
  BY FS_EmptySet
<1>. HIDE DEF acct, n
<1>6. Sound(acct)
  BY <1>1, <1>3, <1>4, <1>5 DEF Sound, SignersSound
<1>. QED
  BY <1>6 DEF acct

LEMMA AddOwnerSound ==
  ASSUME NEW acct, Sound(acct), NEW o \in Owners, CanAddOwner(acct, o)
  PROVE  Sound(AddOwner(acct, o))
<1>. DEFINE new == AddOwner(acct, o)
            left == acct.owners \cup {o}
<1>1. /\ acct \in Account /\ IsFiniteSet(acct.owners) /\ IsFiniteSet(acct.registered)
      /\ acct.keys = acct.registered
      /\ acct.ownerCount = Cardinality(acct.owners) /\ acct.ownerCount \in Nat
      /\ acct.count = Cardinality(acct.registered) /\ acct.count \in Nat
  BY DEF Sound, SignersSound, Account
<1>2. /\ IsFiniteSet(left) /\ Cardinality(left) = acct.ownerCount + 1
      /\ Cardinality(left) \in Nat
  BY <1>1, FS_AddElement, FS_CardinalityType DEF CanAddOwner
<1>3. left \cup acct.registered # {}
  OBVIOUS
<1>4. left \subseteq Owners
  BY <1>1 DEF Account
<1>. HIDE DEF left
<1>5. acct.ownerCount + 1 \in Nat
  BY <1>2
<1>6. /\ new.owners = left /\ new.registered = acct.registered /\ new.keys = acct.keys
      /\ new.ownerCount = acct.ownerCount + 1 /\ new.count = acct.count
  BY <1>1 DEF Account, AddOwner, left
<1>7. new \in Account
  BY <1>1, <1>4, <1>5 DEF Account, AddOwner, left
<1>. QED
  BY <1>1, <1>2, <1>3, <1>6, <1>7 DEF Sound, SignersSound

LEMMA RemoveOwnerSound ==
  ASSUME NEW acct, Sound(acct), NEW o \in Owners, CanRemoveOwner(acct, o)
  PROVE  Sound(RemoveOwner(acct, o))
<1>. DEFINE new == RemoveOwner(acct, o)
            left == acct.owners \ {o}
<1>1. /\ acct \in Account /\ IsFiniteSet(acct.owners) /\ IsFiniteSet(acct.registered)
      /\ acct.keys = acct.registered
      /\ acct.ownerCount = Cardinality(acct.owners) /\ acct.ownerCount \in Nat
      /\ acct.count = Cardinality(acct.registered) /\ acct.count \in Nat
  BY DEF Sound, SignersSound, Account
<1>2. /\ IsFiniteSet(left) /\ Cardinality(left) = acct.ownerCount - 1
      /\ Cardinality(left) \in Nat
  BY <1>1, FS_RemoveElement, FS_CardinalityType DEF CanRemoveOwner
<1>3. left \cup acct.registered # {}
  <2>1. CASE acct.count = 0
    BY <1>1, <1>2, <2>1, FS_EmptySet DEF CanRemoveOwner
  <2>2. CASE acct.count # 0
    BY <1>1, <2>2, FS_EmptySet
  <2>. QED
    BY <2>1, <2>2
<1>4. left \subseteq Owners
  BY <1>1 DEF Account
<1>. HIDE DEF left
<1>5. acct.ownerCount - 1 \in Nat
  BY <1>2
<1>6. /\ new.owners = left /\ new.registered = acct.registered /\ new.keys = acct.keys
      /\ new.ownerCount = acct.ownerCount - 1 /\ new.count = acct.count
  BY <1>1 DEF Account, RemoveOwner, left
<1>7. new \in Account
  BY <1>1, <1>4, <1>5 DEF Account, RemoveOwner, left
<1>. QED
  BY <1>1, <1>2, <1>3, <1>6, <1>7 DEF Sound, SignersSound

LEMMA AddPasskeySound ==
  ASSUME NEW acct, Sound(acct), NEW k \in Passkeys, CanAddPasskey(acct, k)
  PROVE  Sound(AddPasskey(acct, k))
<1>. DEFINE new == AddPasskey(acct, k)
            left == acct.registered \cup {k}
<1>1. /\ acct \in Account /\ IsFiniteSet(acct.owners) /\ IsFiniteSet(acct.registered)
      /\ acct.keys = acct.registered
      /\ acct.ownerCount = Cardinality(acct.owners) /\ acct.ownerCount \in Nat
      /\ acct.count = Cardinality(acct.registered) /\ acct.count \in Nat
  BY DEF Sound, SignersSound, Account
<1>2. /\ IsFiniteSet(left) /\ Cardinality(left) = acct.count + 1
      /\ Cardinality(left) \in Nat
  BY <1>1, FS_AddElement, FS_CardinalityType DEF CanAddPasskey
<1>3. left \cup acct.owners # {}
  OBVIOUS
<1>4. left \subseteq Passkeys
  BY <1>1 DEF Account
<1>. HIDE DEF left
<1>5. acct.count + 1 \in Nat
  BY <1>2
<1>6. /\ new.owners = acct.owners /\ new.registered = left /\ new.keys = left
      /\ new.ownerCount = acct.ownerCount /\ new.count = acct.count + 1
  BY <1>1 DEF Account, AddPasskey, left
<1>7. new \in Account
  BY <1>1, <1>4, <1>5 DEF Account, AddPasskey, left
<1>. QED
  BY <1>1, <1>2, <1>3, <1>6, <1>7 DEF Sound, SignersSound

LEMMA RemovePasskeySound ==
  ASSUME NEW acct, Sound(acct), NEW k \in Passkeys, CanRemovePasskey(acct, k)
  PROVE  Sound(RemovePasskey(acct, k))
<1>. DEFINE new == RemovePasskey(acct, k)
            left == acct.registered \ {k}
<1>1. /\ acct \in Account /\ IsFiniteSet(acct.owners) /\ IsFiniteSet(acct.registered)
      /\ acct.keys = acct.registered
      /\ acct.ownerCount = Cardinality(acct.owners) /\ acct.ownerCount \in Nat
      /\ acct.count = Cardinality(acct.registered) /\ acct.count \in Nat
  BY DEF Sound, SignersSound, Account
<1>2. /\ IsFiniteSet(left) /\ Cardinality(left) = acct.count - 1
      /\ Cardinality(left) \in Nat
  BY <1>1, FS_RemoveElement, FS_CardinalityType DEF CanRemovePasskey
<1>3. left \cup acct.owners # {}
  <2>1. CASE acct.ownerCount = 0
    BY <1>1, <1>2, <2>1, FS_EmptySet DEF CanRemovePasskey
  <2>2. CASE acct.ownerCount # 0
    BY <1>1, <2>2, FS_EmptySet
  <2>. QED
    BY <2>1, <2>2
<1>4. left \subseteq Passkeys
  BY <1>1 DEF Account
<1>. HIDE DEF left
<1>5. acct.count - 1 \in Nat
  BY <1>2
<1>6. /\ new.owners = acct.owners /\ new.registered = left /\ new.keys = left
      /\ new.ownerCount = acct.ownerCount /\ new.count = acct.count - 1
  BY <1>1 DEF Account, RemovePasskey, left
<1>7. new \in Account
  BY <1>1, <1>4, <1>5 DEF Account, RemovePasskey, left
<1>. QED
  BY <1>1, <1>2, <1>3, <1>6, <1>7 DEF Sound, SignersSound

\* A call the account makes to itself, when it does not revert.
LEMMA AfterSound ==
  ASSUME NEW acct, Sound(acct), NEW call \in SelfCall, Allows(acct, call)
  PROVE  Sound(After(acct, call))
<1>1. \/ call.op = "addOwner" /\ call.arg \in Owners
      \/ call.op = "removeOwner" /\ call.arg \in Owners
      \/ call.op = "addPasskey" /\ call.arg \in Passkeys
      \/ call.op = "removePasskey" /\ call.arg \in Passkeys
  BY DEF SelfCall
<1>. QED
  BY <1>1, AddOwnerSound, RemoveOwnerSound, AddPasskeySound, RemovePasskeySound
  DEF Allows, After

\* initialize and the four operations keep the counters right and a signer in
\* place, whichever the account makes, and whether or not one of them reverts.
LEMMA ExecutedSound ==
  ASSUME NEW acct, Sound(acct), NEW call \in Calls
  PROVE  Sound(Executed(acct, call))
  BY AfterSound, DelegationAssumption DEF Executed

-----------------------------------------------------------------------------
(* The steps.                                                               *)

\* The invariant in the three parts the steps disturb separately.
AccountsInv ==
  /\ accounts \in [Accounts -> Account \cup {NoAccount}]
  /\ \A a \in Accounts : Deployed(a) => Sound(accounts[a])

Parts ==
  /\ TypeOK
  /\ AccountsInv
  /\ \A i \in Intents : PendingInv(i)
  /\ StoreInv(store, now)
  /\ tx # NoTx => TxInv /\ PathInv

LEMMA PartsInv == Parts => IInv
<1>1. ASSUME TypeOK, NEW a \in Accounts, Deployed(a)
      PROVE  accounts[a] \in Account
  BY <1>1 DEF TypeOK, Deployed
<1>. QED
  BY <1>1 DEF Parts, IInv, AccountsInv, AccountsSound, Sound, TypeOK

LEMMA PutSound ==
  ASSUME AccountsInv, NEW a \in Accounts, NEW new, Sound(new),
         accounts' = [accounts EXCEPT ![a] = new]
  PROVE  AccountsInv'
<1>1. new \in Account
  BY DEF Sound
<1>2. accounts' \in [Accounts -> Account \cup {NoAccount}]
  BY <1>1 DEF AccountsInv
<1>3. ASSUME NEW b \in Accounts, accounts'[b] # NoAccount
      PROVE  Sound(accounts'[b])
  <2>1. CASE b = a
    BY <2>1 DEF AccountsInv
  <2>2. CASE b # a
    BY <1>3, <2>2 DEF AccountsInv, Deployed
  <2>. QED
    BY <2>1, <2>2
<1>. QED
  BY <1>2, <1>3 DEF AccountsInv, Deployed

LEMMA DeployAccounts ==
  ASSUME AccountsInv, NEW a \in Accounts, NEW o \in Owners, NEW linked \in BOOLEAN,
         NEW server \in { NoServer } \cup { {s} : s \in Owners },
         Deploy(a, o, server, linked)
  PROVE  AccountsInv'
  BY InitializedSound, PutSound DEF Deploy

LEMMA HandleOpsAccounts ==
  ASSUME AccountsInv, NEW a \in Accounts, NEW c1 \in Calls, NEW c2 \in Calls,
         HandleOps(a, c1, c2)
  PROVE  AccountsInv'
<1>1. Sound(accounts[a])
  BY DEF AccountsInv, HandleOps, HasSigner
<1>2. Sound(Executed(Executed(accounts[a], c1), c2))
  BY <1>1, ExecutedSound
<1>. QED
  BY <1>2, PutSound DEF HandleOps

LEMMA LinkAccounts ==
  ASSUME AccountsInv, NEW a \in Accounts, NEW linked \in BOOLEAN, LinkManager(a, linked)
  PROVE  AccountsInv'
<1>1. Sound(accounts[a])
  BY DEF AccountsInv, LinkManager, HasSigner
<1>2. Sound(SetDelegationManager(accounts[a], linked))
  BY <1>1 DEF Sound, SignersSound, Account, SetDelegationManager
<1>. QED
  BY <1>2, PutSound DEF LinkManager

\* A redemption changes at most the root delegator's account, by a call that
\* account allows.
-----------------------------------------------------------------------------
(* The windows of a rate limit.                                             *)

\* What beforeHook leaves in a bucket.
LEMMA CountedFields ==
  ASSUME now \in Nat, NEW bucket \in Bucket, NEW terms \in RateTerms
  PROVE  /\ Counted(bucket, terms) \in Bucket
         /\ Counted(bucket, terms).start = Rolled(bucket, terms).start
         /\ Counted(bucket, terms).calls = Rolled(bucket, terms).calls + 1
         /\ Counted(bucket, terms).times = Append(bucket.times, now)
         /\ Counted(bucket, terms).limits = bucket.limits \cup {terms}
<1>. DEFINE b == Rolled(bucket, terms)
<1>1. b \in Bucket /\ b.times = bucket.times /\ b.limits = bucket.limits
  BY DEF Rolled, Bucket
<1>2. /\ b.calls + 1 \in Nat /\ Append(b.times, now) \in Seq(Nat)
      /\ b.limits \cup {terms} \in SUBSET RateTerms
  <2>1. b.calls \in Nat /\ b.times \in Seq(Nat) /\ b.limits \in SUBSET RateTerms
    BY <1>1 DEF Bucket
  <2>. QED
    BY <2>1, AppendProperties
<1>4. Counted(bucket, terms) = [b EXCEPT !.calls = b.calls + 1,
                                         !.times = Append(b.times, now),
                                         !.limits = b.limits \cup {terms}]
  BY DEF Counted
<1>. DEFINE x == b.calls + 1
            y == Append(b.times, now)
            z == b.limits \cup {terms}
            d == Counted(bucket, terms)
<1>5. /\ b \in Bucket /\ x \in Nat /\ y \in Seq(Nat) /\ z \in SUBSET RateTerms
      /\ d = [b EXCEPT !.calls = x, !.times = y, !.limits = z]
  BY <1>1, <1>2, <1>4
<1>6. d \in Bucket /\ d.start = b.start /\ d.calls = x /\ d.times = y /\ d.limits = z
  <2>. HIDE DEF b, x, y, z, d
  <2>. QED
    BY <1>5 DEF Bucket
<1>. QED
  BY <1>1, <1>6

\* One more call, with the bucket as beforeHook leaves it: either it belongs to
\* the window that is open, or that window is over and it opens the next.
LEMMA CallAdvancesWindows ==
  ASSUME now \in Nat \ {0}, NEW bucket \in Bucket, NEW terms \in RateTerms,
         BucketInv(bucket, now), bucket.times # << >> => OnlyUnder(bucket, terms),
         RateAllows(bucket, terms)
  PROVE  LET after == Counted(bucket, terms) IN
         /\ after.start # 0
         /\ after.calls \in 1 .. terms.max
         /\ after.calls <= Len(after.times)
         /\ \E W \in SUBSET DOMAIN after.times : WindowsOpened(after, terms, W)
<1>. DEFINE u == bucket.times
            d == Counted(bucket, terms)
            v == d.times
            n == Len(u)
            b == bucket
            last == n + 1 - b.calls
<1>. SUFFICES /\ d.start # 0 /\ d.calls \in 1 .. terms.max /\ d.calls <= Len(v)
              /\ \E W \in SUBSET DOMAIN v : WindowsOpened(d, terms, W)
  OBVIOUS
<1>1. now \in Nat /\ now > 0 /\ terms.max \in Nat /\ terms.window \in Nat /\ terms.max > 0
  BY DEF RateTerms, RateAllows
<1>2. b.start \in Nat /\ b.calls \in Nat
  BY DEF Bucket
<1>3. u \in Seq(Nat) /\ n \in Nat /\ DOMAIN u = 1 .. n
  BY DEF Bucket
<1>3x. /\ v = Append(u, now)
      /\ d.start = Rolled(b, terms).start /\ d.calls = Rolled(b, terms).calls + 1
  BY CountedFields
<1>4. \A k \in 1 .. n : u[k] \in Nat
  BY <1>3
<1>5. /\ v = Append(u, now) /\ Len(v) = n + 1 /\ DOMAIN v = 1 .. n + 1
      /\ v[n + 1] = now /\ \A k \in 1 .. n : v[k] = u[k]
  BY <1>1, <1>3, <1>3x, AppendProperties
<1>6. \A j, k \in 1 .. n : j <= k => u[j] <= u[k]
  BY <1>3 DEF BucketInv
<1>7. /\ n = 0 <=> b.start = 0
      /\ n # 0 => /\ b.calls \in 1 .. terms.max /\ b.calls <= n
                  /\ \E W \in SUBSET (1 .. n) : WindowsOpened(b, terms, W)
  <2>1. u = << >> <=> n = 0
    BY <1>3
  <2>2. n # 0 => terms \in b.limits /\ OnlyUnder(b, terms)
    BY <2>1 DEF OnlyUnder
  <2>. QED
    BY <1>3, <2>1, <2>2 DEF BucketInv
<1>8. d.start = Rolled(b, terms).start /\ d.calls = Rolled(b, terms).calls + 1
  BY <1>3x
<1>. HIDE DEF u, v, n, b, d
<1>9. ASSUME n = 0 \/ now >= b.start + terms.window
      PROVE  /\ d.start = now /\ d.calls = 1
             /\ \E W \in SUBSET (1 .. n + 1) :
                  /\ 1 \in W /\ n + 1 \in W
                  /\ \A i, j \in W : i < j => v[j] >= v[i] + terms.window
                  /\ \A k \in 1 .. n + 1 : k + terms.max <= n + 1 =>
                       \E j \in W : k < j /\ j <= k + terms.max
  <2>1. d.start = now /\ d.calls = 1
    BY <1>1, <1>2, <1>7, <1>8, <1>9 DEF Rolled
  <2>2. CASE n = 0
    <3>. DEFINE X == {1}
    <3>1. /\ X \in SUBSET (1 .. n + 1) /\ 1 \in X /\ n + 1 \in X
          /\ \A i, j \in X : ~(i < j)
      BY <2>2
    <3>2. \A k \in 1 .. n + 1 : ~(k + terms.max <= n + 1)
      BY <1>1, <2>2
    <3>. HIDE DEF X
    <3>. QED
      BY <2>1, <3>1, <3>2
  <2>3. CASE n # 0
    <3>1. PICK W \in SUBSET (1 .. n) : WindowsOpened(b, terms, W)
      BY <1>7, <2>3
    <3>2. /\ 1 \in W /\ last \in W /\ u[last] = b.start
          /\ \A j \in W : j <= last
          /\ \A i, j \in W : i < j => u[j] >= u[i] + terms.window
          /\ \A k \in 1 .. n : k + terms.max <= n =>
               \E j \in W : k < j /\ j <= k + terms.max
      BY <1>3, <3>1 DEF WindowsOpened, u, n, b
    <3>3. now >= b.start + terms.window
      BY <1>9, <2>3
    <3>4. ASSUME NEW i \in W
          PROVE  v[n + 1] >= v[i] + terms.window
      <4>1. i \in 1 .. n /\ last \in 1 .. n /\ i <= last
        BY <3>2
      <4>2. u[i] <= b.start /\ u[i] \in Nat
        BY <1>4, <1>6, <3>2, <4>1
      <4>3. v[i] = u[i] /\ v[n + 1] = now
        BY <1>5, <4>1
      <4>. QED
        BY <1>1, <1>2, <3>3, <4>2, <4>3
    <3>. DEFINE X == W \cup {n + 1}
    <3>5. \A i, j \in X : i < j => v[j] >= v[i] + terms.window
      <4>. TAKE i, j \in X
      <4>. HAVE i < j
      <4>1. i \in W
        BY <1>3
      <4>2. CASE j \in W
        BY <1>5, <3>2, <4>1, <4>2
      <4>3. CASE j = n + 1
        BY <3>4, <4>1, <4>3
      <4>. QED
        BY <4>2, <4>3
    <3>6. \A k \in 1 .. n + 1 : k + terms.max <= n + 1 =>
            \E j \in X : k < j /\ j <= k + terms.max
      <4>. TAKE k \in 1 .. n + 1
      <4>. HAVE k + terms.max <= n + 1
      <4>1. CASE k + terms.max <= n
        <5>1. k \in 1 .. n
          BY <1>1, <1>3, <4>1
        <5>2. PICK j \in W : k < j /\ j <= k + terms.max
          BY <3>2, <4>1, <5>1
        <5>. QED
          BY <5>2
      <4>2. CASE k + terms.max = n + 1
        BY <1>1, <1>3, <4>2
      <4>. QED
        BY <1>1, <1>3, <4>1, <4>2
    <3>7. X \in SUBSET (1 .. n + 1) /\ 1 \in X /\ n + 1 \in X
      BY <1>3, <3>2
    <3>. HIDE DEF X
    <3>. QED
      BY <2>1, <3>5, <3>6, <3>7
  <2>. QED
    BY <2>2, <2>3
<1>10. CASE n = 0 \/ now >= b.start + terms.window
  <2>1. PICK W \in SUBSET (1 .. n + 1) :
          /\ 1 \in W /\ n + 1 \in W
          /\ \A i, j \in W : i < j => v[j] >= v[i] + terms.window
          /\ \A k \in 1 .. n + 1 : k + terms.max <= n + 1 =>
               \E j \in W : k < j /\ j <= k + terms.max
    BY <1>9, <1>10
  <2>2. d.start = now /\ d.calls = 1
    BY <1>9, <1>10
  <2>3. WindowsOpened(d, terms, W)
    <3>1. (n + 1) + 1 - d.calls = n + 1 /\ \A j \in W : j <= n + 1
      BY <1>3, <2>2
    <3>. QED
      BY <1>5, <2>1, <2>2, <3>1 DEF WindowsOpened, v
  <2>4. W \in SUBSET DOMAIN v
    BY <1>5
  <2>5. d.start # 0 /\ d.calls \in 1 .. terms.max /\ d.calls <= Len(v)
    BY <1>1, <1>3, <1>5, <2>2
  <2>. QED
    BY <2>3, <2>4, <2>5
<1>11. CASE n # 0 /\ now < b.start + terms.window
  <2>1. PICK W \in SUBSET (1 .. n) : WindowsOpened(b, terms, W)
    BY <1>7, <1>11
  <2>2. /\ 1 \in W /\ last \in W /\ u[last] = b.start
        /\ \A j \in W : j <= last
        /\ \A i, j \in W : i < j => u[j] >= u[i] + terms.window
        /\ \A k \in 1 .. n : k + terms.max <= n =>
             \E j \in W : k < j /\ j <= k + terms.max
    BY <1>3, <2>1 DEF WindowsOpened, u, n, b
  <2>3. d.start = b.start /\ d.calls = b.calls + 1 /\ d.calls <= terms.max
    <3>1. Rolled(b, terms) = b
      BY <1>1, <1>2, <1>7, <1>11 DEF Rolled
    <3>2. Rolled(b, terms).calls + 1 <= terms.max
      BY DEF b, RateAllows
    <3>. QED
      BY <1>8, <3>1, <3>2
  <2>4. (n + 1) + 1 - d.calls = last
    <3>1. n \in Nat
      BY <1>3
    <3>. QED
      BY <1>2, <2>3, <3>1
  <2>5. \A k \in 1 .. n + 1 : k + terms.max <= n + 1 =>
          \E j \in W : k < j /\ j <= k + terms.max
    <3>. TAKE k \in 1 .. n + 1
    <3>. HAVE k + terms.max <= n + 1
    <3>1. CASE k + terms.max <= n
      <4>1. k \in 1 .. n
        BY <1>1, <1>3, <3>1
      <4>. QED
        BY <2>2, <3>1, <4>1
    <3>2. CASE k + terms.max = n + 1
      <4>1. k < last /\ last <= k + terms.max
        BY <1>1, <1>2, <1>3, <1>7, <1>11, <2>3, <3>2, SMTT(30)
      <4>. QED
        BY <2>2, <4>1
    <3>3. k + terms.max <= n \/ k + terms.max = n + 1
      <4>1. n \in Nat /\ k \in Nat
        BY <1>3
      <4>. QED
        BY <1>1, <4>1
    <3>. QED
      BY <3>1, <3>2, <3>3
  <2>6. WindowsOpened(d, terms, W)
    <3>1. /\ v[last] = d.start
          /\ \A i, j \in W : i < j => v[j] >= v[i] + terms.window
      BY <1>5, <2>2, <2>3
    <3>. HIDE DEF last
    <3>. QED
      BY <1>5, <2>2, <2>4, <2>5, <3>1 DEF WindowsOpened, v
  <2>7. W \in SUBSET DOMAIN v
    <3>1. W \in SUBSET (1 .. n + 1)
      BY <1>3
    <3>. QED
      BY <1>5, <3>1
  <2>8. d.start # 0
    BY <1>2, <1>7, <1>11, <2>3
  <2>9. d.calls \in 1 .. terms.max /\ d.calls <= Len(v)
    BY <1>1, <1>2, <1>3, <1>5, <1>7, <1>11, <2>3
  <2>. QED
    BY <2>6, <2>7, <2>8, <2>9
<1>. QED
  BY <1>1, <1>2, <1>3, <1>10, <1>11

\* A call that beforeHook admits keeps what is known of its bucket.
LEMMA CountedInv ==
  ASSUME now \in Nat \ {0}, NEW bucket \in Bucket, NEW terms \in RateTerms,
         BucketInv(bucket, now), RateAllows(bucket, terms)
  PROVE  BucketInv(Counted(bucket, terms), now)
<1>. DEFINE after == Counted(bucket, terms)
            u == bucket.times
            v == after.times
            n == Len(u)
<1>1. /\ after \in Bucket /\ after.times = Append(u, now)
      /\ after.limits = bucket.limits \cup {terms}
      /\ after.start = Rolled(bucket, terms).start
  BY CountedFields
<1>2. u \in Seq(Nat) /\ bucket.start \in Nat
  BY DEF Bucket
<1>3. /\ DOMAIN u = 1 .. n /\ DOMAIN v = 1 .. n + 1 /\ n \in Nat
      /\ v[n + 1] = now /\ \A k \in 1 .. n : v[k] = u[k]
      /\ v # << >>
  <2>1. /\ DOMAIN u = 1 .. n /\ n \in Nat /\ v \in Seq(Nat) /\ Len(v) = n + 1
        /\ v[n + 1] = now /\ \A k \in 1 .. n : v[k] = u[k]
    BY <1>1, <1>2, AppendProperties
  <2>2. DOMAIN v = 1 .. n + 1 /\ v # << >>
    BY <2>1
  <2>. QED
    BY <2>1, <2>2
<1>4. /\ \A k \in 1 .. n : 0 < u[k] /\ u[k] <= now
      /\ \A j, k \in 1 .. n : j <= k => u[j] <= u[k]
  BY <1>3 DEF BucketInv
<1>5. after.limits # {}
  BY <1>1
<1>6. ASSUME NEW t \in after.limits, OnlyUnder(after, t)
      PROVE  t = terms /\ (bucket.times # << >> => OnlyUnder(bucket, terms))
  BY <1>1, <1>6 DEF OnlyUnder, BucketInv
<1>7. /\ after.start # 0
      /\ \A t \in after.limits : OnlyUnder(after, t) =>
           /\ after.calls \in 1 .. t.max
           /\ after.calls <= Len(v)
           /\ \E W \in SUBSET DOMAIN v : WindowsOpened(after, t, W)
  <2>1. after.start # 0
    BY <1>1, <1>2 DEF Rolled
  <2>. QED
    BY <1>6, <2>1, CallAdvancesWindows
<1>. HIDE DEF u, v, n, after
<1>8. \A k \in 1 .. n + 1 : k \in 1 .. n \/ k = n + 1
  BY <1>3
<1>9. \A k \in 1 .. n + 1 : 0 < v[k] /\ v[k] <= now
  BY <1>3, <1>4, <1>8
<1>10. \A j, k \in 1 .. n + 1 : j <= k => v[j] <= v[k]
  <2>. TAKE j, k \in 1 .. n + 1
  <2>. HAVE j <= k
  <2>1. CASE k = n + 1
    BY <1>3, <1>9, <2>1
  <2>2. CASE k # n + 1
    BY <1>3, <1>4, <1>8, <2>2
  <2>. QED
    BY <2>1, <2>2
<1>. QED
  BY <1>3, <1>5, <1>7, <1>9, <1>10 DEF BucketInv, v, after

\* What the windows say of a bucket's calls under one limit alone: any
\* 2 * maxCalls in a row take a window.
LEMMA CallsSpread ==
  ASSUME NEW t \in Nat, NEW bucket \in Bucket, BucketInv(bucket, t),
         NEW terms \in RateTerms, OnlyUnder(bucket, terms),
         NEW k \in DOMAIN bucket.times, NEW l \in DOMAIN bucket.times,
         l >= k + 2 * terms.max - 1
  PROVE  bucket.times[l] >= bucket.times[k] + terms.window
<1>. DEFINE u == bucket.times
            n == Len(u)
            max == terms.max
<1>1. u \in Seq(Nat) /\ n \in Nat /\ DOMAIN u = 1 .. n /\ \A i \in 1 .. n : u[i] \in Nat
  BY DEF Bucket
<1>2. max \in Nat /\ terms.window \in Nat /\ terms \in bucket.limits
  BY DEF RateTerms, OnlyUnder
<1>3. u # << >>
  BY <1>1
<1>4. /\ max > 0
      /\ \E W \in SUBSET DOMAIN u : WindowsOpened(bucket, terms, W)
      /\ \A i, j \in 1 .. n : i <= j => u[i] <= u[j]
  <2>1. bucket.calls \in 1 .. max
    BY <1>2, <1>3 DEF BucketInv
  <2>2. max > 0
    BY <1>2, <2>1
  <2>. QED
    BY <1>1, <1>2, <1>3, <2>2 DEF BucketInv
<1>5. PICK W \in SUBSET (1 .. n) : WindowsOpened(bucket, terms, W)
  BY <1>1, <1>4
<1>6. /\ 1 \in W
      /\ \A i, j \in W : i < j => u[j] >= u[i] + terms.window
      /\ \A i \in 1 .. n : i + max <= n => \E j \in W : i < j /\ j <= i + max
  BY <1>1, <1>5 DEF WindowsOpened
<1>7. k \in 1 .. n /\ l \in 1 .. n /\ k + 2 * max - 1 <= l
  BY <1>1
<1>. HIDE DEF u, n, max
<1>8x. /\ k \in Nat /\ l \in Nat /\ n \in Nat /\ 1 <= k /\ l <= n
      /\ k + 2 * max - 1 <= l /\ max > 0
  BY <1>1, <1>4, <1>7
\* Two windows opened after the k-th use at the latest and up to the l-th.
<1>8. \E i, j \in W : k <= i /\ i < j /\ j <= l
  <2>1. \E i \in W : k <= i /\ i <= k + max - 1
    <3>1. CASE k = 1
      BY <1>2, <1>4, <1>6, <3>1
    <3>2. CASE k # 1
      <4>1. k - 1 \in 1 .. n /\ (k - 1) + max <= n
        <5>1. 1 <= k - 1 /\ k - 1 <= n /\ k - 1 \in Int /\ (k - 1) + max <= n
          BY <1>2, <1>8x, <3>2
        <5>. QED
          BY <1>1, <5>1
      <4>2. PICK i \in W : k - 1 < i /\ i <= (k - 1) + max
        BY <1>6, <4>1
      <4>3. i \in Int
        BY <1>1
      <4>4. k <= i /\ i <= k + max - 1
        BY <1>2, <1>8x, <4>2, <4>3
      <4>. QED
        BY <4>4
    <3>. QED
      BY <3>1, <3>2
  <2>2. PICK i \in W : k <= i /\ i <= k + max - 1
    BY <2>1
  <2>3. i \in 1 .. n /\ i + max <= l /\ i + max <= n
    BY <1>1, <1>2, <1>7, <2>2
  <2>4. PICK j \in W : i < j /\ j <= i + max
    BY <1>6, <2>3
  <2>. QED
    BY <1>1, <1>2, <1>7, <2>2, <2>3, <2>4
<1>9. PICK i, j \in W : k <= i /\ i < j /\ j <= l
  BY <1>8
<1>10. u[k] <= u[i] /\ u[i] + terms.window <= u[j] /\ u[j] <= u[l]
  BY <1>1, <1>4, <1>6, <1>7, <1>9
<1>11. u[k] \in Nat /\ u[i] \in Nat /\ u[j] \in Nat /\ u[l] \in Nat
  BY <1>1, <1>7, <1>9
<1>12. u[l] >= u[k] + terms.window
  BY <1>2, <1>10, <1>11
<1>. QED
  BY <1>12 DEF u

\* A set of naturals has a least element.
LEMMA LeastElement ==
  ASSUME NEW S, S \subseteq Nat, S # {}
  PROVE  \E m \in S : \A k \in S : m <= k
<1>. DEFINE Less == { p \in Nat \X Nat : p[1] < p[2] }
<1>1. OpToRel(<, Nat) = Less
  BY DEF OpToRel
<1>2. IsWellFoundedOn(Less, Nat)
  BY <1>1, NatLessThanWellFounded
<1>3. \A k, m \in Nat : k < m => << k, m >> \in Less
  <2>. TAKE k, m \in Nat
  <2>. DEFINE p == << k, m >>
  <2>1. p \in Nat \X Nat /\ p[1] = k /\ p[2] = m
    OBVIOUS
  <2>. QED
    BY <2>1
<1>. HIDE DEF Less
<1>4. PICK m \in S : \A k \in S : ~(<< k, m >> \in Less)
  BY <1>2, WFMin
<1>5. ASSUME NEW k \in S PROVE m <= k
  <2>1. m \in Nat /\ k \in Nat /\ << k, m >> \notin Less
    BY <1>4
  <2>2. ~(k < m)
    BY <1>3, <2>1
  <2>. QED
    BY <2>1, <2>2
<1>. QED
  BY <1>5

\* So the calls within a window's length are fewer, wherever it begins.
LEMMA BurstBounded ==
  ASSUME NEW now0 \in Nat, NEW bucket \in Bucket, BucketInv(bucket, now0),
         NEW terms \in RateTerms, OnlyUnder(bucket, terms), NEW t \in Nat
  PROVE  CallsWithin(bucket, t, terms.window) < 2 * terms.max
<1>. DEFINE u == bucket.times
            n == Len(u)
            S == { k \in DOMAIN u : t <= u[k] /\ u[k] < t + terms.window }
<1>1. u \in Seq(Nat) /\ n \in Nat /\ DOMAIN u = 1 .. n /\ \A i \in 1 .. n : u[i] \in Nat
  BY DEF Bucket
<1>2. terms.max \in Nat /\ terms.window \in Nat /\ terms \in bucket.limits
  BY DEF RateTerms, OnlyUnder
<1>3. terms.max > 0
  <2>1. bucket.calls \in 1 .. terms.max
    <3>1. bucket.limits # {}
      BY <1>2
    <3>. QED
      BY <1>2, <3>1 DEF BucketInv
  <2>. QED
    BY <1>2, <2>1
<1>4. \A k, l \in S : l < k + 2 * terms.max - 1
  <2>. TAKE k, l \in S
  <2>1. k \in 1 .. n /\ l \in 1 .. n
    BY <1>1
  <2>2. l >= k + 2 * terms.max - 1 => u[l] >= u[k] + terms.window
    BY CallsSpread
  <2>3. u[l] < t + terms.window /\ t <= u[k] /\ u[k] \in Nat /\ u[l] \in Nat
    BY <1>1
  <2>4. ~(u[l] >= u[k] + terms.window)
    BY <1>2, <2>3
  <2>. QED
    BY <1>1, <1>2, <2>1, <2>2, <2>4
<1>. S \subseteq 1 .. n
  BY <1>1
<1>5. CallsWithin(bucket, t, terms.window) = Cardinality(S)
  BY DEF CallsWithin
<1>. HIDE DEF S, u, n
<1>6. CASE S = {}
  BY <1>2, <1>3, <1>5, <1>6, FS_EmptySet
<1>7. CASE S # {}
  <2>1. PICK m \in S : \A k \in S : m <= k
    <3>1. S # {} /\ S \subseteq Nat
      BY <1>1, <1>7
    <3>. QED
      BY <3>1, LeastElement
  <2>2. S \subseteq m .. m + 2 * terms.max - 2
    BY <1>1, <1>2, <1>4, <2>1, SMTT(30)
  <2>3. m \in Nat /\ m + 2 * terms.max - 2 \in Nat
    BY <1>1, <1>2, <1>3, <2>1
  <2>4. /\ IsFiniteSet(m .. m + 2 * terms.max - 2)
        /\ Cardinality(m .. m + 2 * terms.max - 2) = 2 * terms.max - 1
    <3>. DEFINE top == m + 2 * terms.max - 2
    <3>1. m \in Int /\ top \in Int /\ m <= top /\ top - m + 1 = 2 * terms.max - 1
      BY <1>2, <1>3, <2>3
    <3>. HIDE DEF top
    <3>2. /\ IsFiniteSet(m .. top)
          /\ Cardinality(m .. top) = IF m > top THEN 0 ELSE top - m + 1
      BY <3>1, FS_Interval, Zenon
    <3>3. ~(m > top)
      BY <3>1
    <3>. QED
      BY <3>1, <3>2, <3>3 DEF top
  <2>5. IsFiniteSet(S) /\ Cardinality(S) <= 2 * terms.max - 1
    <3>. DEFINE R == m .. m + 2 * terms.max - 2
    <3>1. S \in SUBSET R /\ IsFiniteSet(R) /\ Cardinality(R) = 2 * terms.max - 1
      BY <2>2, <2>4
    <3>. HIDE DEF R
    <3>2. IsFiniteSet(S) /\ Cardinality(S) <= Cardinality(R)
      BY <3>1, FS_Subset
    <3>. QED
      BY <3>1, <3>2
  <2>6. Cardinality(S) \in Nat
    BY <2>5, FS_CardinalityType
  <2>. QED
    BY <1>2, <1>5, <2>5, <2>6
<1>. QED
  BY <1>6, <1>7

-----------------------------------------------------------------------------
(* The storage of the enforcers.                                            *)

\* What RateLimitEnforcer's hook leaves in the storage it is given.
LEMMA RateHookStore ==
  ASSUME now \in Nat \ {0}, NEW s \in Store, StoreInv(s, now), NEW h \in Hashes,
         NEW terms \in RateTerms, RateAllows(s.buckets[h][terms.scopeKey], terms),
         NEW after, after = CountedIn(s, h, terms)
  PROVE  /\ after \in Store /\ StoreInv(after, now)
         /\ after.consumed = s.consumed /\ after.recoveries = s.recoveries
<1>. USE DEF CountedIn
<1>. DEFINE b == s.buckets
            key == terms.scopeKey
            new == Counted(b[h][key], terms)
            c == [b EXCEPT ![h][key] = new]
<1>1. /\ b \in [Hashes -> [ScopeKeys -> Bucket]] /\ s.consumed \subseteq Intents
      /\ s.recoveries \in [Intents -> Seq(Recovery)] /\ key \in ScopeKeys
  BY DEF Store, RateTerms
<1>2. b[h][key] \in Bucket /\ BucketInv(b[h][key], now)
  BY <1>1 DEF StoreInv
<1>3. new \in Bucket /\ BucketInv(new, now)
  BY <1>2, CountedFields, CountedInv
<1>4. /\ after.buckets = c
      /\ after.consumed = s.consumed /\ after.recoveries = s.recoveries
      /\ after = [s EXCEPT !.buckets = c]
  BY DEF Store
<1>. HIDE DEF new
<1>5. /\ c \in [Hashes -> [ScopeKeys -> Bucket]]
      /\ \A g \in Hashes, k \in ScopeKeys :
           c[g][k] = IF g = h /\ k = key THEN new ELSE b[g][k]
  BY <1>1, <1>3
<1>. HIDE DEF c
<1>6. after \in Store
  BY <1>4, <1>5 DEF Store
<1>7. \A g \in Hashes, k \in ScopeKeys : BucketInv(c[g][k], now)
  BY <1>3, <1>5 DEF StoreInv
<1>8. \A i \in Intents : RecoveredOnce(after, i)
  BY <1>4 DEF StoreInv, RecoveredOnce
<1>. QED
  BY <1>4, <1>6, <1>7, <1>8 DEF StoreInv

\* What RecoveryEnforcer's hook leaves in it: the intent consumed, and when the
\* hook is a redemption's, one more recovery.
LEMMA RecoveryHookStore ==
  ASSUME NEW t \in Nat, NEW s \in Store, StoreInv(s, t), NEW i \in Intents,
         i \notin s.consumed, NEW r \in Recovery,
         r.first # 0, r.at >= r.first + r.delay, NEW after,
         after = RecoveredIn(s, i, r)
  PROVE  /\ after \in Store /\ StoreInv(after, t)
         /\ after.consumed = s.consumed \cup {i}
         /\ Len(after.recoveries[i]) = Len(s.recoveries[i]) + 1
         /\ \A j \in Intents : j # i => after.recoveries[j] = s.recoveries[j]
<1>. USE DEF RecoveredIn
<1>. DEFINE q == s.recoveries
            p == [q EXCEPT ![i] = Append(@, r)]
<1>1. q \in [Intents -> Seq(Recovery)] /\ s.consumed \subseteq Intents
  BY DEF Store
<1>2. q[i] = << >>
  BY DEF StoreInv, RecoveredOnce
<1>3. /\ after.buckets = s.buckets /\ after.recoveries = p
      /\ after.consumed = s.consumed \cup {i}
      /\ after = [s EXCEPT !.consumed = s.consumed \cup {i}, !.recoveries = p]
  BY DEF Store
<1>4. p \in [Intents -> Seq(Recovery)] /\ p[i] = Append(q[i], r)
      /\ \A j \in Intents : j # i => p[j] = q[j]
  BY <1>1, AppendProperties
<1>5. << >> \in Seq(Recovery) /\ Len(<< >>) = 0
  OBVIOUS
<1>6. Len(p[i]) = 1 /\ DOMAIN p[i] = {1} /\ p[i][1] = r /\ Len(q[i]) = 0
  <2>1. p[i] \in Seq(Recovery) /\ Len(p[i]) = 1 /\ p[i][1] = r
    BY <1>2, <1>4, <1>5, AppendProperties
  <2>. QED
    BY <1>2, <1>5, <2>1
<1>. HIDE DEF p, q
<1>7. after \in Store
  BY <1>1, <1>3, <1>4 DEF Store
<1>8. ASSUME NEW j \in Intents PROVE RecoveredOnce(after, j)
  <2>1. CASE j = i
    <3>1. \A k \in DOMAIN p[i] : p[i][k] = r
      BY <1>6
    <3>2. i \in after.consumed /\ after.recoveries[j] = p[i]
      BY <1>3, <2>1
    <3>3. Len(p[i]) <= 1
      BY <1>6
    <3>. QED
      BY <2>1, <3>1, <3>2, <3>3 DEF RecoveredOnce
  <2>2. CASE j # i
    BY <1>3, <1>4, <2>2 DEF StoreInv, RecoveredOnce, q
  <2>. QED
    BY <2>1, <2>2
<1>9. \A h \in Hashes, key \in ScopeKeys : BucketInv(after.buckets[h][key], t)
  BY <1>3 DEF StoreInv
<1>10. Len(p[i]) = Len(q[i]) + 1
  BY <1>6
<1>. QED
  BY <1>3, <1>4, <1>7, <1>8, <1>9, <1>10 DEF StoreInv, q

LEMMA SpentStore ==
  ASSUME NEW t \in Nat, NEW s \in Store, StoreInv(s, t), NEW i \in Intents,
         NEW after, after = ConsumedIn(s, i)
  PROVE  /\ after \in Store /\ StoreInv(after, t)
         /\ after.consumed = s.consumed \cup {i} /\ after.recoveries = s.recoveries
<1>1. /\ after \in Store /\ after.buckets = s.buckets
      /\ after.consumed = s.consumed \cup {i} /\ after.recoveries = s.recoveries
  BY DEF Store, ConsumedIn
<1>. QED
  BY <1>1 DEF StoreInv, RecoveredOnce

\* Time passes.
LEMMA StoreAges ==
  ASSUME NEW t \in Nat, NEW s \in Store, StoreInv(s, t)
  PROVE  StoreInv(s, t + 1)
<1>1. ASSUME NEW h \in Hashes, NEW key \in ScopeKeys
      PROVE  BucketInv(s.buckets[h][key], t + 1)
  <2>1. BucketInv(s.buckets[h][key], t)
    BY DEF StoreInv
  <2>2. \A k \in DOMAIN s.buckets[h][key].times : s.buckets[h][key].times[k] \in Nat
    BY DEF Store, Bucket
  <2>3. \A k \in DOMAIN s.buckets[h][key].times :
          s.buckets[h][key].times[k] <= t => s.buckets[h][key].times[k] <= t + 1
    BY <2>2
  <2>. QED
    BY <2>1, <2>3 DEF BucketInv
<1>. QED
  BY <1>1 DEF StoreInv

-----------------------------------------------------------------------------
(* The steps of a redemption.                                               *)

\* The cardinality GuardedRecovery counts backers with.
LEMMA SameCardinality == \A S : Guarded!Cardinality(S) = Cardinality(S)
  BY DEF Cardinality, Guarded!Cardinality, IsFiniteSet, Guarded!IsFiniteSet

\* The delegation a redemption has reached, and the terms of its next hook.
LEMMA CurrentTerms ==
  ASSUME tx \in Redemptions, tx.at \in DOMAIN tx.chain
  PROVE  /\ Current \in Hashes
         /\ tx.ran < Len(Delegation[Current].caveats) =>
              LET terms == Delegation[Current].caveats[tx.ran + 1] IN
              /\ terms \in RateTerms \cup RecoveryTerms
              /\ terms \in Range(Delegation[Current].caveats)
<1>1. tx.chain \in Seq(Hashes) /\ tx.ran \in Nat
  BY DelegationAssumption DEF Redemptions
<1>2. Current \in Hashes
  BY <1>1 DEF Current
<1>3. Delegation[Current].caveats \in Seq(RateTerms \cup RecoveryTerms)
  BY <1>2, DelegationAssumption DEF DelegationRecord
<1>. DEFINE c == Delegation[Current].caveats
            T == RateTerms \cup RecoveryTerms
<1>. HIDE DEF c, T
<1>4. ASSUME tx.ran < Len(c), c \in Seq(T)
      PROVE  tx.ran + 1 \in DOMAIN c /\ c[tx.ran + 1] \in T
  BY <1>1, <1>4
<1>. QED
  BY <1>2, <1>3, <1>4 DEF Range, c, T

LEMMA Kinds ==
  ASSUME NEW terms \in RateTerms \cup RecoveryTerms
  PROVE  /\ terms.kind = "rate" => terms \in RateTerms
         /\ terms.kind = "recovery" => terms \in RecoveryTerms
  BY DEF RateTerms, RecoveryTerms

LEMMA DelayIsNat ==
  ASSUME NEW terms \in RecoveryTerms
  PROVE  DelayOf(terms) \in Nat
<1>1. terms.delay \in Nat /\ DelayRange \in Nat /\ DelayRange > 0
  BY DelegationAssumption DEF RecoveryTerms
<1>. QED
  BY <1>1 DEF DelayOf

\* What a redemption keeps while its hooks run.
Running == tx \in Redemptions /\ TxInv /\ PathInv

\* Only the redemption's own record changes.
InTx == UNCHANGED << now, accounts, revoked, store, proposedAt, endorsed, firstAt >>

LEMMA PathFrame ==
  ASSUME Running, InTx, tx' \in Redemptions, tx'.chain = tx.chain, tx'.call = tx.call,
         tx'.at \in 1 .. Len(tx.chain) + 1
  PROVE  PathInv'
  BY DEF Running, InTx, PathInv, Deployed

LEMMA TxFrame ==
  ASSUME TxInv, InTx, tx'.store = tx.store
  PROVE  TxInv'
<1>1. \A i, policy : /\ Guarded!Ripe(i, policy)' <=> Guarded!Ripe(i, policy)
                     /\ Guarded!Backed(i, policy)' <=> Guarded!Backed(i, policy)
  BY DEF InTx, Guarded!Ripe, Guarded!Backed
<1>. QED
  BY <1>1 DEF InTx, TxInv

\* One hook more has run.
LEMMA HookRan ==
  ASSUME tx \in Redemptions, NEW after \in Store,
         tx' = [tx EXCEPT !.ran = @ + 1, !.store = after]
  PROVE  /\ tx' \in Redemptions /\ tx'.store = after
         /\ tx'.chain = tx.chain /\ tx'.call = tx.call /\ tx'.at = tx.at
<1>1. tx.ran + 1 \in Nat
  BY DEF Redemptions
<1>2. tx' = [tx EXCEPT !.ran = tx.ran + 1, !.store = after]
  OBVIOUS
<1>. DEFINE n == tx.ran + 1
<1>. HIDE DEF n
<1>3. n \in Nat /\ tx' = [tx EXCEPT !.ran = n, !.store = after]
  BY <1>1, <1>2 DEF n
<1>. QED
  BY <1>3 DEF Redemptions

\* A rate limit's hook.
LEMMA RateHookStep ==
  ASSUME TypeOK, Running, InTx, tx.at \in DOMAIN tx.chain,
         NEW terms \in RateTerms, BeforeRateHook(terms)
  PROVE  tx' \in Redemptions /\ TxInv' /\ PathInv'
<1>. DEFINE s == tx.store
            after == CountedIn(s, Current, terms)
<1>1. s \in Store /\ tx.ran \in Nat /\ tx.at \in Nat \ {0} /\ now \in Nat \ {0}
  BY DEF Running, Redemptions, TypeOK
<1>2. Current \in Hashes /\ StoreInv(s, now)
  BY CurrentTerms DEF Running, TxInv
<1>3. /\ after \in Store /\ StoreInv(after, now)
      /\ after.consumed = s.consumed /\ after.recoveries = s.recoveries
  BY <1>1, <1>2, RateHookStore DEF BeforeRateHook
<1>4. tx' = [tx EXCEPT !.ran = @ + 1, !.store = after]
  BY DEF BeforeRateHook
<1>. HIDE DEF after
<1>5. /\ tx' \in Redemptions /\ tx'.store = after
      /\ tx'.chain = tx.chain /\ tx'.call = tx.call /\ tx'.at = tx.at
  BY <1>3, <1>4, HookRan DEF Running
<1>6. PathInv'
  BY <1>5, PathFrame DEF Running, PathInv
<1>7. \A i, policy : /\ Guarded!Ripe(i, policy)' <=> Guarded!Ripe(i, policy)
                     /\ Guarded!Backed(i, policy)' <=> Guarded!Backed(i, policy)
  BY DEF InTx, Guarded!Ripe, Guarded!Backed
<1>8. TxInv'
  BY <1>3, <1>5, <1>7 DEF InTx, Running, TxInv
<1>. QED
  BY <1>5, <1>6, <1>8

\* What RecoveryEnforcer has checked of the intent it consumes.
LEMMA RecoveryHookAllows ==
  ASSUME TypeOK, Running, tx.at \in DOMAIN tx.chain, \A i \in Intents : PendingInv(i),
         NEW terms \in Caveats(Current, "recovery"), terms \in RecoveryTerms,
         NEW i, i = IntentOf(Current, tx.call), RecoveryAllows(tx.store.consumed, i, terms)
  PROVE  /\ i \in Intents /\ i \notin tx.store.consumed
         /\ firstAt[i] # 0 /\ now >= firstAt[i] + DelayOf(terms)
         /\ \E policy \in PoliciesOf(i) :
              Guarded!Ripe(i, policy) /\ Guarded!Backed(i, policy)
<1>. DEFINE policy == Policy(terms)
<1>1. Current \in Hashes /\ tx.call \in Delegation[Current].calls
  BY CurrentTerms DEF Running, PathInv, Current
<1>2. i = [delegator |-> Delegation[Current].delegator, call |-> tx.call]
  BY DEF IntentOf
<1>3. i \in Intents
  BY <1>1 DEF Intents
<1>4. policy \in PoliciesOf(i)
  BY <1>1, <1>2 DEF PoliciesOf, Covering
<1>5. /\ terms.threshold \in 1 .. Cardinality(terms.guardians)
      /\ proposedAt[i] # 0 /\ i \notin tx.store.consumed
      /\ now >= proposedAt[i] + DelayOf(terms)
      /\ Cardinality({ g \in terms.guardians : << g, i >> \in endorsed }) >= terms.threshold
  BY DEF RecoveryAllows
<1>6. DelayOf(terms) \in Nat
  BY DelayIsNat
<1>7. /\ now \in Nat /\ firstAt[i] \in Nat /\ proposedAt[i] \in Nat
      /\ firstAt[i] <= proposedAt[i] /\ (firstAt[i] = 0 <=> proposedAt[i] = 0)
  BY <1>3 DEF TypeOK, PendingInv
<1>8. firstAt[i] # 0 /\ now >= firstAt[i] + DelayOf(terms)
  BY <1>5, <1>6, <1>7
<1>9. /\ policy.guardians = terms.guardians /\ policy.threshold = terms.threshold
      /\ policy.delay = DelayOf(terms)
  BY DEF Policy
<1>10. terms.threshold > 0
  BY <1>5
<1>. HIDE DEF policy
<1>11. Guarded!Ripe(i, policy) /\ Guarded!Backed(i, policy)
  BY <1>5, <1>8, <1>9, <1>10, SameCardinality DEF Guarded!Ripe, Guarded!Backed
<1>. QED
  BY <1>3, <1>4, <1>5, <1>8, <1>11

\* A recovery's hook: the intent was not consumed before, in this redemption or
\* outside it.
LEMMA RecoveryHookStep ==
  ASSUME TypeOK, Running, InTx, tx.at \in DOMAIN tx.chain,
         \A i \in Intents : PendingInv(i),
         NEW terms \in Caveats(Current, "recovery"), terms \in RecoveryTerms,
         BeforeRecoveryHook(terms)
  PROVE  tx' \in Redemptions /\ TxInv' /\ PathInv'
<1>. DEFINE s == tx.store
            i == IntentOf(Current, tx.call)
            r == [at |-> now, first |-> firstAt[i], delay |-> DelayOf(terms)]
            after == RecoveredIn(s, i, r)
<1>1. s \in Store /\ tx.ran \in Nat /\ tx.at \in Nat \ {0} /\ now \in Nat \ {0}
  BY DEF Running, Redemptions, TypeOK
<1>2. StoreInv(s, now)
  BY DEF Running, TxInv
<1>3. /\ i \in Intents /\ i \notin s.consumed
      /\ firstAt[i] # 0 /\ now >= firstAt[i] + DelayOf(terms)
      /\ \E policy \in PoliciesOf(i) :
           Guarded!Ripe(i, policy) /\ Guarded!Backed(i, policy)
  BY RecoveryHookAllows DEF BeforeRecoveryHook
<1>4. tx' = [tx EXCEPT !.ran = @ + 1, !.store = after]
  BY DEF BeforeRecoveryHook
<1>. HIDE DEF i
<1>5. /\ r \in Recovery /\ r.at = now /\ r.first = firstAt[i] /\ r.delay = DelayOf(terms)
  BY <1>1, <1>3, DelayIsNat DEF Recovery, TypeOK
<1>. HIDE DEF r
<1>6. /\ after \in Store /\ StoreInv(after, now)
      /\ after.consumed = s.consumed \cup {i}
      /\ Len(after.recoveries[i]) = Len(s.recoveries[i]) + 1
      /\ \A j \in Intents : j # i => after.recoveries[j] = s.recoveries[j]
  <2>1. now \in Nat /\ r.first # 0 /\ r.at >= r.first + r.delay
    BY <1>1, <1>3, <1>5
  <2>. QED
    BY <1>1, <1>2, <1>3, <1>5, <2>1, RecoveryHookStore
<1>. HIDE DEF after
<1>7. /\ tx' \in Redemptions /\ tx'.store = after
      /\ tx'.chain = tx.chain /\ tx'.call = tx.call /\ tx'.at = tx.at
  BY <1>4, <1>6, HookRan DEF Running
<1>8. PathInv'
  BY <1>7, PathFrame DEF Running, PathInv
<1>9. \A j, policy : /\ Guarded!Ripe(j, policy)' <=> Guarded!Ripe(j, policy)
                     /\ Guarded!Backed(j, policy)' <=> Guarded!Backed(j, policy)
  BY DEF InTx, Guarded!Ripe, Guarded!Backed
<1>10. /\ StoreInv(s, now) /\ store.consumed \subseteq s.consumed
       /\ \A j \in Intents :
            IF j \in s.consumed \ store.consumed
            THEN /\ Len(s.recoveries[j]) = Len(store.recoveries[j]) + 1
                 /\ \E policy \in PoliciesOf(j) :
                      Guarded!Ripe(j, policy) /\ Guarded!Backed(j, policy)
            ELSE s.recoveries[j] = store.recoveries[j]
  BY DEF Running, TxInv
<1>11. ASSUME NEW j \in Intents
       PROVE  IF j \in after.consumed \ store.consumed
              THEN /\ Len(after.recoveries[j]) = Len(store.recoveries[j]) + 1
                   /\ \E policy \in PoliciesOf(j) :
                        Guarded!Ripe(j, policy) /\ Guarded!Backed(j, policy)
              ELSE after.recoveries[j] = store.recoveries[j]
  <2>1. CASE j = i
    BY <1>3, <1>6, <1>10, <2>1
  <2>2. CASE j # i
    BY <1>6, <1>10, <2>2
  <2>. QED
    BY <2>1, <2>2
<1>12. TxInv'
  BY <1>6, <1>7, <1>9, <1>10, <1>11 DEF InTx, TxInv
<1>. QED
  BY <1>7, <1>8, <1>12

LEMMA BeforeHookStep ==
  ASSUME TypeOK, Running, \A i \in Intents : PendingInv(i), BeforeHook
  PROVE  tx' \in Redemptions /\ TxInv' /\ PathInv'
<1>. DEFINE terms == Delegation[Current].caveats[tx.ran + 1]
<1>1. /\ tx.at \in DOMAIN tx.chain /\ InTx
      /\ tx.ran < Len(Delegation[Current].caveats)
      /\ \/ terms.kind = "rate" /\ BeforeRateHook(terms)
         \/ terms.kind = "recovery" /\ BeforeRecoveryHook(terms)
  BY DEF BeforeHook, InTx
<1>2. /\ terms \in RateTerms \cup RecoveryTerms
      /\ terms \in Range(Delegation[Current].caveats)
  BY <1>1, CurrentTerms DEF Running
<1>. HIDE DEF terms
<1>3. CASE terms.kind = "rate" /\ BeforeRateHook(terms)
  <2>1. terms \in RateTerms
    BY <1>2, <1>3, Kinds
  <2>. QED
    BY <1>1, <1>3, <2>1, RateHookStep
<1>4. CASE terms.kind = "recovery" /\ BeforeRecoveryHook(terms)
  <2>1. terms \in RecoveryTerms /\ terms \in Caveats(Current, "recovery")
    BY <1>2, <1>4, Kinds DEF Caveats
  <2>. QED
    BY <1>1, <1>4, <2>1, RecoveryHookStep
<1>. QED
  BY <1>1, <1>3, <1>4

LEMMA NextDelegationStep ==
  ASSUME Running, NextDelegation
  PROVE  tx' \in Redemptions /\ TxInv' /\ PathInv'
<1>1. tx' = [tx EXCEPT !.at = @ + 1, !.ran = 0] /\ InTx /\ tx.at \in DOMAIN tx.chain
  BY DEF NextDelegation, InTx
<1>2. tx.chain \in Seq(Hashes) /\ tx.at \in Nat
  BY DelegationAssumption DEF Running, Redemptions
<1>3. tx.at + 1 \in Nat \ {0} /\ tx.at + 1 \in 1 .. Len(tx.chain) + 1
  BY <1>1, <1>2
<1>4. /\ tx' \in Redemptions /\ tx'.store = tx.store /\ tx'.at = tx.at + 1
      /\ tx'.chain = tx.chain /\ tx'.call = tx.call
  BY <1>1, <1>3 DEF Running, Redemptions
<1>. QED
  BY <1>1, <1>3, <1>4, PathFrame, TxFrame DEF Running

LEMMA BeginStep ==
  ASSUME TypeOK, StoreInv(store, now), NEW c \in Chains, NEW sender \in Senders,
         NEW call \in Calls, BeginRedemption(c, sender, call)
  PROVE  tx' \in Redemptions /\ TxInv' /\ PathInv'
<1>1. /\ tx' = [chain |-> c, call |-> call, at |-> 1, ran |-> 0, store |-> store]
      /\ c # << >> /\ InTx /\ store \in Store
      /\ \A k \in DOMAIN c : ValidDelegation(c, k, sender) /\ call \in Delegation[c[k]].calls
  BY DEF BeginRedemption, InTx, TypeOK
<1>2. /\ tx' \in Redemptions /\ tx'.chain = c /\ tx'.call = call /\ tx'.at = 1
      /\ tx'.store = store
  BY <1>1 DEF Redemptions
<1>3. c \in Seq(Hashes) /\ 1 \in 1 .. Len(c) + 1
  BY DelegationAssumption
<1>4. ASSUME NEW k \in DOMAIN c
      PROVE  Delegation[c[k]].delegator \in EOAs \/ Deployed(Delegation[c[k]].delegator)'
  <2>1. ValidDelegation(c, k, sender) /\ UNCHANGED accounts
    BY <1>1 DEF InTx
  <2>. QED
    BY <2>1 DEF ValidDelegation, Deployed
<1>5. PathInv'
  BY <1>1, <1>2, <1>3, <1>4 DEF PathInv
<1>6. TxInv'
  BY <1>1, <1>2 DEF TxInv, InTx
<1>. QED
  BY <1>2, <1>5, <1>6

\* The call a redemption makes changes at most the root delegator's account, in a
\* way that account allows.
LEMMA ExecuteAccounts ==
  ASSUME AccountsInv, Running, ExecuteFromDelegator
  PROVE  AccountsInv'
<1>. DEFINE c == tx.chain
            root == Delegation[c[Len(c)]].delegator
            call == tx.call
<1>1. c \in Seq(Hashes) /\ c # << >> /\ call \in Calls
  BY DelegationAssumption DEF Running, Redemptions, PathInv
<1>2. Len(c) \in DOMAIN c /\ c[Len(c)] \in Hashes
  BY <1>1
<1>3. root \in Accounts \cup EOAs
  BY <1>2, DelegationAssumption DEF DelegationRecord
<1>4. ExecuteFrom(root, call)
  BY DEF ExecuteFromDelegator
<1>5. root \notin EOAs => Deployed(root)
  BY <1>2 DEF Running, PathInv
<1>. HIDE DEF root, call
<1>6. CASE UNCHANGED accounts
  BY <1>6 DEF AccountsInv, Deployed
<1>7. CASE /\ root \notin EOAs /\ call # Other
           /\ Allows(accounts[root], call)
           /\ accounts' = [accounts EXCEPT ![root] = After(@, call)]
  <2>1. root \in Accounts /\ Sound(accounts[root])
    BY <1>3, <1>5, <1>7 DEF AccountsInv
  <2>2. call \in SelfCall
    BY <1>1, <1>7, DelegationAssumption
  <2>3. Sound(After(accounts[root], call))
    BY <1>7, <2>1, <2>2, AfterSound
  <2>. QED
    BY <1>7, <2>1, <2>3, PutSound
<1>. QED
  BY <1>4, <1>6, <1>7 DEF ExecuteFrom

-----------------------------------------------------------------------------
(* The invariant is inductive.                                              *)

LEMMA AccountsFrame ==
  ASSUME AccountsInv, UNCHANGED accounts
  PROVE  AccountsInv'
  BY DEF AccountsInv, Deployed

LEMMA PendingFrame ==
  ASSUME \A i \in Intents : PendingInv(i), UNCHANGED << now, proposedAt, firstAt >>
  PROVE  \A i \in Intents : PendingInv(i)'
  BY DEF PendingInv

\* propose and cancel.
LEMMA ProposePending ==
  ASSUME TypeOK, \A i \in Intents : PendingInv(i), NEW j \in Intents,
         Propose(j) \/ Cancel(j)
  PROVE  TypeOK' /\ \A i \in Intents : PendingInv(i)'
<1>1. now \in Nat \ {0} /\ \A i \in Intents : firstAt[i] \in Nat /\ proposedAt[i] \in Nat
  BY DEF TypeOK
<1>2. TypeOK'
  <2>1. CASE Propose(j)
    <3>1. (IF firstAt[j] = 0 THEN now ELSE firstAt[j]) \in Nat
      BY <1>1
    <3>2. proposedAt' \in [Intents -> Nat] /\ firstAt' \in [Intents -> Nat]
      BY <1>1, <2>1, <3>1 DEF TypeOK, Propose
    <3>. QED
      BY <2>1, <3>2 DEF TypeOK, Propose
  <2>2. CASE Cancel(j)
    BY <2>2 DEF TypeOK, Cancel
  <2>. QED
    BY <2>1, <2>2
<1>3. UNCHANGED now
  BY DEF Propose, Cancel
<1>4. ASSUME NEW i \in Intents
      PROVE  /\ firstAt'[i] <= proposedAt'[i] /\ firstAt'[i] <= now
             /\ firstAt'[i] = 0 <=> proposedAt'[i] = 0
  <2>1. firstAt[i] <= proposedAt[i] /\ firstAt[i] <= now /\ (firstAt[i] = 0 <=> proposedAt[i] = 0)
    BY DEF PendingInv
  <2>2. CASE Propose(j)
    BY <1>1, <2>1, <2>2 DEF Propose, TypeOK
  <2>3. CASE Cancel(j)
    BY <1>1, <2>1, <2>3 DEF Cancel, TypeOK
  <2>. QED
    BY <2>2, <2>3
<1>. QED
  BY <1>2, <1>3, <1>4 DEF PendingInv

LEMMA InitParts == Init => Parts
<1>. SUFFICES ASSUME Init PROVE Parts
  OBVIOUS
<1>1. << >> \in Seq(Nat) /\ << >> \in Seq(Recovery) /\ Len(<< >>) = 0
  OBVIOUS
<1>2. NoCalls \in Bucket
  BY <1>1 DEF NoCalls, Bucket
<1>3. /\ store.buckets = [h \in Hashes |-> [key \in ScopeKeys |-> NoCalls]]
      /\ store.consumed = {} /\ store.recoveries = [i \in Intents |-> << >>]
  BY DEF Init
<1>4. store \in Store
  BY <1>1, <1>2 DEF Init, Store
<1>5. TypeOK
  BY <1>4 DEF Init, TypeOK
<1>6. AccountsInv
  BY DEF Init, AccountsInv, Deployed
<1>7. \A i \in Intents : PendingInv(i) /\ RecoveredOnce(store, i)
  BY <1>1, <1>3 DEF Init, PendingInv, RecoveredOnce
<1>8. BucketInv(NoCalls, now)
  BY DEF BucketInv, NoCalls
<1>9. StoreInv(store, now)
  BY <1>3, <1>7, <1>8 DEF StoreInv
<1>. QED
  BY <1>5, <1>6, <1>7, <1>9 DEF Init, Parts

\* The transactions outside a redemption.
LEMMA IdleStep ==
  ASSUME Parts, tx' = NoTx, TypeOK', AccountsInv', \A i \in Intents : PendingInv(i)',
         StoreInv(store, now)'
  PROVE  Parts'
  BY DEF Parts

\* The steps of a redemption that is not over.
LEMMA TxStep ==
  ASSUME Parts, InTx, tx' \in Redemptions, TxInv', PathInv'
  PROVE  Parts'
<1>1. TypeOK'
  BY DEF Parts, InTx, TypeOK
<1>2. AccountsInv' /\ \A i \in Intents : PendingInv(i)'
  BY AccountsFrame, PendingFrame DEF Parts, InTx
<1>3. StoreInv(store, now)'
  BY DEF Parts, InTx
<1>. QED
  BY <1>1, <1>2, <1>3 DEF Parts

LEMMA NextStep == Parts /\ [Next]_vars => Parts'
<1>. SUFFICES ASSUME Parts, [Next]_vars
     PROVE  Parts'
  OBVIOUS
<1>0. /\ TypeOK /\ AccountsInv /\ StoreInv(store, now)
      /\ \A i \in Intents : PendingInv(i)
      /\ now \in Nat \ {0} /\ store \in Store
  BY DEF Parts, TypeOK
<1>1. ASSUME NEW a \in Accounts, NEW o \in Owners, NEW linked \in BOOLEAN,
             NEW server \in { NoServer } \cup { {s} : s \in Owners },
             Deploy(a, o, server, linked)
      PROVE  Parts'
  <2>1. AccountsInv' /\ tx' = NoTx
        /\ UNCHANGED << now, revoked, store, proposedAt, endorsed, firstAt, tx >>
    BY <1>0, <1>1, DeployAccounts DEF Deploy
  <2>2. TypeOK' /\ StoreInv(store, now)'
    BY <1>0, <2>1 DEF TypeOK, AccountsInv
  <2>. QED
    BY <1>0, <2>1, <2>2, IdleStep, PendingFrame
<1>2. ASSUME NEW a \in Accounts, NEW c1 \in Calls, NEW c2 \in Calls, HandleOps(a, c1, c2)
      PROVE  Parts'
  <2>1. AccountsInv' /\ tx' = NoTx
        /\ UNCHANGED << now, revoked, store, proposedAt, endorsed, firstAt, tx >>
    BY <1>0, <1>2, HandleOpsAccounts DEF HandleOps
  <2>2. TypeOK' /\ StoreInv(store, now)'
    BY <1>0, <2>1 DEF TypeOK, AccountsInv
  <2>. QED
    BY <1>0, <2>1, <2>2, IdleStep, PendingFrame
<1>3. ASSUME NEW a \in Accounts, NEW linked \in BOOLEAN, LinkManager(a, linked)
      PROVE  Parts'
  <2>1. AccountsInv' /\ tx' = NoTx
        /\ UNCHANGED << now, revoked, store, proposedAt, endorsed, firstAt, tx >>
    BY <1>0, <1>3, LinkAccounts DEF LinkManager
  <2>2. TypeOK' /\ StoreInv(store, now)'
    BY <1>0, <2>1 DEF TypeOK, AccountsInv
  <2>. QED
    BY <1>0, <2>1, <2>2, IdleStep, PendingFrame
<1>4. ASSUME NEW i \in Intents, Propose(i) \/ Cancel(i)
      PROVE  Parts'
  <2>1. tx' = NoTx /\ UNCHANGED << now, accounts, store >>
    BY <1>4 DEF Propose, Cancel
  <2>2. TypeOK' /\ \A j \in Intents : PendingInv(j)'
    BY <1>0, <1>4, ProposePending
  <2>3. StoreInv(store, now)'
    BY <1>0, <2>1
  <2>. QED
    BY <1>0, <2>1, <2>2, <2>3, IdleStep, AccountsFrame
<1>5. ASSUME NEW i \in Intents, CallRecoveryHook(i)
      PROVE  Parts'
  <2>1. /\ tx' = NoTx /\ store' = ConsumedIn(store, i)
        /\ UNCHANGED << now, accounts, revoked, proposedAt, endorsed, firstAt, tx >>
    BY <1>5 DEF CallRecoveryHook
  <2>2. store' \in Store /\ StoreInv(store', now)
    BY <1>0, <2>1, SpentStore
  <2>3. TypeOK' /\ StoreInv(store, now)'
    BY <1>0, <2>1, <2>2 DEF TypeOK
  <2>. QED
    BY <1>0, <2>1, <2>3, IdleStep, AccountsFrame, PendingFrame
<1>6. ASSUME NEW i \in Intents, NEW g \in EOAs, Endorse(g, i)
      PROVE  Parts'
  <2>1. /\ tx' = NoTx /\ UNCHANGED << now, accounts, revoked, store, proposedAt, firstAt, tx >>
        /\ endorsed' = endorsed \cup { << g, i >> }
    BY <1>6 DEF Endorse
  <2>2. TypeOK' /\ StoreInv(store, now)'
    BY <1>0, <2>1 DEF TypeOK
  <2>. QED
    BY <1>0, <2>1, <2>2, IdleStep, AccountsFrame, PendingFrame
<1>7. ASSUME NEW h \in Hashes, NEW terms \in HookTerms[h], CallRateHook(h, terms)
      PROVE  Parts'
  <2>1. /\ tx' = NoTx /\ RateAllows(store.buckets[h][terms.scopeKey], terms)
        /\ store' = CountedIn(store, h, terms)
        /\ UNCHANGED << now, accounts, revoked, proposedAt, endorsed, firstAt, tx >>
    BY <1>7 DEF CallRateHook
  <2>2. terms \in RateTerms
    BY DelegationAssumption
  <2>3. store' \in Store /\ StoreInv(store', now)
    BY <1>0, <2>1, <2>2, RateHookStore
  <2>4. TypeOK' /\ StoreInv(store, now)'
    BY <1>0, <2>1, <2>3 DEF TypeOK
  <2>. QED
    BY <1>0, <2>1, <2>4, IdleStep, AccountsFrame, PendingFrame
<1>8. ASSUME NEW h \in Hashes, RevokeDelegation(h)
      PROVE  Parts'
  <2>1. /\ tx' = NoTx /\ UNCHANGED << now, accounts, store, proposedAt, endorsed, firstAt, tx >>
        /\ revoked' = revoked \cup {h}
    BY <1>8 DEF RevokeDelegation
  <2>2. TypeOK' /\ StoreInv(store, now)'
    BY <1>0, <2>1 DEF TypeOK
  <2>. QED
    BY <1>0, <2>1, <2>2, IdleStep, AccountsFrame, PendingFrame
<1>9. ASSUME NEW c \in Chains, NEW sender \in Senders, NEW call \in Calls,
             BeginRedemption(c, sender, call)
      PROVE  Parts'
  <2>1. InTx
    BY <1>9 DEF BeginRedemption, InTx
  <2>. QED
    BY <1>0, <1>9, <2>1, BeginStep, TxStep
<1>10. ASSUME tx # NoTx
       PROVE  Running
  BY <1>10 DEF Parts, TypeOK, Running
<1>11. CASE BeforeHook
  <2>1. Running /\ InTx
    BY <1>10, <1>11 DEF BeforeHook, InTx
  <2>. QED
    BY <1>0, <1>11, <2>1, BeforeHookStep, TxStep
<1>12. CASE NextDelegation
  <2>1. Running /\ InTx
    BY <1>10, <1>12 DEF NextDelegation, InTx
  <2>. QED
    BY <1>12, <2>1, NextDelegationStep, TxStep
<1>13. CASE ExecuteFromDelegator
  <2>1. /\ tx # NoTx /\ store' = tx.store /\ tx' = NoTx
        /\ UNCHANGED << now, revoked, proposedAt, endorsed, firstAt >>
    BY <1>13 DEF ExecuteFromDelegator
  <2>2. Running
    BY <1>10, <2>1
  <2>3. AccountsInv'
    BY <1>0, <1>13, <2>2, ExecuteAccounts
  <2>4. tx.store \in Store /\ StoreInv(tx.store, now)
    BY <2>2 DEF Running, Redemptions, TxInv
  <2>5. StoreInv(store', now')
    BY <2>1, <2>4
  <2>6. TypeOK'
    BY <1>0, <2>1, <2>3, <2>4 DEF TypeOK, AccountsInv
  <2>. QED
    BY <1>0, <2>1, <2>3, <2>5, <2>6, IdleStep, PendingFrame
<1>14. CASE Revert
  <2>1. tx' = NoTx /\ UNCHANGED << now, accounts, revoked, store, proposedAt, endorsed, firstAt >>
    BY <1>14 DEF Revert
  <2>2. TypeOK' /\ StoreInv(store, now)'
    BY <1>0, <2>1 DEF TypeOK
  <2>. QED
    BY <1>0, <2>1, <2>2, IdleStep, AccountsFrame, PendingFrame
<1>15. CASE Tick
  <2>1. /\ tx' = NoTx /\ now' = now + 1
        /\ UNCHANGED << accounts, revoked, store, proposedAt, endorsed, firstAt, tx >>
    BY <1>15 DEF Tick
  <2>2. TypeOK'
    BY <1>0, <2>1 DEF TypeOK
  <2>3. StoreInv(store, now + 1)
    BY <1>0, StoreAges
  <2>4. \A i \in Intents : PendingInv(i)'
    BY <1>0, <2>1 DEF TypeOK, PendingInv
  <2>. QED
    BY <1>0, <2>1, <2>2, <2>3, <2>4, IdleStep, AccountsFrame
<1>16. CASE UNCHANGED vars
  <2>1. InTx /\ tx' = tx
    BY <1>16 DEF vars, InTx
  <2>2. CASE tx = NoTx
    <3>1. TypeOK' /\ StoreInv(store, now)'
      BY <1>0, <2>1 DEF TypeOK, InTx
    <3>. QED
      BY <1>0, <2>1, <2>2, <3>1, IdleStep, AccountsFrame, PendingFrame DEF InTx
  <2>3. CASE tx # NoTx
    <3>1. Running
      BY <1>10, <2>3
    <3>2. TxInv' /\ PathInv'
      BY <2>1, <3>1, TxFrame, PathFrame DEF Running, PathInv
    <3>. QED
      BY <2>1, <3>1, <3>2, TxStep DEF Running
  <2>. QED
    BY <2>2, <2>3
<1>. QED
  BY <1>1, <1>2, <1>3, <1>4, <1>5, <1>6, <1>7, <1>8, <1>9, <1>11, <1>12, <1>13, <1>14,
     <1>15, <1>16 DEF Next

-----------------------------------------------------------------------------

\* The inductive invariant: what the enforcers' storage says of every bucket and
\* every intent, and what a redemption under way has done to its copy of it.
THEOREM RedemptionInvariant == Spec => []IInv
<1>1. Spec => []Parts
  BY InitParts, NextStep, PTL DEF Spec
<1>. QED
  BY <1>1, PartsInv, PTL

\* No bundle, redemption or recovery makes an account's counters disagree with
\* its signers or leaves it without one: addOwner, removeOwner, addPasskey,
\* removePasskey.
THEOREM AccountsStaySound == Spec => []AccountsSound
<1>1. IInv => AccountsSound
  BY DEF IInv
<1>. QED
  BY RedemptionInvariant, <1>1, PTL

\* RecoveryEnforcer: the intent of every redemption that consumed it stood
\* proposed and uncancelled for the caveat's delay.
THEOREM RecoveriesWait == Spec => []RecoveryDelayed
<1>1. IInv => RecoveryDelayed
  BY DEF IInv, StoreInv, RecoveredOnce, RecoveryDelayed
<1>. QED
  BY RedemptionInvariant, <1>1, PTL

\* RecoveryEnforcer: whatever is proposed, cancelled, consumed by strangers and
\* redeemed, and by however many delegations, an intent is redeemed once.
THEOREM RecoveriesRunOnce == Spec => []RecoveryOnce
<1>1. IInv => RecoveryOnce
  BY DEF IInv, StoreInv, RecoveredOnce, RecoveryOnce
<1>. QED
  BY RedemptionInvariant, <1>1, PTL

\* RateLimitEnforcer: no interval of the window's length sees 2 * maxCalls calls
\* of a bucket that was called under one limit's terms alone, by whomever, however
\* many limits and redelegations are stacked and however chains repeat.
THEOREM BurstsAreBounded == Spec => []RateBounded
<1>1. ASSUME IInv, NEW h \in Hashes, NEW terms \in Caveats(h, "rate"), NEW t \in 1 .. now,
             OnlyUnder(store.buckets[h][terms.scopeKey], terms)
      PROVE  CallsWithin(store.buckets[h][terms.scopeKey], t, terms.window) < 2 * terms.max
  <2>1. now \in Nat /\ t \in Nat /\ store \in Store /\ StoreInv(store, now)
    BY <1>1 DEF IInv, TypeOK
  <2>2. terms \in RateTerms
    <3>1. Delegation[h].caveats \in Seq(RateTerms \cup RecoveryTerms)
      BY DelegationAssumption DEF DelegationRecord
    <3>2. terms \in RateTerms \cup RecoveryTerms /\ terms.kind = "rate"
      BY <3>1 DEF Caveats, Range
    <3>. QED
      BY <3>2, Kinds
  <2>. DEFINE b == store.buckets[h][terms.scopeKey]
  <2>3. b \in Bucket /\ BucketInv(b, now)
    BY <2>1, <2>2 DEF Store, StoreInv, RateTerms
  <2>. HIDE DEF b
  <2>4. OnlyUnder(b, terms)
    BY <1>1 DEF b
  <2>5. CallsWithin(b, t, terms.window) < 2 * terms.max
    BY <2>1, <2>2, <2>3, <2>4, BurstBounded
  <2>. QED
    BY <2>5 DEF b
<1>2. IInv => RateBounded
  BY <1>1 DEF RateBounded
<1>. QED
  BY RedemptionInvariant, <1>2, PTL

-----------------------------------------------------------------------------
(* The implementation of GuardedRecovery.                                   *)

Runs == [i \in Intents |-> Len(store.recoveries[i])]
GuardedVars == << now, firstAt, endorsed, store.consumed, Runs >>

LEMMA RunsFrame == UNCHANGED store => UNCHANGED << store.consumed, Runs >>
  BY DEF Runs

\* A redemption that takes effect runs the intents it has consumed, all at once.
LEMMA ExecuteRuns ==
  ASSUME IInv, ExecuteFromDelegator, NEW S, S = tx.store.consumed \ store.consumed
  PROVE  S \subseteq Intents /\ Guarded!Run(S)
<1>1. /\ store' = tx.store /\ UNCHANGED << now, firstAt, endorsed >>
      /\ tx \in Redemptions /\ TxInv
  BY DEF ExecuteFromDelegator, IInv, TypeOK
<1>2. store \in Store /\ tx.store \in Store
  BY <1>1 DEF IInv, TypeOK, Redemptions
<1>3. S \subseteq Intents /\ S \cap store.consumed = {}
  BY <1>2 DEF Store
<1>4. store.consumed' = store.consumed \cup S
  BY <1>1 DEF TxInv
<1>5. \A i \in Intents : i \in S =>
        \E policy \in PoliciesOf(i) : Guarded!Ripe(i, policy) /\ Guarded!Backed(i, policy)
  BY <1>1 DEF TxInv
<1>6. ASSUME NEW i \in Intents
      PROVE  Len(store'.recoveries[i]) =
               IF i \in S THEN Len(store.recoveries[i]) + 1 ELSE Len(store.recoveries[i])
  BY <1>1 DEF TxInv
<1>7. Runs' = [i \in Intents |-> IF i \in S THEN Runs[i] + 1 ELSE Runs[i]]
  BY <1>6 DEF Runs
<1>. QED
  BY <1>1, <1>3, <1>4, <1>5, <1>7 DEF Guarded!Run, Runs

\* Every step is one of guarded recovery or leaves it alone.
LEMMA GuardedStep ==
  ASSUME IInv, [Next]_vars
  PROVE  [Guarded!Next]_GuardedVars
<1>1. ASSUME NEW i \in Intents, Propose(i)
      PROVE  [Guarded!Next]_GuardedVars
  <2>1. firstAt \in [Intents -> Nat] /\ UNCHANGED << now, endorsed, store >>
    BY <1>1 DEF IInv, TypeOK, Propose
  <2>2. CASE firstAt[i] = 0
    <3>1. firstAt' = [firstAt EXCEPT ![i] = now]
      BY <1>1, <2>2 DEF Propose
    <3>2. Guarded!Propose(i)
      BY <2>1, <2>2, <3>1 DEF Guarded!Propose
    <3>. QED
      BY <3>2 DEF Guarded!Next
  <2>3. CASE firstAt[i] # 0
    <3>1. firstAt' = firstAt
      BY <1>1, <2>1, <2>3 DEF Propose
    <3>. QED
      BY <2>1, <3>1, RunsFrame DEF GuardedVars
  <2>. QED
    BY <2>2, <2>3
<1>2. ASSUME NEW i \in Intents, Cancel(i)
      PROVE  [Guarded!Next]_GuardedVars
  <2>1. Guarded!Cancel(i)
    BY <1>2 DEF Cancel, Guarded!Cancel
  <2>. QED
    BY <2>1 DEF Guarded!Next
<1>3. ASSUME NEW i \in Intents, NEW g \in EOAs, Endorse(g, i)
      PROVE  [Guarded!Next]_GuardedVars
  <2>1. Guarded!Endorse(g, i)
    BY <1>3 DEF Endorse, Guarded!Endorse
  <2>. QED
    BY <2>1 DEF Guarded!Next
<1>4. ASSUME NEW i \in Intents, CallRecoveryHook(i)
      PROVE  [Guarded!Next]_GuardedVars
  <2>1. /\ store' = ConsumedIn(store, i) /\ proposedAt[i] # 0
        /\ UNCHANGED << now, firstAt, endorsed >> /\ store \in Store
    BY <1>4 DEF CallRecoveryHook, IInv, TypeOK
  <2>2. store'.consumed = store.consumed \cup {i} /\ store'.recoveries = store.recoveries
    BY <2>1 DEF Store, ConsumedIn
  <2>3. firstAt[i] # 0
    BY <2>1 DEF IInv, PendingInv
  <2>4. Guarded!Spend(i)
    BY <2>1, <2>2, <2>3 DEF Guarded!Spend
  <2>. QED
    BY <2>4 DEF Guarded!Next
<1>5. ASSUME NEW h \in Hashes, NEW terms \in HookTerms[h], CallRateHook(h, terms)
      PROVE  [Guarded!Next]_GuardedVars
  <2>1. /\ store' = CountedIn(store, h, terms)
        /\ UNCHANGED << now, firstAt, endorsed >> /\ store \in Store
    BY <1>5 DEF CallRateHook, IInv, TypeOK
  <2>2. store'.consumed = store.consumed /\ store'.recoveries = store.recoveries
    BY <2>1 DEF Store, CountedIn
  <2>. QED
    BY <2>1, <2>2 DEF GuardedVars, Runs
<1>6. CASE ExecuteFromDelegator
  <2>1. PICK S : S = tx.store.consumed \ store.consumed
    OBVIOUS
  <2>2. S \in SUBSET Intents /\ Guarded!Run(S)
    BY <1>6, <2>1, ExecuteRuns
  <2>. QED
    BY <2>2 DEF Guarded!Next
<1>7. CASE Tick
  <2>1. Guarded!Tick
    BY <1>7 DEF Tick, Guarded!Tick
  <2>. QED
    BY <2>1 DEF Guarded!Next
<1>8. CASE UNCHANGED << now, firstAt, endorsed, store >>
  BY <1>8, RunsFrame DEF GuardedVars
<1>9. \/ UNCHANGED << now, firstAt, endorsed, store >>
      \/ Tick \/ ExecuteFromDelegator
      \/ \E i \in Intents : Propose(i) \/ Cancel(i) \/ CallRecoveryHook(i)
      \/ \E i \in Intents, g \in EOAs : Endorse(g, i)
      \/ \E h \in Hashes : \E terms \in HookTerms[h] : CallRateHook(h, terms)
  BY DEF Next, vars, Deploy, HandleOps, LinkManager, RevokeDelegation, BeginRedemption,
         BeforeHook, NextDelegation, Revert
<1>. QED
  BY <1>1, <1>2, <1>3, <1>4, <1>5, <1>6, <1>7, <1>8, <1>9

\* RecoveryEnforcer and the chains that carry it implement guarded recovery:
\* whoever proposes, cancels, signs, calls the hook and redeems, one policy of the
\* owner's supplies both the guardians and the delay of every run, and no intent
\* runs a second time or after somebody spent it.
THEOREM RecoveryGuarded == Spec => ImplementsGuarded
<1>1. Init => Guarded!Init
  <2>1. Init => store.consumed = {} /\ Runs = [i \in Intents |-> 0]
    <3>1. Len(<< >>) = 0
      OBVIOUS
    <3>. QED
      BY <3>1 DEF Init, Runs
  <2>. QED
    BY <2>1 DEF Init, Guarded!Init, Runs
<1>2. IInv /\ [Next]_vars => [Guarded!Next]_Guarded!vars
  BY GuardedStep DEF Guarded!vars, GuardedVars, Runs
<1>. QED
  BY <1>1, <1>2, RedemptionInvariant, PTL DEF Spec, Guarded!Spec, ImplementsGuarded
=============================================================================
