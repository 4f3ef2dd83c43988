----------------------- MODULE RelationshipFlowsProofs -----------------------
(***************************************************************************)
(* Proofs about AgentRelationship and RelationshipFlows, for every number  *)
(* of edges, roles and server actions.                                     *)
(***************************************************************************)
EXTENDS RelationshipFlows, SequenceTheorems, WellFoundedInduction, TLAPS

-----------------------------------------------------------------------------
(* The list of roles. *)

\* A set of naturals has a least element.
LEMMA LeastElement ==
  ASSUME NEW S, S \subseteq Nat, S # {}
  PROVE  \E m \in S : \A k \in S : m <= k
<1>. DEFINE Less == { p \in Nat \X Nat : p[1] < p[2] }
<1>1. OpToRel(<, Nat) = Less
  BY DEF OpToRel
<1>2. IsWellFoundedOn(Less, Nat)
  BY <1>1, NatLessThanWellFounded
<1>3. \A k, m \in Nat : k < m => << k, m >> \in Less
  <2>. TAKE k, m \in Nat
  <2>. DEFINE p == << k, m >>
  <2>1. p \in Nat \X Nat /\ p[1] = k /\ p[2] = m
    OBVIOUS
  <2>. QED BY <2>1
<1>. HIDE DEF Less
<1>4. PICK m \in S : \A k \in S : ~(<< k, m >> \in Less)
  BY <1>2, WFMin
<1>5. ASSUME NEW k \in S PROVE m <= k
  <2>1. m \in Nat /\ k \in Nat /\ << k, m >> \notin Less
    BY <1>4
  <2>2. ~(k < m)
    BY <1>3, <2>1
  <2>. QED BY <2>1, <2>2
<1>. QED BY <1>5

\* A role that was not listed is appended: the list stays without repetition.
LEMMA AppendRole ==
  ASSUME NEW S, NEW s \in Seq(S), NEW r \in S, r \notin ToSet(s), IsInjective(s)
  PROVE  /\ Append(s, r) \in Seq(S)
         /\ ToSet(Append(s, r)) = ToSet(s) \cup {r}
         /\ IsInjective(Append(s, r))
<1>. DEFINE t == Append(s, r)
<1>1. t \in Seq(S) /\ DOMAIN t = 1 .. Len(s) + 1 /\ DOMAIN s = 1 .. Len(s) /\ Len(s) \in Nat
  OBVIOUS
<1>2. t[Len(s) + 1] = r /\ \A i \in 1 .. Len(s) : t[i] = s[i]
  OBVIOUS
<1>3. ToSet(t) = ToSet(s) \cup {r}
  BY <1>1, <1>2 DEF ToSet
<1>4. IsInjective(t)
  BY <1>1, <1>2 DEF IsInjective, ToSet
<1>. QED BY <1>1, <1>3, <1>4

\* What the swap with the last element leaves: the elements other than the
\* first occurrence of the role, k.
LEMMA WithoutSwaps ==
  ASSUME NEW S, NEW s \in Seq(S), NEW r \in S, r \in ToSet(s)
  PROVE  \E k \in 1 .. Len(s) :
           /\ s[k] = r
           /\ Without(s, r) \in Seq(S) /\ Len(Without(s, r)) = Len(s) - 1
           /\ \A i \in 1 .. Len(s) - 1 :
                Without(s, r)[i] = IF i = k THEN s[Len(s)] ELSE s[i]
<1>. DEFINE P(k) == s[k] = r /\ \A j \in DOMAIN s : s[j] = r => k <= j
            k == CHOOSE k \in DOMAIN s : P(k)
            n == Len(s)
            t == [s EXCEPT ![k] = s[n]]
            R == { j \in DOMAIN s : s[j] = r }
<1>1. DOMAIN s = 1 .. n /\ n \in Nat /\ \E j \in DOMAIN s : s[j] = r
  BY DEF ToSet
<1>2. R \subseteq Nat /\ R # {}
  BY <1>1
<1>3. \E j \in DOMAIN s : P(j)
  <2>. HIDE DEF R
  <2>1. PICK m \in R : \A j \in R : m <= j
    BY <1>2, LeastElement
  <2>. QED BY <2>1 DEF R
<1>4. k \in DOMAIN s /\ s[k] = r
  BY <1>3
<1>5. Without(s, r) = Front(t)
  BY <1>1 DEF Without
<1>6. t \in Seq(S) /\ Len(t) = n /\ n >= 1
  BY <1>1, <1>4
<1>7. \A i \in 1 .. n : t[i] = IF i = k THEN s[n] ELSE s[i]
  BY <1>1, <1>4
<1>. DEFINE u == Front(t)
<1>. HIDE DEF k, t
<1>8. u \in Seq(S) /\ Len(u) = n - 1 /\ \A i \in 1 .. n - 1 : u[i] = t[i]
  <2>1. \A i \in 1 .. n - 1 : t[i] \in S
    BY <1>1, <1>6
  <2>2. u = SubSeq(t, 1, n - 1)
    BY <1>6 DEF Front
  <2>3. u = [i \in 1 .. n - 1 |-> t[i]]
    BY <1>1, <1>6, <2>2, SubSeqProperties
  <2>4. u \in Seq(S)
    BY <1>1, <1>6, <2>1, <2>3
  <2>. QED BY <1>1, <1>6, <2>3, <2>4
<1>. HIDE DEF u
<1>9. \A i \in 1 .. n - 1 : u[i] = IF i = k THEN s[n] ELSE s[i]
  BY <1>1, <1>6, <1>7, <1>8
<1>10. Without(s, r) = u
  BY <1>5 DEF u
<1>. HIDE DEF n
<1>. QED BY <1>1, <1>4, <1>8, <1>9, <1>10 DEF n

\* An element of the list, other than the role, is still in it.
LEMMA WithoutKeeps ==
  ASSUME NEW S, NEW s \in Seq(S), NEW r \in S, r \in ToSet(s)
  PROVE  Without(s, r) \in Seq(S) /\ ToSet(s) \ {r} \subseteq ToSet(Without(s, r))
<1>. DEFINE u == Without(s, r)
            n == Len(s)
<1>1. PICK k \in 1 .. n :
        /\ s[k] = r /\ u \in Seq(S) /\ Len(u) = n - 1
        /\ \A i \in 1 .. n - 1 : u[i] = IF i = k THEN s[n] ELSE s[i]
  BY WithoutSwaps
<1>. HIDE DEF u
<1>2. DOMAIN s = 1 .. n /\ n \in Nat /\ DOMAIN u = 1 .. n - 1
  BY <1>1
<1>3. ASSUME NEW i \in 1 .. n, s[i] # r PROVE s[i] \in ToSet(u)
  <2>. HIDE DEF n
  <2>1. CASE i = n
    <3>1. k \in 1 .. n - 1 /\ u[k] = s[i]
      BY <1>1, <1>2, <1>3, <2>1
    <3>. QED BY <1>2, <3>1 DEF ToSet
  <2>2. CASE i # n
    <3>1. i \in 1 .. n - 1 /\ u[i] = s[i]
      BY <1>1, <1>2, <1>3, <2>2
    <3>. QED BY <1>2, <3>1 DEF ToSet
  <2>. QED BY <2>1, <2>2
<1>4. ToSet(s) \ {r} \subseteq ToSet(u)
  <2>. SUFFICES ASSUME NEW x \in ToSet(s), x # r PROVE x \in ToSet(u)
    OBVIOUS
  <2>1. PICK i \in 1 .. n : x = s[i]
    BY <1>2 DEF ToSet
  <2>. QED BY <1>3, <2>1
<1>. QED BY <1>1, <1>4 DEF u

\* The swap takes out the one occurrence of a role.
LEMMA WithoutRole ==
  ASSUME NEW S, NEW s \in Seq(S), NEW r \in S, r \in ToSet(s), IsInjective(s)
  PROVE  /\ Without(s, r) \in Seq(S)
         /\ ToSet(Without(s, r)) = ToSet(s) \ {r}
         /\ IsInjective(Without(s, r))
<1>. DEFINE u == Without(s, r)
            n == Len(s)
<1>1. PICK k \in 1 .. n :
        /\ s[k] = r /\ u \in Seq(S) /\ Len(u) = n - 1
        /\ \A i \in 1 .. n - 1 : u[i] = IF i = k THEN s[n] ELSE s[i]
  BY WithoutSwaps
<1>2. ToSet(s) \ {r} \subseteq ToSet(u)
  BY WithoutKeeps
<1>. HIDE DEF u
<1>3. DOMAIN s = 1 .. n /\ n \in Nat /\ DOMAIN u = 1 .. n - 1
  BY <1>1
<1>4. \A a, b \in 1 .. n : s[a] = s[b] => a = b
  BY <1>3 DEF IsInjective
<1>5. IsInjective(u)
  <2>. SUFFICES ASSUME NEW a \in 1 .. n - 1, NEW b \in 1 .. n - 1, u[a] = u[b] PROVE a = b
    BY <1>3 DEF IsInjective
  <2>. QED BY <1>1, <1>3, <1>4
<1>6. ASSUME NEW i \in 1 .. n - 1 PROVE u[i] \in ToSet(s) /\ u[i] # r
  <2>. HIDE DEF n
  <2>1. \E a \in 1 .. n : u[i] = s[a] /\ a # k
    BY <1>1, <1>3
  <2>. QED BY <1>1, <1>3, <1>4, <2>1 DEF ToSet
<1>7. ToSet(u) = ToSet(s) \ {r}
  <2>1. \A x \in ToSet(u) : x \in ToSet(s) \ {r}
    BY <1>3, <1>6 DEF ToSet
  <2>. QED BY <1>2, <2>1
<1>. QED BY <1>1, <1>5, <1>7 DEF u

-----------------------------------------------------------------------------
(* The operations on an edge. *)

\* An edge created with no role twice is consistent and holds what it lists.
LEMMA Creates ==
  ASSUME NEW c \in Others \cup {Deployer}, NEW roles \in Seq(Roles)
  PROVE  LET y == Created(c, roles)
         IN  /\ y \in Edge /\ y.exists /\ y.createdBy = c
             /\ y.held = ToSet(roles)
             /\ \A twice : (~twice => IsInjective(roles)) => RolesHold(y, twice)
<1>1. ToSet(roles) \subseteq Roles
  BY DEF ToSet
<1>. QED BY <1>1 DEF Created, Edge, Status, RolesConsistent, RolesHold

\* addRole keeps the two records as they agreed and adds that role alone.
LEMMA Adds ==
  ASSUME NEW x \in Edge, NEW r \in Roles, r \notin x.held,
         NEW twice, RolesHold(x, twice)
  PROVE  LET y == AddRole(x, r)
         IN  /\ y \in Edge /\ RolesHold(y, twice) /\ y.exists
             /\ y.held = x.held \cup {r}
             /\ y.status = x.status /\ y.createdBy = x.createdBy
<1>1. x.listed \in Seq(Roles) /\ x.exists /\ x.held \subseteq Roles
  BY DEF Edge
<1>2. /\ Append(x.listed, r) \in Seq(Roles)
      /\ ToSet(Append(x.listed, r)) = ToSet(x.listed) \cup {r}
  <2>1. /\ DOMAIN x.listed = 1 .. Len(x.listed) /\ Len(x.listed) \in Nat
        /\ DOMAIN Append(x.listed, r) = 1 .. Len(x.listed) + 1
        /\ \A i \in 1 .. Len(x.listed) : Append(x.listed, r)[i] = x.listed[i]
        /\ Append(x.listed, r)[Len(x.listed) + 1] = r
    BY <1>1
  <2>. QED BY <1>1, <2>1 DEF ToSet
<1>3. ~twice => IsInjective(Append(x.listed, r))
  <2>. SUFFICES ASSUME ~twice PROVE IsInjective(Append(x.listed, r))
    OBVIOUS
  <2>1. ToSet(x.listed) = x.held /\ IsInjective(x.listed)
    BY <1>1 DEF RolesHold, RolesConsistent
  <2>. QED BY <1>1, <2>1, AppendRole
<1>. DEFINE y == AddRole(x, r)
<1>4. /\ y \in Edge /\ y.exists /\ y.held = x.held \cup {r}
      /\ y.listed = Append(x.listed, r)
      /\ y.status = x.status /\ y.createdBy = x.createdBy
  BY <1>1, <1>2 DEF AddRole, Edge
<1>5. RolesHold(y, twice)
  BY <1>1, <1>2, <1>3, <1>4 DEF RolesHold, RolesConsistent
<1>. QED BY <1>4, <1>5

\* removeRole keeps the two records as they agreed and takes that role alone.
LEMMA Removes ==
  ASSUME NEW x \in Edge, NEW r \in Roles, r \in x.held,
         NEW twice, RolesHold(x, twice)
  PROVE  LET y == RemoveRole(x, r)
         IN  /\ y \in Edge /\ RolesHold(y, twice) /\ y.exists
             /\ y.held = x.held \ {r}
             /\ y.status = x.status /\ y.createdBy = x.createdBy
<1>1. x.listed \in Seq(Roles) /\ x.exists /\ x.held \subseteq Roles
      /\ r \in ToSet(x.listed)
  BY DEF Edge, RolesHold, RolesConsistent
<1>2. /\ Without(x.listed, r) \in Seq(Roles)
      /\ ToSet(x.listed) \ {r} \subseteq ToSet(Without(x.listed, r))
  BY <1>1, WithoutKeeps
<1>3. ~twice => /\ ToSet(x.listed) = x.held
                /\ ToSet(Without(x.listed, r)) = ToSet(x.listed) \ {r}
                /\ IsInjective(Without(x.listed, r))
  <2>. SUFFICES ASSUME ~twice
                PROVE  /\ ToSet(x.listed) = x.held
                       /\ ToSet(Without(x.listed, r)) = ToSet(x.listed) \ {r}
                       /\ IsInjective(Without(x.listed, r))
    OBVIOUS
  <2>1. ToSet(x.listed) = x.held /\ IsInjective(x.listed)
    BY <1>1 DEF RolesHold, RolesConsistent
  <2>. QED BY <1>1, <2>1, WithoutRole
<1>. DEFINE y == RemoveRole(x, r)
<1>4. /\ y \in Edge /\ y.exists /\ y.held = x.held \ {r}
      /\ y.listed = Without(x.listed, r)
      /\ y.status = x.status /\ y.createdBy = x.createdBy
  BY <1>1, <1>2 DEF RemoveRole, Edge
<1>5. RolesHold(y, twice)
  <2>1. twice => x.held \subseteq ToSet(x.listed)
    BY DEF RolesHold
  <2>. HIDE DEF y
  <2>. QED BY <1>2, <1>3, <1>4, <2>1 DEF RolesHold, RolesConsistent
<1>. QED BY <1>4, <1>5

\* A change of status leaves the roles alone.
LEMMA Statuses ==
  ASSUME NEW x \in Edge, NEW s \in Status, NEW twice, RolesHold(x, twice)
  PROVE  LET y == SetStatus(x, s)
         IN  /\ y \in Edge /\ RolesHold(y, twice) /\ y.exists
             /\ y.held = x.held /\ y.status = s /\ y.createdBy = x.createdBy
BY DEF SetStatus, Edge, RolesHold, RolesConsistent

\* An existing edge is a record of the contract.
LEMMA ExistingEdge ==
  ASSUME TypeOK, NEW e \in Edges, edges[e].exists
  PROVE  edges[e] \in Edge
BY DEF TypeOK, NoEdge

-----------------------------------------------------------------------------
(* The pool of transactions. *)

\* p is the pool without its k-th transaction.
PoolShrinks(p, k) ==
  /\ p \in Seq(Tx) /\ Len(p) = Len(pool) - 1
  /\ \A j \in 1 .. Len(p) : p[j] = pool[IF j < k THEN j ELSE j + 1]

\* Mining takes the first transaction.
LEMMA TailShrinks ==
  ASSUME pool \in Seq(Tx), pool # << >>
  PROVE  /\ PoolShrinks(Tail(pool), 1) /\ 1 \in DOMAIN pool /\ Head(pool) = pool[1]
<1>1. /\ Tail(pool) \in Seq(Tx) /\ Len(Tail(pool)) = Len(pool) - 1
      /\ \A i \in 1 .. Len(Tail(pool)) : Tail(pool)[i] = pool[i + 1]
  BY HeadTailProperties
<1>. QED BY <1>1 DEF PoolShrinks

\* Dropping takes any one of them.
LEMMA RemoveShrinks ==
  ASSUME pool \in Seq(Tx), NEW k \in DOMAIN pool
  PROVE  PoolShrinks(RemoveAt(pool, k), k)
<1>. DEFINE n == Len(pool)
            a == SubSeq(pool, 1, k - 1)
            b == SubSeq(pool, k + 1, n)
<1>1. DOMAIN pool = 1 .. n /\ n \in Nat /\ k \in 1 .. n /\ \A i \in 1 .. n : pool[i] \in Tx
  OBVIOUS
<1>2. a \in Seq(Tx) /\ Len(a) = k - 1 /\ \A i \in 1 .. k - 1 : a[i] = pool[i]
  <2>1. \A i \in 1 .. k - 1 : pool[i] \in Tx
    BY <1>1
  <2>2. k - 1 \in Int /\ 1 \in Int
    BY <1>1
  <2>. QED BY <1>1, <2>1, <2>2, SubSeqProperties
<1>3. b \in Seq(Tx) /\ Len(b) = n - k /\ \A i \in 1 .. n - k : b[i] = pool[k + i]
  <2>1. \A i \in k + 1 .. n : pool[i] \in Tx
    BY <1>1
  <2>2. k + 1 \in Int /\ n \in Int
    BY <1>1
  <2>3. /\ b \in Seq(Tx) /\ Len(b) = IF k + 1 <= n THEN n - (k + 1) + 1 ELSE 0
        /\ \A i \in 1 .. n - (k + 1) + 1 : b[i] = pool[k + 1 + i - 1]
    BY <2>1, <2>2, SubSeqProperties
  <2>. HIDE DEF b, n
  <2>4. k \in Int /\ n \in Int /\ k <= n
    BY <1>1
  <2>5. (IF k + 1 <= n THEN n - (k + 1) + 1 ELSE 0) = n - k
    BY <2>4
  <2>6. ASSUME NEW i \in 1 .. n - k
        PROVE  i \in 1 .. n - (k + 1) + 1 /\ k + 1 + i - 1 = k + i
    BY <2>4
  <2>7. ASSUME NEW i \in 1 .. n - k PROVE b[i] = pool[k + i]
    BY <2>3, <2>6
  <2>. QED BY <2>3, <2>5, <2>7
<1>. HIDE DEF a, b
<1>4. /\ a \o b \in Seq(Tx) /\ Len(a \o b) = n - 1
      /\ \A i \in 1 .. n - 1 : (a \o b)[i] = IF i <= k - 1 THEN a[i] ELSE b[i - (k - 1)]
  <2>1. /\ a \o b \in Seq(Tx) /\ Len(a \o b) = Len(a) + Len(b)
        /\ \A i \in 1 .. Len(a) + Len(b) :
             (a \o b)[i] = IF i <= Len(a) THEN a[i] ELSE b[i - Len(a)]
    BY <1>2, <1>3, ConcatProperties
  <2>2. Len(a) + Len(b) = n - 1
    BY <1>1, <1>2, <1>3
  <2>. QED BY <1>2, <2>1, <2>2
<1>5. ASSUME NEW i \in 1 .. n - 1
      PROVE  (a \o b)[i] = pool[IF i < k THEN i ELSE i + 1]
  <2>. HIDE DEF n
  <2>1. CASE i < k
    BY <1>1, <1>2, <1>4, <2>1
  <2>2. CASE ~(i < k)
    <3>1. i - (k - 1) \in 1 .. n - k /\ k + (i - (k - 1)) = i + 1
      BY <1>1, <2>2
    <3>2. (a \o b)[i] = b[i - (k - 1)]
      BY <1>1, <1>4, <2>2
    <3>. QED BY <1>3, <2>2, <3>1, <3>2
  <2>. QED BY <2>1, <2>2
<1>6. RemoveAt(pool, k) = a \o b
  BY DEF RemoveAt, a, b
<1>. QED BY <1>4, <1>5, <1>6 DEF PoolShrinks

\* With its transaction an action has no write left.
LEMMA Shrinks ==
  ASSUME TypeOK, OneWrite, NEW k \in DOMAIN pool, PoolShrinks(pool', k), late' = late
  PROVE  /\ OneWrite' /\ pool' \in Seq(Tx)
         /\ \A g \in Flows, step \in WritePC :
              Pending(g, step)' => Pending(g, step) /\ g # pool[k].flow
<1>. DEFINE at(j) == IF j < k THEN j ELSE j + 1
<1>1. DOMAIN pool = 1 .. Len(pool) /\ Len(pool) \in Nat /\ DOMAIN pool' = 1 .. Len(pool) - 1
      /\ pool' \in Seq(Tx)
  BY DEF TypeOK, PoolShrinks
<1>2. ASSUME NEW j \in DOMAIN pool'
      PROVE  pool'[j] = pool[at(j)] /\ at(j) \in DOMAIN pool /\ at(j) # k
  <2>1. pool'[j] = pool[at(j)]
    BY <1>1, <1>2 DEF PoolShrinks
  <2>2. at(j) \in DOMAIN pool /\ at(j) # k
    BY <1>1, <1>2
  <2>. QED BY <2>1, <2>2
<1>3. \A i, j \in DOMAIN pool' : at(i) = at(j) => i = j
  BY <1>1
<1>. HIDE DEF at
<1>4. OneWrite'
  <2>1. \A j, i \in DOMAIN pool' : pool'[j].flow = pool'[i].flow => j = i
    BY <1>2, <1>3 DEF OneWrite
  <2>2. \A w \in late' : ~Sent(w.flow)'
    <3>. SUFFICES ASSUME NEW w \in late, NEW j \in DOMAIN pool', pool'[j].flow = w.flow
                  PROVE  FALSE
      BY DEF Sent
    <3>. QED BY <1>2 DEF OneWrite, Sent
  <2>. QED BY <2>1, <2>2 DEF OneWrite
<1>5. ASSUME NEW g \in Flows, NEW step \in WritePC, Pending(g, step)'
      PROVE  Pending(g, step) /\ g # pool[k].flow
  <2>1. CASE \E w \in late : w.flow = g /\ w.step = step
    BY <2>1 DEF Pending, OneWrite, Sent
  <2>2. CASE \E j \in DOMAIN pool' : pool'[j].flow = g /\ pool'[j].step = step
    <3>1. PICK j \in DOMAIN pool' : pool'[j].flow = g /\ pool'[j].step = step
      BY <2>2
    <3>2. /\ pool[at(j)].flow = g /\ pool[at(j)].step = step
          /\ at(j) \in DOMAIN pool /\ at(j) # k
      BY <1>2, <3>1
    <3>3. g # pool[k].flow
      BY <3>2 DEF OneWrite
    <3>4. pool[at(j)] \in ToSet(pool)
      BY <3>2 DEF ToSet
    <3>. QED BY <3>2, <3>3, <3>4 DEF Pending
  <2>. QED BY <1>5, <2>1, <2>2 DEF Pending, ToSet
<1>. QED BY <1>1, <1>4, <1>5

\* A transaction is sent: one more write under way, if it was not one already.
LEMMA Sends ==
  ASSUME TypeOK, OneWrite, NEW t \in Tx, pool' = Append(pool, t), late' \subseteq late,
         ~Sent(t.flow), \A w \in late' : w.flow # t.flow
  PROVE  /\ OneWrite' /\ pool' \in Seq(Tx) /\ late' \subseteq Write
         /\ \A g \in Flows, step \in WritePC :
              Pending(g, step)' => \/ Pending(g, step)
                                   \/ g = t.flow /\ step = t.step
<1>. DEFINE n == Len(pool)
<1>1. /\ DOMAIN pool = 1 .. n /\ n \in Nat /\ DOMAIN pool' = 1 .. n + 1
      /\ pool' \in Seq(Tx) /\ pool'[n + 1] = t
      /\ \A j \in 1 .. n : pool'[j] = pool[j]
  BY AppendProperties DEF TypeOK
<1>2. \A j \in 1 .. n : pool[j].flow # t.flow
  BY <1>1 DEF Sent
<1>. HIDE DEF n
<1>3. \A j \in DOMAIN pool' : j = n + 1 \/ j \in 1 .. n
  BY <1>1
<1>4. OneWrite'
  <2>1. ASSUME NEW j \in DOMAIN pool', NEW k \in DOMAIN pool', pool'[j].flow = pool'[k].flow
        PROVE  j = k
    BY <1>1, <1>2, <1>3, <2>1 DEF OneWrite
  <2>2. ASSUME NEW w \in late', NEW j \in DOMAIN pool', pool'[j].flow = w.flow
        PROVE  FALSE
    BY <1>1, <1>3, <2>2 DEF OneWrite, Sent
  <2>. QED BY <2>1, <2>2 DEF OneWrite, Sent
<1>5. ASSUME NEW g \in Flows, NEW step \in WritePC, Pending(g, step)'
      PROVE  Pending(g, step) \/ (g = t.flow /\ step = t.step)
  <2>1. PICK w \in late' \cup ToSet(pool') : w.flow = g /\ w.step = step
    BY <1>5 DEF Pending
  <2>2. w \in late \/ w = t \/ w \in ToSet(pool)
    BY <1>1, <1>3, <2>1 DEF ToSet
  <2>. QED BY <2>1, <2>2 DEF Pending
<1>. QED BY <1>1, <1>4, <1>5 DEF TypeOK

\* An action gives up on a write that is not sent yet, which is late from now on.
LEMMA BecomesLate ==
  ASSUME TypeOK, OneWrite, NEW v \in Write, pool' = pool, late' = late \cup {v},
         ~Sent(v.flow), \A w \in late : w.flow # v.flow
  PROVE  /\ OneWrite' /\ late' \subseteq Write
         /\ \A g \in Flows, step \in WritePC :
              Pending(g, step)' => \/ Pending(g, step)
                                   \/ g = v.flow /\ step = v.step
<1>1. OneWrite'
  BY DEF OneWrite, Sent
<1>2. late' \subseteq Write
  BY DEF TypeOK
<1>3. ASSUME NEW g \in Flows, NEW step \in WritePC, Pending(g, step)'
      PROVE  Pending(g, step) \/ (g = v.flow /\ step = v.step)
  BY <1>3 DEF Pending
<1>. QED BY <1>1, <1>2, <1>3

-----------------------------------------------------------------------------
(* What a step has to keep. *)

\* The records of the chain stay well formed, and nothing on it is undone: a
\* role that goes was removed by a party.
ChainKept ==
  /\ edges' \in [Edges -> Edge \cup {NoEdge}]
  /\ claims' \in [Edges -> SUBSET {"self", "object"}]
  /\ removed' \in [Edges -> SUBSET Roles] /\ doubled' \subseteq Edges
  /\ \A e \in Edges : RolesInv(e)'
  /\ \A e \in Edges : claims[e] \subseteq claims'[e]
  /\ \A e \in Edges : edges[e].exists =>
       /\ edges'[e].exists /\ edges'[e].createdBy = edges[e].createdBy
       /\ edges[e].held \cup removed[e] \subseteq edges'[e].held \cup removed'[e]

\* A step that leaves the chain alone.
LEMMA ChainSame ==
  ASSUME IInv, UNCHANGED <<chainVars, removed, doubled>>
  PROVE  ChainKept
BY DEF ChainKept, chainVars, IInv, TypeOK, RolesInv

\* An action a step does not concern.
Untouched(g) ==
  /\ flow'[g] = flow[g] /\ (g \in reverted' <=> g \in reverted)
  /\ \A step \in WritePC : Pending(g, step)' => Pending(g, step)
  /\ \A w \in late' : w.flow = g => \E v \in late : v.flow = g

Kept(f) == StepInv(f) /\ WriteInv(f) /\ GrantInv(f)

\* What is known of such an action stays true.
LEMMA UntouchedKept ==
  ASSUME IInv, ChainKept, NEW g \in Flows, Untouched(g)
  PROVE  /\ Kept(g)'
         /\ \A e \in Edges : ClaimOpen(g, e) => ClaimOpen(g, e)'
<1>1. StepInv(g) /\ WriteInv(g) /\ GrantInv(g) /\ flow[g] \in Idle \cup Begun
  BY DEF IInv, TypeOK
<1>2. flow[g].pc # "idle" => flow[g].edge \in Edges
  BY <1>1 DEF Idle, Begun
<1>3. StepInv(g)'
  BY <1>1, <1>2 DEF StepInv, Untouched, ChainKept
<1>4. WriteInv(g)'
  <2>1. \A w \in late' : w.flow = g => flow'[g].pc \in {"ok", "failed"}
    BY <1>1 DEF WriteInv, Untouched
  <2>2. ASSUME NEW step \in WritePC, Pending(g, step)'
        PROVE  /\ flow'[g].pc \in {step, "ok", "failed"}
               /\ step \in {"create", "grant", "claim"} => flow'[g].op = "assert"
               /\ step \in {"grant", "claim"} => edges'[flow'[g].edge].exists
               /\ step = "create" =>
                    /\ g \notin reverted' /\ flow'[g].pc # "ok"
                    /\ flow'[g].pc = "failed" => flow'[g].at = "create"
    <3>1. Pending(g, step) /\ flow'[g] = flow[g] /\ (g \in reverted' <=> g \in reverted)
      BY <2>2 DEF Untouched
    <3>2. flow[g].pc # "idle"
      BY <1>1, <3>1 DEF WriteInv, WritePC
    <3>. QED BY <1>1, <1>2, <3>1, <3>2 DEF WriteInv, ChainKept
  <2>. QED BY <2>1, <2>2 DEF WriteInv
<1>5. GrantInv(g)'
  <2>. SUFFICES ASSUME flow[g].pc \in {"announce", "claim", "confirm", "activate",
                                       "accept", "ok"}, flow[g].op = "assert"
                PROVE  /\ edges'[flow[g].edge].exists
                       /\ \/ flow[g].role \in edges'[flow[g].edge].held
                                              \cup removed'[flow[g].edge]
                          \/ g \in reverted'
    BY DEF GrantInv, Untouched
  <2>. QED BY <1>1, <1>2 DEF GrantInv, ChainKept, Untouched
<1>6. \A e \in Edges : ClaimOpen(g, e) => ClaimOpen(g, e)'
  BY DEF ClaimOpen, Untouched
<1>. QED BY <1>3, <1>4, <1>5, <1>6 DEF Kept

\* A step keeps the invariant if it does so for the actions it concerns, and
\* an edge without a claim is its creator's to claim.
LEMMA StepKeeps ==
  ASSUME IInv, NEW M \in SUBSET Flows, ChainKept, TypeOK', OneWrite', RejectInv',
         \A g \in Flows \ M : Untouched(g),
         \A f \in M : Kept(f)',
         \A f \in M, e \in Edges :
           ClaimOpen(f, e) /\ edges[e].exists =>
             ClaimOpen(f, e)' \/ "self" \in claims'[e],
         \A e \in Edges :
           edges'[e].exists /\ ~edges[e].exists /\ edges'[e].createdBy = Deployer =>
             \E f \in M : ClaimOpen(f, e)'
  PROVE  IInv'
<1>1. \A f \in Flows : Kept(f)'
  BY UntouchedKept
<1>2. ASSUME NEW e \in Edges, edges'[e].exists, edges'[e].createdBy = Deployer,
             "self" \notin claims'[e]
      PROVE  \E g \in Flows : ClaimOpen(g, e)'
  <2>1. CASE ~edges[e].exists
    BY <1>2, <2>1
  <2>2. CASE edges[e].exists
    <3>1. "self" \notin claims[e] /\ edges[e].createdBy = Deployer
      BY <1>2, <2>2 DEF ChainKept
    <3>2. PICK g \in Flows : ClaimOpen(g, e)
      BY <2>2, <3>1 DEF IInv, ClaimInv
    <3>3. CASE g \in M
      BY <1>2, <2>2, <3>2, <3>3
    <3>4. CASE g \notin M
      BY <3>2, <3>4, UntouchedKept
    <3>. QED BY <3>3, <3>4
  <2>. QED BY <2>1, <2>2
<1>3. \A e \in Edges : ClaimInv(e)' /\ RolesInv(e)'
  BY <1>2 DEF ClaimInv, ChainKept
<1>. QED BY <1>1, <1>3 DEF IInv, Kept

\* A step of one action, from one step to another.
LEMMA Moves ==
  ASSUME TypeOK, NEW f \in Flows, flow[f].pc # "idle", NEW pc \in PC \ {"idle"},
         flow' = At(f, pc)
  PROVE  /\ flow' \in [Flows -> Idle \cup Begun]
         /\ \A g \in Flows \ {f} : flow'[g] = flow[g]
         /\ flow'[f] \in Begun /\ flow[f] \in Begun
         /\ flow'[f].pc = pc
         /\ flow'[f].at = IF pc = "ok" THEN "idle" ELSE flow[f].pc
         /\ flow'[f].op = flow[f].op /\ flow'[f].edge = flow[f].edge
         /\ flow'[f].role = flow[f].role /\ flow'[f].owns = flow[f].owns
<1>1. flow[f] \in Begun /\ flow \in [Flows -> Idle \cup Begun]
  BY DEF TypeOK, Idle
<1>2. "idle" \in PC
  BY DEF PC
<1>. DEFINE y == [flow[f] EXCEPT !.at = IF pc = "ok" THEN "idle" ELSE flow[f].pc,
                                 !.pc = pc]
<1>3. flow' = [flow EXCEPT ![f] = y]
  BY <1>1 DEF At
<1>4. /\ y \in Begun /\ y.pc = pc /\ y.op = flow[f].op /\ y.edge = flow[f].edge
      /\ y.role = flow[f].role /\ y.owns = flow[f].owns
      /\ y.at = IF pc = "ok" THEN "idle" ELSE flow[f].pc
  BY <1>1, <1>2 DEF Begun
<1>. HIDE DEF y
<1>. QED BY <1>1, <1>3, <1>4

\* A settled rejection is kept: no confirmation begins, and the status of the
\* edges concerned stays.
LEMMA RejectKeeps ==
  ASSUME IInv,
         \A e \in settled' : /\ e \in Edges /\ edges'[e].exists
                             /\ edges'[e].status = "REJECTED"
                             /\ \A g \in Flows : ~ConfirmsEdge(g, e),
         \A g \in Flows, e \in settled' : ConfirmsEdge(g, e)' => ConfirmsEdge(g, e)
  PROVE  RejectInv'
BY DEF RejectInv

\* An action that a step does not concern confirms no more edges than before.
LEMMA UntouchedConfirms ==
  ASSUME NEW g \in Flows, Untouched(g), NEW e
  PROVE  ConfirmsEdge(g, e)' => ConfirmsEdge(g, e)
<1>1. "confirm" \in WritePC /\ "activate" \in WritePC
  BY DEF WritePC
<1>. QED BY <1>1 DEF ConfirmsEdge, Untouched, Active

\* Neither does one that goes on with what it does, or leaves it unfinished.
LEMMA MovedConfirms ==
  ASSUME NEW f \in Flows, NEW e, flow[f].pc # "idle",
         flow'[f].edge = flow[f].edge, flow'[f].op = flow[f].op,
         flow'[f].owns = flow[f].owns, Active(f)' => Active(f),
         \A step \in {"confirm", "activate"} : Pending(f, step)' =>
            Pending(f, step) \/ (Active(f) /\ Confirms(flow[f].op, flow[f].owns))
  PROVE  ConfirmsEdge(f, e)' => ConfirmsEdge(f, e)
BY DEF ConfirmsEdge

-----------------------------------------------------------------------------
(* The steps of an action that send nothing and are mined nowhere. *)

\* A new action keeps the invariant.
LEMMA BeginInv ==
  ASSUME IInv, NEW f \in Flows, NEW op \in Op, NEW e \in Edges,
         NEW r \in Roles \cup {NoRole}, NEW owns \in BOOLEAN,
         Begin(f, op, e, r, owns)
  PROVE  IInv'
<1>. DEFINE pc == CASE op = "assert" -> "look" [] OTHER -> op
            y == [ pc |-> pc, at |-> "idle", op |-> op, edge |-> e, role |-> r,
                   owns |-> owns ]
<1>1. /\ flow[f].pc = "idle" /\ flow' = [flow EXCEPT ![f] = y]
      /\ op = "assert" => r \in Roles
      /\ settled' = IF Confirms(op, owns) THEN settled \ {e} ELSE settled
      /\ UNCHANGED <<edges, claims, pool, late, removed, reverted, doubled>>
  BY DEF Begin, chainVars
<1>2. pc \in {"look", "confirm", "reject"} /\ (pc = "look" <=> op = "assert")
      /\ (pc # "look" => pc = op)
  BY DEF Op
<1>3. y \in Begun
  BY <1>2 DEF Begun, PC, WritePC
<1>4. y.pc = pc /\ y.op = op /\ y.edge = e /\ y.role = r /\ y.owns = owns
  OBVIOUS
<1>. HIDE DEF y, pc
<1>5. /\ flow' \in [Flows -> Idle \cup Begun] /\ flow'[f] = y
      /\ \A g \in Flows \ {f} : flow'[g] = flow[g]
  BY <1>1, <1>3 DEF IInv, TypeOK
<1>6. /\ ChainKept /\ OneWrite'
      /\ \A g \in Flows, step \in WritePC : Pending(g, step)' <=> Pending(g, step)
  BY <1>1, ChainSame DEF chainVars, OneWrite, IInv, Sent, Pending
<1>7. TypeOK'
  BY <1>1, <1>5 DEF IInv, TypeOK
<1>8. StepInv(f) /\ WriteInv(f)
  BY DEF IInv
<1>9. ~Pending(f, "confirm") /\ ~Pending(f, "activate")
      /\ \A step \in WritePC : ~Pending(f, step)
  BY <1>1, <1>8 DEF WriteInv, WritePC
<1>10. Kept(f)'
  <2>1. StepInv(f)'
    BY <1>1, <1>2, <1>4, <1>5, <1>8 DEF StepInv, Confirms
  <2>2. WriteInv(f)'
    BY <1>1, <1>6, <1>8, <1>9 DEF WriteInv
  <2>3. GrantInv(f)'
    BY <1>2, <1>4, <1>5 DEF GrantInv
  <2>. QED BY <2>1, <2>2, <2>3 DEF Kept
<1>11. \A g \in Flows \ {f} : Untouched(g)
  BY <1>1, <1>5, <1>6 DEF Untouched
<1>12. RejectInv'
  <2>1. ASSUME NEW g \in Flows, NEW d \in settled'
        PROVE  ~ConfirmsEdge(g, d)'
    <3>1. d \in settled /\ (Confirms(op, owns) => d # e) /\ ~ConfirmsEdge(g, d)
      BY <1>1, <2>1 DEF IInv, RejectInv
    <3>2. CASE g = f
      <4>1. ~Pending(f, "confirm")' /\ ~Pending(f, "activate")'
        BY <1>6, <1>9 DEF WritePC
      <4>. QED BY <1>4, <1>5, <3>1, <3>2, <4>1 DEF ConfirmsEdge
    <3>3. CASE g # f
      BY <1>11, <3>1, <3>3, UntouchedConfirms
    <3>. QED BY <3>2, <3>3
  <2>. QED BY <1>1, <2>1 DEF IInv, RejectInv
<1>13. \A d \in Edges : ~ClaimOpen(f, d)
  BY <1>1 DEF ClaimOpen
<1>14. \A d \in Edges : edges'[d] = edges[d]
  BY <1>1
<1>. QED
  <2>. DEFINE M == {f}
  <2>1. M \in SUBSET Flows
    OBVIOUS
  <2>2. /\ \A g \in Flows \ M : Untouched(g)
        /\ \A g \in M : Kept(g)'
        /\ \A g \in M, d \in Edges : ~ClaimOpen(g, d)
    BY <1>10, <1>11, <1>13
  <2>. HIDE DEF M
  <2>. QED BY <1>6, <1>7, <1>12, <1>14, <2>1, <2>2, StepKeeps

\* Looking at the chain, and announcing.
LEMMA QuietInv ==
  ASSUME IInv, NEW f \in Flows, Look(f) \/ Announce(f)
  PROVE  IInv'
<1>1. /\ flow[f].pc \in {"look", "announce"} /\ flow[f] \in Begun
      /\ UNCHANGED <<edges, claims, pool, late, settled, removed, reverted, doubled>>
  BY DEF IInv, TypeOK, Look, Announce, Idle, chainVars, history
<1>2. StepInv(f) /\ WriteInv(f) /\ GrantInv(f) /\ TypeOK
  BY DEF IInv
<1>3. \E pc \in PC \ {"idle"} :
        /\ flow' = At(f, pc)
        /\ pc \in {"create", "grant", "announce", "confirm", "ok"}
        /\ flow[f].pc = "look" => pc \in {"create", "grant", "announce"}
        /\ flow[f].pc = "announce" => pc \in {"confirm", "ok"}
        /\ pc = "grant" => edges[flow[f].edge].exists
        /\ pc = "confirm" => Confirms(flow[f].op, flow[f].owns)
        /\ pc = "announce" =>
             /\ edges[flow[f].edge].exists /\ flow[f].role \in edges[flow[f].edge].held
  <2>1. CASE Look(f)
    <3>. DEFINE e == edges[flow[f].edge]
                pc == IF ~e.exists THEN "create"
                      ELSE IF flow[f].role \in e.held THEN "announce" ELSE "grant"
    <3>1. flow[f].pc = "look" /\ flow' = At(f, pc) /\ pc \in PC \ {"idle"}
      BY <2>1 DEF Look, PC, WritePC
    <3>. QED BY <3>1
  <2>2. CASE Announce(f)
    <3>. DEFINE again == flow[f].op = "assert" /\ flow[f].owns
                         /\ flow[f].at \in {"look", "grant", "claim"}
                pc == IF again THEN "confirm" ELSE "ok"
    <3>1. flow[f].pc = "announce" /\ flow' = At(f, pc)
      BY <2>2 DEF Announce
    <3>2. pc \in {"confirm", "ok"} /\ pc \in PC \ {"idle"}
          /\ (pc = "confirm" => Confirms(flow[f].op, flow[f].owns))
      BY <1>1 DEF PC, WritePC, Confirms, Begun
    <3>. QED BY <3>1, <3>2
  <2>. QED BY <2>1, <2>2
<1>4. PICK pc \in PC \ {"idle"} :
        /\ flow' = At(f, pc)
        /\ pc \in {"create", "grant", "announce", "confirm", "ok"}
        /\ flow[f].pc = "look" => pc \in {"create", "grant", "announce"}
        /\ flow[f].pc = "announce" => pc \in {"confirm", "ok"}
        /\ pc = "grant" => edges[flow[f].edge].exists
        /\ pc = "confirm" => Confirms(flow[f].op, flow[f].owns)
        /\ pc = "announce" =>
             /\ edges[flow[f].edge].exists /\ flow[f].role \in edges[flow[f].edge].held
  BY <1>3
<1>5. /\ flow' \in [Flows -> Idle \cup Begun]
      /\ \A g \in Flows \ {f} : flow'[g] = flow[g]
      /\ flow'[f].pc = pc
      /\ flow'[f].op = flow[f].op /\ flow'[f].edge = flow[f].edge
      /\ flow'[f].role = flow[f].role /\ flow'[f].owns = flow[f].owns
  BY <1>1, <1>2, <1>4, Moves
<1>6. /\ ChainKept /\ OneWrite'
      /\ \A g \in Flows, step \in WritePC : Pending(g, step)' <=> Pending(g, step)
  BY <1>1, ChainSame DEF chainVars, OneWrite, IInv, Sent, Pending
<1>7. TypeOK'
  BY <1>1, <1>5 DEF IInv, TypeOK
<1>8. \A step \in WritePC : ~Pending(f, step)
  BY <1>1, <1>2 DEF WriteInv, WritePC
<1>9. Kept(f)'
  <2>1. StepInv(f)'
    BY <1>1, <1>2, <1>4, <1>5 DEF StepInv
  <2>2. WriteInv(f)'
    BY <1>1, <1>2, <1>6, <1>8 DEF WriteInv
  <2>3. GrantInv(f)'
    BY <1>1, <1>2, <1>4, <1>5 DEF GrantInv
  <2>. QED BY <2>1, <2>2, <2>3 DEF Kept
<1>10. \A g \in Flows \ {f} : Untouched(g)
  BY <1>1, <1>5, <1>6 DEF Untouched
<1>11. RejectInv'
  <2>1. Active(f) /\ "confirm" \in WritePC /\ "activate" \in WritePC
    BY <1>1 DEF Active, WritePC
  <2>2. ASSUME NEW e PROVE ConfirmsEdge(f, e)' => ConfirmsEdge(f, e)
    BY <1>1, <1>5, <1>6, <2>1, MovedConfirms
  <2>3. \A g \in Flows, e \in settled' : ConfirmsEdge(g, e)' => ConfirmsEdge(g, e)
    BY <1>10, <2>2, UntouchedConfirms
  <2>. QED BY <1>1, <2>3, RejectKeeps DEF IInv, RejectInv, TypeOK
<1>12. \A d \in Edges : ~ClaimOpen(f, d) /\ edges'[d] = edges[d]
  BY <1>1 DEF ClaimOpen
<1>. QED
  <2>. DEFINE M == {f}
  <2>1. /\ M \in SUBSET Flows
        /\ \A g \in Flows \ M : Untouched(g)
        /\ \A g \in M : Kept(g)'
        /\ \A g \in M, d \in Edges : ~ClaimOpen(g, d)
    BY <1>9, <1>10, <1>12
  <2>. HIDE DEF M
  <2>. QED BY <1>6, <1>7, <1>11, <1>12, <2>1, StepKeeps

-----------------------------------------------------------------------------
(* Asking for a write, and giving up on it. *)

\* The write of the step an action is at.
LEMMA OwnWrite ==
  ASSUME IInv, NEW f \in Flows, flow[f].pc \in WritePC
  PROVE  /\ Active(f) /\ flow[f] \in Begun
         /\ \A w \in late : w.flow # f
         /\ \A step \in WritePC : Pending(f, step) => step = flow[f].pc
         /\ flow[f].pc \in {"create", "grant", "claim"} => flow[f].op = "assert"
         /\ flow[f].pc \in {"grant", "claim"} => edges[flow[f].edge].exists
         /\ flow[f].pc = "create" => f \notin reverted
         /\ flow[f].pc \in {"confirm", "activate", "accept"} =>
              Confirms(flow[f].op, flow[f].owns)
<1>1. StepInv(f) /\ WriteInv(f) /\ GrantInv(f) /\ flow[f] \in Idle \cup Begun
  BY DEF IInv, TypeOK
<1>2. Active(f) /\ flow[f] \in Begun
  BY <1>1 DEF Active, Idle, WritePC
<1>3. \A w \in late : w.flow # f
  BY <1>1 DEF WriteInv, WritePC
<1>4. \A step \in WritePC : Pending(f, step) => step = flow[f].pc
  BY <1>1 DEF WriteInv, WritePC
<1>. QED BY <1>1, <1>2, <1>3, <1>4 DEF StepInv, GrantInv, WritePC

\* Sending the transaction of a step keeps the invariant.
LEMMA SubmitInv ==
  ASSUME IInv, NEW f \in Flows, Submit(f)
  PROVE  IInv'
<1>. DEFINE t == [flow |-> f, step |-> flow[f].pc, seen |-> edges[flow[f].edge]]
<1>1. /\ flow[f].pc \in WritePC /\ ~Sent(f) /\ pool' = Append(pool, t)
      /\ UNCHANGED <<edges, claims, flow, late, settled, removed, reverted, doubled>>
  BY DEF Submit, Send, Writing, chainVars, history
<1>2. /\ Active(f) /\ flow[f] \in Begun
      /\ \A w \in late : w.flow # f
      /\ \A step \in WritePC : Pending(f, step) => step = flow[f].pc
      /\ flow[f].pc \in {"create", "grant", "claim"} => flow[f].op = "assert"
      /\ flow[f].pc \in {"grant", "claim"} => edges[flow[f].edge].exists
      /\ flow[f].pc = "create" => f \notin reverted
      /\ flow[f].pc \in {"confirm", "activate", "accept"} =>
           Confirms(flow[f].op, flow[f].owns)
  BY <1>1, OwnWrite
<1>3. t \in Tx /\ t.flow = f /\ t.step = flow[f].pc
  BY <1>1, <1>2 DEF Tx, Begun, IInv, TypeOK
<1>. HIDE DEF t
<1>4. /\ OneWrite' /\ pool' \in Seq(Tx) /\ late' \subseteq Write
      /\ \A g \in Flows, step \in WritePC :
           Pending(g, step)' => \/ Pending(g, step)
                                \/ g = f /\ step = flow[f].pc
  <2>1. late' \subseteq late /\ ~Sent(t.flow) /\ \A w \in late' : w.flow # t.flow
    BY <1>1, <1>2, <1>3
  <2>. QED BY <1>1, <1>3, <2>1, Sends DEF IInv
<1>5. ChainKept /\ TypeOK'
  BY <1>1, <1>4, ChainSame DEF IInv, TypeOK, chainVars
<1>6. \A g \in Flows \ {f} : Untouched(g)
  BY <1>1, <1>4 DEF Untouched
<1>7. Kept(f)'
  <2>1. StepInv(f)' /\ GrantInv(f)'
    BY <1>1 DEF IInv, StepInv, GrantInv
  <2>2. WriteInv(f)'
    BY <1>1, <1>2, <1>4 DEF WriteInv, WritePC
  <2>. QED BY <2>1, <2>2 DEF Kept
<1>8. RejectInv'
  <2>1. ASSUME NEW e PROVE ConfirmsEdge(f, e)' => ConfirmsEdge(f, e)
    <3>1. \A step \in {"confirm", "activate"} : Pending(f, step)' =>
            Pending(f, step) \/ (Active(f) /\ Confirms(flow[f].op, flow[f].owns))
      BY <1>2, <1>4 DEF WritePC
    <3>2. flow[f].pc # "idle"
      BY <1>1 DEF WritePC
    <3>. QED BY <1>1, <1>2, <3>1, <3>2, MovedConfirms
  <2>2. \A g \in Flows, e \in settled' : ConfirmsEdge(g, e)' => ConfirmsEdge(g, e)
    BY <1>6, <2>1, UntouchedConfirms
  <2>. QED BY <1>1, <2>2, RejectKeeps DEF IInv, RejectInv, TypeOK
<1>9. \A e \in Edges : edges'[e] = edges[e] /\ (ClaimOpen(f, e) => ClaimOpen(f, e)')
  BY <1>1, <1>2, <1>4 DEF ClaimOpen, Active
<1>. QED
  <2>. DEFINE M == {f}
  <2>1. /\ M \in SUBSET Flows
        /\ \A g \in Flows \ M : Untouched(g)
        /\ \A g \in M : Kept(g)'
        /\ \A g \in M, e \in Edges : ClaimOpen(g, e) => ClaimOpen(g, e)'
    BY <1>6, <1>7, <1>9
  <2>. HIDE DEF M
  <2>. QED BY <1>4, <1>5, <1>8, <1>9, <2>1, StepKeeps

\* So does sending one that its action gave up on.
LEMMA SubmitLateInv ==
  ASSUME IInv, NEW w \in late, SubmitLate(w)
  PROVE  IInv'
<1>. DEFINE f == w.flow
            t == [flow |-> f, step |-> w.step, seen |-> edges[flow[f].edge]]
<1>1. /\ w \in Write /\ f \in Flows /\ w.step \in WritePC
      /\ pool' = Append(pool, t) /\ late' = late \ {w}
      /\ UNCHANGED <<edges, claims, flow, settled, removed, reverted, doubled>>
  BY DEF SubmitLate, Send, chainVars, history, IInv, TypeOK, Write
<1>2. Pending(f, w.step) /\ ~Sent(f) /\ flow[f].pc # "idle"
  <2>1. Pending(f, w.step) /\ ~Sent(f)
    BY DEF Pending, IInv, OneWrite
  <2>2. WriteInv(f)
    BY <1>1 DEF IInv
  <2>. QED BY <2>1, <2>2 DEF WriteInv
<1>3. t \in Tx /\ t.flow = f /\ t.step = w.step
  <2>1. flow[f].edge \in Edges
    BY <1>1, <1>2 DEF IInv, TypeOK, Idle, Begun
  <2>. QED BY <1>1, <2>1 DEF Tx, IInv, TypeOK
<1>. HIDE DEF t
<1>4. /\ OneWrite' /\ pool' \in Seq(Tx) /\ late' \subseteq Write
      /\ \A g \in Flows, step \in WritePC :
           Pending(g, step)' => \/ Pending(g, step)
                                \/ g = f /\ step = w.step
  <2>1. late' \subseteq late /\ ~Sent(t.flow) /\ \A v \in late' : v.flow # t.flow
    BY <1>1, <1>2, <1>3 DEF IInv, OneWrite
  <2>. QED BY <1>1, <1>3, <2>1, Sends DEF IInv
<1>5. ChainKept /\ TypeOK'
  BY <1>1, <1>4, ChainSame DEF IInv, TypeOK, chainVars
<1>6. \A g \in Flows : Untouched(g)
  BY <1>1, <1>2, <1>4 DEF Untouched
<1>7. RejectInv'
  <2>1. \A g \in Flows, e \in settled' : ConfirmsEdge(g, e)' => ConfirmsEdge(g, e)
    BY <1>6, UntouchedConfirms
  <2>. QED BY <1>1, <2>1, RejectKeeps DEF IInv, RejectInv, TypeOK
<1>8. \A e \in Edges : edges'[e] = edges[e]
  BY <1>1
<1>. QED
  <2>. DEFINE M == {}
  <2>1. M \in SUBSET Flows /\ \A g \in M : FALSE
    OBVIOUS
  <2>. HIDE DEF M
  <2>. QED BY <1>4, <1>5, <1>6, <1>7, <1>8, <2>1, StepKeeps

\* An action under way that ends, or fails, while the chain stays as it is and
\* no write comes up but the one it was at.
LEMMA EndInv ==
  ASSUME IInv, NEW f \in Flows, flow[f].pc \in WritePC \cup {"look"},
         flow' = At(f, Failure(f)),
         UNCHANGED <<edges, claims, settled, removed, reverted, doubled>>,
         OneWrite', pool' \in Seq(Tx), late' \subseteq Write,
         \A g \in Flows, step \in WritePC :
           Pending(g, step)' => Pending(g, step) \/ (g = f /\ step = flow[f].pc),
         \A w \in late' : w.flow # f => w \in late
  PROVE  IInv'
<1>1. /\ StepInv(f) /\ WriteInv(f) /\ GrantInv(f) /\ TypeOK
      /\ flow[f].pc # "idle" /\ Active(f) /\ flow[f] \in Begun
  BY DEF IInv, WritePC, Active, TypeOK, Idle
<1>2. /\ Failure(f) \in {"ok", "failed"} /\ Failure(f) \in PC \ {"idle"}
      /\ Failure(f) = "ok" => flow[f].pc \in {"confirm", "activate", "accept"}
  BY DEF Failure, PC
<1>3. /\ flow' \in [Flows -> Idle \cup Begun]
      /\ \A g \in Flows \ {f} : flow'[g] = flow[g]
      /\ flow'[f].pc = Failure(f)
      /\ flow'[f].at = IF Failure(f) = "ok" THEN "idle" ELSE flow[f].pc
      /\ flow'[f].op = flow[f].op /\ flow'[f].edge = flow[f].edge
      /\ flow'[f].role = flow[f].role /\ flow'[f].owns = flow[f].owns
  BY <1>1, <1>2, Moves
<1>4. \A step \in WritePC : Pending(f, step) => step = flow[f].pc
  BY <1>1, OwnWrite DEF WriteInv, WritePC
<1>5. ChainKept /\ TypeOK'
  BY <1>1, <1>3, ChainSame DEF TypeOK, chainVars
<1>6. \A g \in Flows \ {f} : Untouched(g)
  BY <1>3 DEF Untouched
<1>7. Kept(f)'
  <2>1. StepInv(f)'
    BY <1>1, <1>2, <1>3 DEF StepInv
  <2>2. WriteInv(f)'
    <3>1. ASSUME NEW step \in WritePC, Pending(f, step)'
          PROVE  step = flow[f].pc
      BY <1>4, <3>1
    <3>2. flow[f].pc \in WritePC =>
            /\ flow[f].pc \in {"create", "grant", "claim"} => flow[f].op = "assert"
            /\ flow[f].pc \in {"grant", "claim"} => edges[flow[f].edge].exists
            /\ flow[f].pc = "create" => f \notin reverted
      BY OwnWrite
    <3>. QED BY <1>2, <1>3, <3>1, <3>2 DEF WriteInv
  <2>3. GrantInv(f)'
    BY <1>1, <1>2, <1>3 DEF GrantInv
  <2>. QED BY <2>1, <2>2, <2>3 DEF Kept
<1>8. RejectInv'
  <2>1. ASSUME NEW e PROVE ConfirmsEdge(f, e)' => ConfirmsEdge(f, e)
    <3>1. \A step \in {"confirm", "activate"} : Pending(f, step)' =>
            Pending(f, step) \/ (Active(f) /\ Confirms(flow[f].op, flow[f].owns))
      BY <1>1 DEF WritePC, StepInv
    <3>. QED BY <1>1, <1>3, <3>1, MovedConfirms
  <2>2. \A g \in Flows, e \in settled' : ConfirmsEdge(g, e)' => ConfirmsEdge(g, e)
    BY <1>6, <2>1, UntouchedConfirms
  <2>. QED BY <2>2, RejectKeeps DEF IInv, RejectInv, TypeOK
<1>9. \A e \in Edges : edges'[e] = edges[e] /\ (ClaimOpen(f, e) => ClaimOpen(f, e)')
  <2>. SUFFICES ASSUME NEW e \in Edges, ClaimOpen(f, e) PROVE ClaimOpen(f, e)'
    OBVIOUS
  <2>1. flow[f].pc = "claim"
    BY <1>1 DEF ClaimOpen, WritePC
  <2>2. Failure(f) = "failed"
    BY <2>1 DEF Failure
  <2>. QED BY <1>3, <2>1, <2>2 DEF ClaimOpen
<1>. QED
  <2>. DEFINE M == {f}
  <2>1. /\ M \in SUBSET Flows
        /\ \A g \in Flows \ M : Untouched(g)
        /\ \A g \in M : Kept(g)'
        /\ \A g \in M, e \in Edges : ClaimOpen(g, e) => ClaimOpen(g, e)'
    BY <1>6, <1>7, <1>9
  <2>. HIDE DEF M
  <2>. QED BY <1>5, <1>8, <1>9, <2>1, StepKeeps

\* Giving up keeps the invariant, though the write may go on.
LEMMA GiveUpInv ==
  ASSUME IInv, NEW f \in Flows, GiveUp(f)
  PROVE  IInv'
<1>1. /\ flow[f].pc \in WritePC \cup {"look"} /\ flow' = At(f, Failure(f))
      /\ UNCHANGED <<edges, claims, pool, settled, removed, reverted, doubled>>
      /\ TypeOK /\ OneWrite
  BY DEF GiveUp, chainVars, history, IInv
<1>2. CASE late' = late
  <2>1. /\ OneWrite' /\ pool' \in Seq(Tx) /\ late' \subseteq Write
        /\ \A g \in Flows, step \in WritePC : Pending(g, step)' => Pending(g, step)
    BY <1>1, <1>2 DEF OneWrite, Sent, Pending, TypeOK
  <2>. QED BY <1>1, <1>2, <2>1, EndInv
<1>3. CASE Writing(f) /\ late' = late \cup {[flow |-> f, step |-> flow[f].pc]}
  <2>. DEFINE v == [flow |-> f, step |-> flow[f].pc]
  <2>1. flow[f].pc \in WritePC /\ ~Sent(f) /\ \A w \in late : w.flow # f
    BY <1>3, OwnWrite DEF Writing
  <2>2. v \in Write /\ v.flow = f /\ v.step = flow[f].pc /\ late' = late \cup {v}
    BY <1>3, <2>1 DEF Write
  <2>. HIDE DEF v
  <2>3. /\ OneWrite' /\ late' \subseteq Write
        /\ \A g \in Flows, step \in WritePC :
             Pending(g, step)' => Pending(g, step) \/ (g = v.flow /\ step = v.step)
    BY <1>1, <2>1, <2>2, BecomesLate
  <2>4. \A w \in late' : w.flow # f => w \in late
    BY <2>2
  <2>5. pool' \in Seq(Tx)
    BY <1>1 DEF TypeOK
  <2>. QED BY <1>1, <2>2, <2>3, <2>4, <2>5, EndInv
<1>. QED BY <1>2, <1>3 DEF GiveUp

-----------------------------------------------------------------------------
(* Transactions that are mined, dropped or sent by others. *)

\* One edge is written: the chain is kept if that edge is.
LEMMA EdgeKept ==
  ASSUME IInv, NEW e \in Edges, NEW y \in Edge,
         edges' = [edges EXCEPT ![e] = y], claims' = claims, y.exists,
         removed' \in [Edges -> SUBSET Roles], doubled' \subseteq Edges,
         \A d \in Edges \ {e} : removed'[d] = removed[d] /\ (d \in doubled' <=> d \in doubled),
         RolesHold(y, e \in doubled'),
         edges[e].exists =>
           /\ y.createdBy = edges[e].createdBy
           /\ edges[e].held \cup removed[e] \subseteq y.held \cup removed'[e]
  PROVE  /\ ChainKept
         /\ edges'[e] = y /\ \A d \in Edges \ {e} : edges'[d] = edges[d]
<1>1. /\ edges \in [Edges -> Edge \cup {NoEdge}]
      /\ claims \in [Edges -> SUBSET {"self", "object"}]
  BY DEF IInv, TypeOK
<1>2. /\ edges' \in [Edges -> Edge \cup {NoEdge}]
      /\ edges'[e] = y /\ \A d \in Edges \ {e} : edges'[d] = edges[d]
  BY <1>1
<1>3. ASSUME NEW d \in Edges PROVE RolesInv(d)'
  <2>1. CASE d = e
    BY <1>2, <2>1 DEF RolesInv
  <2>2. CASE d # e
    <3>1. RolesHold(edges[d], d \in doubled)
      BY DEF IInv, RolesInv
    <3>2. edges'[d] = edges[d] /\ (d \in doubled') = (d \in doubled)
      BY <1>2, <2>2
    <3>. QED BY <3>1, <3>2 DEF RolesInv
  <2>. QED BY <2>1, <2>2
<1>4. ASSUME NEW d \in Edges, edges[d].exists
      PROVE  /\ edges'[d].exists /\ edges'[d].createdBy = edges[d].createdBy
             /\ edges[d].held \cup removed[d] \subseteq edges'[d].held \cup removed'[d]
  <2>1. CASE d = e
    BY <1>2, <1>4, <2>1
  <2>2. CASE d # e
    <3>1. edges'[d] = edges[d] /\ removed'[d] = removed[d]
      BY <1>2, <2>2
    <3>. QED BY <1>4, <3>1
  <2>. QED BY <2>1, <2>2
<1>. QED BY <1>1, <1>2, <1>3, <1>4 DEF ChainKept

\* What a transaction that leaves the pool means for its action: it is sent no
\* more, and the action follows if it still waits.
LEMMA Answered ==
  ASSUME IInv, pool # << >>, NEW t, t = Head(pool), pool' = Tail(pool), late' = late,
         flow' = Resolved(t), reverted \subseteq reverted',
         reverted' \subseteq reverted \cup {t.flow}
  PROVE  LET f == t.flow
         IN  /\ t \in Tx /\ f \in Flows /\ t.step \in WritePC
             /\ OneWrite' /\ pool' \in Seq(Tx) /\ late' \subseteq Write
             /\ reverted' \subseteq Flows
             /\ flow' \in [Flows -> Idle \cup Begun]
             /\ Pending(f, t.step) /\ flow[f] \in Begun /\ flow[f].pc # "idle"
             /\ \A step \in WritePC : ~Pending(f, step)'
             /\ \A w \in late' : w.flow # f
             /\ \A g \in Flows \ {f} : Untouched(g)
             /\ flow'[f].op = flow[f].op /\ flow'[f].edge = flow[f].edge
             /\ flow'[f].role = flow[f].role /\ flow'[f].owns = flow[f].owns
             /\ flow[f].pc \in {t.step, "ok", "failed"}
             /\ flow[f].pc = t.step =>
                  flow'[f].pc = Follows(t.step) /\ flow'[f].at = t.step
             /\ flow[f].pc # t.step => flow'[f] = flow[f]
<1>. DEFINE f == t.flow
            s == t.step
<1>0. TypeOK /\ OneWrite
  BY DEF IInv
<1>1. PoolShrinks(pool', 1) /\ 1 \in DOMAIN pool /\ t = pool[1]
  BY <1>0, TailShrinks DEF TypeOK
<1>2. t \in Tx /\ f \in Flows /\ s \in WritePC
  <2>1. pool \in Seq(Tx)
    BY <1>0 DEF TypeOK
  <2>2. t \in Tx
    BY <1>1, <2>1
  <2>. QED BY <2>2 DEF Tx
<1>3. /\ OneWrite' /\ pool' \in Seq(Tx)
      /\ \A g \in Flows, step \in WritePC :
           Pending(g, step)' => Pending(g, step) /\ g # f
  BY <1>0, <1>1, Shrinks
<1>4. Pending(f, s) /\ Sent(f)
  BY <1>1 DEF Pending, Sent, ToSet
<1>5. WriteInv(f)
  BY <1>2 DEF IInv
<1>6. flow[f].pc \in {s, "ok", "failed"} /\ flow[f].pc # "idle" /\ flow[f] \in Begun
  BY <1>0, <1>2, <1>4, <1>5 DEF WriteInv, WritePC, TypeOK, Idle
<1>7. \A w \in late' : w.flow # f
  BY <1>0, <1>4 DEF OneWrite
<1>8. /\ flow' \in [Flows -> Idle \cup Begun]
      /\ \A g \in Flows \ {f} : flow'[g] = flow[g]
      /\ flow'[f].op = flow[f].op /\ flow'[f].edge = flow[f].edge
      /\ flow'[f].role = flow[f].role /\ flow'[f].owns = flow[f].owns
      /\ flow[f].pc = s => flow'[f].pc = Follows(s) /\ flow'[f].at = s
      /\ flow[f].pc # s => flow'[f] = flow[f]
  <2>1. CASE flow[f].pc = s
    <3>1. flow' = At(f, Follows(s))
      BY <2>1 DEF Resolved
    <3>2. Follows(s) \in PC \ {"idle"} /\ Follows(s) # "ok"
      BY DEF Follows, PC, WritePC
    <3>. HIDE DEF f, s
    <3>. QED BY <1>0, <1>2, <1>6, <2>1, <3>1, <3>2, Moves
  <2>2. CASE flow[f].pc # s
    BY <1>0, <2>2 DEF Resolved, TypeOK
  <2>. QED BY <2>1, <2>2
<1>9. \A g \in Flows \ {f} : Untouched(g)
  BY <1>3, <1>8 DEF Untouched
<1>10. late' \subseteq Write /\ reverted' \subseteq Flows
  BY <1>0, <1>2 DEF TypeOK
<1>. QED BY <1>2, <1>3, <1>4, <1>6, <1>7, <1>8, <1>9, <1>10

\* An action keeps what is known of it when its transaction is mined, if a
\* transaction for the edge's role leaves the role there, or reverted.
LEMMA AnsweredKept ==
  ASSUME IInv, pool # << >>, NEW t, t = Head(pool), pool' = Tail(pool), late' = late,
         flow' = Resolved(t), reverted \subseteq reverted',
         reverted' \subseteq reverted \cup {t.flow}, ChainKept,
         t.step \in {"create", "grant"} =>
           /\ edges'[flow[t.flow].edge].exists
           /\ \/ flow[t.flow].role \in edges'[flow[t.flow].edge].held
              \/ t.flow \in reverted'
  PROVE  Kept(t.flow)'
<1>. DEFINE f == t.flow
            s == t.step
<1>1. /\ f \in Flows /\ s \in WritePC /\ Pending(f, s) /\ flow[f].pc # "idle"
      /\ flow[f] \in Begun
      /\ \A step \in WritePC : ~Pending(f, step)'
      /\ \A w \in late' : w.flow # f
      /\ flow'[f].op = flow[f].op /\ flow'[f].edge = flow[f].edge
      /\ flow'[f].role = flow[f].role /\ flow'[f].owns = flow[f].owns
      /\ flow[f].pc \in {s, "ok", "failed"}
      /\ flow[f].pc = s => flow'[f].pc = Follows(s)
      /\ flow[f].pc # s => flow'[f] = flow[f]
  BY Answered
<1>2. flow[f].edge \in Edges /\ StepInv(f) /\ WriteInv(f) /\ GrantInv(f)
  BY <1>1 DEF Begun, IInv
<1>. HIDE DEF f, s
<1>3. /\ Follows(s) \in {"claim", "activate", "accept", "announce"}
      /\ Follows(s) = "claim" => s = "create"
      /\ Follows(s) = "activate" => s = "confirm"
      /\ Follows(s) = "accept" => s = "activate"
      /\ Follows(s) = "announce" => s \in {"grant", "claim", "accept", "reject"}
  BY <1>1 DEF Follows, WritePC
<1>4. StepInv(f)'
  BY <1>1, <1>2, <1>3 DEF StepInv, WriteInv
<1>5. WriteInv(f)'
  BY <1>1 DEF WriteInv
<1>6. GrantInv(f)'
  <2>. SUFFICES ASSUME flow'[f].pc \in {"announce", "claim", "confirm", "activate",
                                        "accept", "ok"}, flow[f].op = "assert"
                PROVE  /\ edges'[flow[f].edge].exists
                       /\ \/ flow[f].role \in edges'[flow[f].edge].held
                                              \cup removed'[flow[f].edge]
                          \/ f \in reverted'
    BY <1>1 DEF GrantInv
  <2>1. CASE flow[f].pc = s /\ s \in {"create", "grant"}
    BY <2>1 DEF f, s
  <2>2. CASE flow[f].pc \in {"claim", "confirm", "activate", "accept", "ok"}
    BY <1>2, <2>2 DEF GrantInv, ChainKept
  <2>3. flow[f].pc # "reject" /\ flow[f].pc # "failed"
    BY <1>1, <1>2 DEF StepInv, WritePC
  <2>. QED BY <1>1, <2>1, <2>2, <2>3 DEF WritePC
<1>. QED BY <1>4, <1>5, <1>6 DEF Kept, f

\* No action confirms more edges when a transaction is mined.
LEMMA AnsweredConfirms ==
  ASSUME IInv, pool # << >>, NEW t, t = Head(pool), pool' = Tail(pool), late' = late,
         flow' = Resolved(t), reverted \subseteq reverted',
         reverted' \subseteq reverted \cup {t.flow}
  PROVE  \A g \in Flows, e \in Edges : ConfirmsEdge(g, e)' => ConfirmsEdge(g, e)
<1>. DEFINE f == t.flow
            s == t.step
<1>1. /\ f \in Flows /\ s \in WritePC /\ flow[f].pc # "idle"
      /\ \A step \in WritePC : ~Pending(f, step)'
      /\ \A g \in Flows \ {f} : Untouched(g)
      /\ flow'[f].op = flow[f].op /\ flow'[f].edge = flow[f].edge
      /\ flow'[f].owns = flow[f].owns
      /\ flow[f].pc \in {s, "ok", "failed"}
      /\ flow[f].pc # s => flow'[f] = flow[f]
  BY Answered
<1>. HIDE DEF f, s
<1>2. Active(f)' => Active(f)
  BY <1>1 DEF Active, WritePC
<1>3. ~Pending(f, "confirm")' /\ ~Pending(f, "activate")'
  BY <1>1 DEF WritePC
<1>4. ASSUME NEW e PROVE ConfirmsEdge(f, e)' => ConfirmsEdge(f, e)
  BY <1>1, <1>2, <1>3, MovedConfirms
<1>. QED BY <1>1, <1>4, UntouchedConfirms

\* A transaction that is mined and reverts leaves the chain alone; its action
\* goes on as if it had not.
LEMMA RevertingInv ==
  ASSUME IInv, pool # << >>, NEW t, t = Head(pool), pool' = Tail(pool),
         MinedReverting(t)
  PROVE  IInv'
<1>. DEFINE f == t.flow
            s == t.step
<1>1. /\ \/ ~Succeeds(f, s)
         \/ s \in {"grant"} \cup DOMAIN Sets
      /\ flow' = Resolved(t)
      /\ reverted' = IF s \in {"create", "grant"} THEN reverted \cup {f} ELSE reverted
      /\ UNCHANGED <<edges, claims, late, settled, removed, doubled>>
  BY DEF MinedReverting, chainVars
<1>2. reverted \subseteq reverted' /\ reverted' \subseteq reverted \cup {f} /\ late' = late
  BY <1>1
<1>3. /\ t \in Tx /\ f \in Flows /\ s \in WritePC
      /\ OneWrite' /\ pool' \in Seq(Tx) /\ late' \subseteq Write /\ reverted' \subseteq Flows
      /\ flow' \in [Flows -> Idle \cup Begun]
      /\ Pending(f, s) /\ flow[f] \in Begun
      /\ \A g \in Flows \ {f} : Untouched(g)
  BY <1>1, <1>2, Answered
<1>4. ChainKept /\ TypeOK'
  BY <1>1, <1>3, ChainSame DEF IInv, TypeOK, chainVars
<1>5. flow[f].edge \in Edges /\ WriteInv(f)
  BY <1>3 DEF Begun, IInv
<1>6. s \in {"create", "grant"} => edges[flow[f].edge].exists
  <2>1. s = "grant" => edges[flow[f].edge].exists
    BY <1>3, <1>5 DEF WriteInv
  <2>2. s = "create" => ~Succeeds(f, s)
    BY <1>1 DEF Sets
  <2>3. CanCreate(edges[flow[f].edge]) => Succeeds(f, "create")
    BY DEF Succeeds, Sets, Asserts
  <2>4. s = "create" => edges[flow[f].edge].exists
    BY <2>2, <2>3 DEF CanCreate
  <2>. QED BY <2>1, <2>4
<1>7. Kept(f)'
  <2>1. s \in {"create", "grant"} => /\ edges'[flow[f].edge].exists
                                     /\ f \in reverted'
    BY <1>1, <1>6
  <2>. QED BY <1>1, <1>2, <1>4, <2>1, AnsweredKept
<1>8. RejectInv'
  <2>1. \A g \in Flows, e \in Edges : ConfirmsEdge(g, e)' => ConfirmsEdge(g, e)
    BY <1>1, <1>2, AnsweredConfirms
  <2>. QED BY <1>1, <2>1, RejectKeeps DEF IInv, RejectInv, TypeOK
<1>9. ASSUME NEW e \in Edges, edges[e].exists, ClaimOpen(f, e) PROVE FALSE
  <2>1. s = "claim" /\ flow[f].edge = e
    BY <1>3, <1>9 DEF ClaimOpen
  <2>2. Succeeds(f, s)
    BY <1>9, <2>1 DEF Succeeds, Sets, Asserts
  <2>. QED BY <1>1, <2>1, <2>2 DEF Sets
<1>10. \A e \in Edges : edges'[e] = edges[e]
  BY <1>1
<1>. QED
  <2>. DEFINE M == {f}
  <2>1. /\ M \in SUBSET Flows
        /\ \A g \in Flows \ M : Untouched(g)
        /\ \A g \in M : Kept(g)'
        /\ \A g \in M, e \in Edges : ~(edges[e].exists /\ ClaimOpen(g, e))
    BY <1>3, <1>7, <1>9
  <2>. HIDE DEF M
  <2>. QED BY <1>3, <1>4, <1>8, <1>10, <2>1, StepKeeps

\* What a transaction that succeeds does to the chain.
LEMMA Effects ==
  ASSUME IInv, NEW f \in Flows, NEW s \in WritePC, flow[f] \in Begun, Pending(f, s),
         Succeeds(f, s), Effect(f, s), UNCHANGED <<removed, doubled>>
  PROVE  LET e == flow[f].edge
         IN  /\ ChainKept /\ e \in Edges
             /\ \A d \in Edges \ {e} : edges'[d] = edges[d]
             /\ edges'[e].exists
             /\ ~edges[e].exists => s = "create"
             /\ s = "create" => ~edges[e].exists
             /\ s \in {"create", "grant"} => flow[f].role \in edges'[e].held
             /\ s = "claim" => "self" \in claims'[e]
             /\ s = "reject" => edges'[e].status = "REJECTED"
             /\ s \notin {"create", "confirm", "activate", "reject"} =>
                  edges'[e].status = edges[e].status
<1>. DEFINE e == flow[f].edge
            r == flow[f].role
<1>1. /\ e \in Edges /\ TypeOK /\ StepInv(f) /\ WriteInv(f) /\ RolesHold(edges[e], e \in doubled)
      /\ removed \in [Edges -> SUBSET Roles] /\ doubled \subseteq Edges
      /\ removed' = removed /\ doubled' = doubled
  BY DEF Begun, IInv, TypeOK, RolesInv
<1>2. CASE s = "create"
  <2>1. CanCreate(edges[e]) /\ Becomes(e, Created(Deployer, <<r>>))
    BY <1>2 DEF Succeeds, Effect, Sets, Asserts
  <2>2. flow[f].op = "assert" /\ flow[f].pc # "idle"
    BY <1>1, <1>2 DEF WriteInv
  <2>3. r \in Roles
    BY <1>1, <2>2 DEF StepInv
  <2>. DEFINE y == Created(Deployer, <<r>>)
  <2>4. <<r>> \in Seq(Roles) /\ IsInjective(<<r>>) /\ r \in ToSet(<<r>>)
    BY <2>3 DEF IsInjective, ToSet
  <2>6. y \in Edge /\ y.exists /\ r \in y.held /\ RolesHold(y, e \in doubled)
    <3>1. Deployer \in Others \cup {Deployer}
      OBVIOUS
    <3>. QED BY <2>4, <3>1, Creates
  <2>7. ~edges[e].exists /\ edges' = [edges EXCEPT ![e] = y] /\ claims' = claims
    BY <2>1 DEF CanCreate, Becomes
  <2>. HIDE DEF y
  <2>8. /\ ChainKept /\ edges'[e] = y /\ \A d \in Edges \ {e} : edges'[d] = edges[d]
    BY <1>1, <2>6, <2>7, EdgeKept
  <2>. QED BY <1>1, <1>2, <2>6, <2>7, <2>8
<1>3. CASE s = "grant"
  <2>1. CanAddRole(edges[e], Deployer, r) /\ Becomes(e, AddRole(edges[e], r))
    BY <1>3 DEF Succeeds, Effect, Sets, Asserts
  <2>2. flow[f].op = "assert" /\ flow[f].pc # "idle"
    BY <1>1, <1>3 DEF WriteInv
  <2>3. r \in Roles
    BY <1>1, <2>2 DEF StepInv
  <2>4. edges[e].exists /\ r \notin edges[e].held
    BY <2>1 DEF CanAddRole
  <2>5. edges[e] \in Edge
    BY <1>1, <2>4, ExistingEdge
  <2>. DEFINE x == edges[e]
              y == AddRole(x, r)
  <2>6. /\ y \in Edge /\ y.exists /\ y.held = x.held \cup {r}
        /\ RolesHold(y, e \in doubled) /\ y.status = x.status /\ y.createdBy = x.createdBy
    BY <1>1, <2>3, <2>4, <2>5, Adds
  <2>7. edges' = [edges EXCEPT ![e] = y] /\ claims' = claims
    BY <2>1 DEF Becomes
  <2>. HIDE DEF y
  <2>8. /\ ChainKept /\ edges'[e] = y /\ \A d \in Edges \ {e} : edges'[d] = edges[d]
    <3>1. edges[e].held \cup removed[e] \subseteq y.held \cup removed'[e]
      BY <1>1, <2>6
    <3>. QED BY <1>1, <2>6, <2>7, <3>1, EdgeKept
  <2>. QED BY <1>1, <1>3, <2>4, <2>6, <2>8
<1>4. CASE s \in DOMAIN Sets
  <2>1. CanSetStatus(edges[e], Deployer) /\ Becomes(e, SetStatus(edges[e], Sets[s]))
    BY <1>4 DEF Succeeds, Effect, Sets, Asserts
  <2>2. edges[e].exists /\ Sets[s] \in Status
    BY <1>4, <2>1 DEF CanSetStatus, Sets, Status
  <2>3. edges[e] \in Edge
    BY <1>1, <2>2, ExistingEdge
  <2>. DEFINE x == edges[e]
              y == SetStatus(x, Sets[s])
  <2>4. /\ y \in Edge /\ y.exists /\ y.held = x.held
        /\ RolesHold(y, e \in doubled) /\ y.status = Sets[s] /\ y.createdBy = x.createdBy
    BY <1>1, <2>2, <2>3, Statuses
  <2>5. edges' = [edges EXCEPT ![e] = y] /\ claims' = claims
    BY <2>1 DEF Becomes
  <2>. HIDE DEF y
  <2>6. /\ ChainKept /\ edges'[e] = y /\ \A d \in Edges \ {e} : edges'[d] = edges[d]
    <3>1. edges[e].held \cup removed[e] \subseteq y.held \cup removed'[e]
      BY <1>1, <2>4
    <3>. QED BY <1>1, <2>4, <2>5, <3>1, EdgeKept
  <2>7. s \in {"confirm", "activate", "reject"} /\ (s = "reject" => Sets[s] = "REJECTED")
    BY <1>4 DEF Sets
  <2>. QED BY <1>1, <2>2, <2>4, <2>6, <2>7
<1>5. CASE s \in DOMAIN Asserts
  <2>1. /\ edges[e].exists /\ edges' = edges
        /\ claims' = [claims EXCEPT ![e] = @ \cup {Asserts[s]}]
        /\ s \in {"claim", "accept"} /\ (s = "claim" => Asserts[s] = "self")
        /\ Asserts[s] \in {"self", "object"}
    <3>1. s \in {"claim", "accept"} /\ s \in DOMAIN Asserts
      BY <1>5 DEF Asserts
    <3>2. s \notin {"create", "grant"} /\ s \notin DOMAIN Sets
      BY <3>1 DEF Sets
    <3>3. edges[e].exists
      BY <3>1, <3>2 DEF Succeeds
    <3>4. /\ claims' = [claims EXCEPT ![e] = @ \cup {Asserts[s]}] /\ edges' = edges
      BY <3>1, <3>2 DEF Effect
    <3>. QED BY <3>1, <3>3, <3>4 DEF Asserts
  <2>2. /\ claims' \in [Edges -> SUBSET {"self", "object"}]
        /\ \A d \in Edges : claims[d] \subseteq claims'[d]
        /\ Asserts[s] \in claims'[e]
    BY <1>1, <2>1 DEF TypeOK
  <2>3. ChainKept
    <3>1. edges \in [Edges -> Edge \cup {NoEdge}] /\ \A d \in Edges : RolesInv(d)
      BY <1>1 DEF TypeOK, IInv
    <3>. QED BY <1>1, <2>1, <2>2, <3>1 DEF ChainKept, RolesInv
  <2>. QED BY <1>1, <2>1, <2>2, <2>3
<1>. QED BY <1>2, <1>3, <1>4, <1>5 DEF WritePC, Sets, Asserts

\* A transaction that is mined and succeeds.
LEMMA MinedInv ==
  ASSUME IInv, pool # << >>, NEW t, t = Head(pool), pool' = Tail(pool), Mined(t)
  PROVE  IInv'
<1>. DEFINE f == t.flow
            s == t.step
            e == flow[f].edge
<1>1. /\ Succeeds(f, s) /\ Effect(f, s) /\ Settle(f, s) /\ flow' = Resolved(t)
      /\ UNCHANGED <<late, removed, reverted, doubled>>
  BY DEF Mined
<1>2. reverted \subseteq reverted' /\ reverted' \subseteq reverted \cup {f} /\ late' = late
  BY <1>1
<1>3. /\ t \in Tx /\ f \in Flows /\ s \in WritePC
      /\ OneWrite' /\ pool' \in Seq(Tx) /\ late' \subseteq Write /\ reverted' \subseteq Flows
      /\ flow' \in [Flows -> Idle \cup Begun]
      /\ Pending(f, s) /\ flow[f] \in Begun /\ flow[f].pc # "idle"
      /\ \A step \in WritePC : ~Pending(f, step)'
      /\ \A g \in Flows \ {f} : Untouched(g)
      /\ flow'[f].op = flow[f].op /\ flow'[f].edge = flow[f].edge
      /\ flow[f].pc \in {s, "ok", "failed"}
      /\ flow[f].pc = s => flow'[f].pc = Follows(s)
      /\ flow[f].pc # s => flow'[f] = flow[f]
  BY <1>1, <1>2, Answered
<1>4. /\ ChainKept /\ e \in Edges
      /\ \A d \in Edges \ {e} : edges'[d] = edges[d]
      /\ edges'[e].exists
      /\ ~edges[e].exists => s = "create"
      /\ s = "create" => ~edges[e].exists
      /\ s \in {"create", "grant"} => flow[f].role \in edges'[e].held
      /\ s = "claim" => "self" \in claims'[e]
      /\ s = "reject" => edges'[e].status = "REJECTED"
      /\ s \notin {"create", "confirm", "activate", "reject"} =>
           edges'[e].status = edges[e].status
  BY <1>1, <1>3, Effects
<1>5. settled' = IF s = "reject" /\ ~\E g \in Flows : ConfirmsEdge(g, e)
                   THEN settled \cup {e} ELSE settled
  BY <1>1 DEF Settle
<1>6. TypeOK'
  BY <1>1, <1>3, <1>4, <1>5 DEF IInv, TypeOK, ChainKept
<1>7. Kept(f)'
  BY <1>1, <1>2, <1>4, AnsweredKept
<1>. HIDE DEF f, s, e
<1>8. RejectInv'
  <2>1. \A g \in Flows, d \in Edges : ConfirmsEdge(g, d)' => ConfirmsEdge(g, d)
    BY <1>1, <1>2, AnsweredConfirms DEF f
  <2>2. ASSUME NEW d \in settled'
        PROVE  /\ d \in Edges /\ edges'[d].exists /\ edges'[d].status = "REJECTED"
               /\ \A g \in Flows : ~ConfirmsEdge(g, d)
    <3>1. CASE d \in settled
      <4>1. /\ d \in Edges /\ edges[d].exists /\ edges[d].status = "REJECTED"
            /\ \A g \in Flows : ~ConfirmsEdge(g, d)
        BY <3>1 DEF IInv, TypeOK, RejectInv
      <4>2. d = e => s \notin {"create", "confirm", "activate"}
        <5>1. d = e => ~Pending(f, "confirm") /\ ~Pending(f, "activate")
          BY <1>3, <4>1 DEF ConfirmsEdge, e
        <5>. QED BY <1>3, <1>4, <4>1, <5>1
      <4>. QED BY <1>4, <4>1, <4>2
    <3>2. CASE d \notin settled
      <4>1. d = e /\ s = "reject" /\ \A g \in Flows : ~ConfirmsEdge(g, e)
        BY <1>5, <2>2, <3>2
      <4>. QED BY <1>4, <4>1
    <3>. QED BY <3>1, <3>2
  <2>. QED BY <2>1, <2>2, RejectKeeps
<1>9. ASSUME NEW d \in Edges, edges[d].exists, ClaimOpen(f, d)
      PROVE  "self" \in claims'[d]
  <2>1. s = "claim" /\ d = e
    BY <1>3, <1>9 DEF ClaimOpen, e
  <2>. QED BY <1>4, <2>1
<1>10. ASSUME NEW d \in Edges, edges'[d].exists, ~edges[d].exists
       PROVE  ClaimOpen(f, d)'
  <2>1. d = e /\ s = "create"
    BY <1>4, <1>10
  <2>2. WriteInv(f)
    BY <1>3 DEF IInv
  <2>3. /\ f \notin reverted /\ flow[f].pc # "ok"
        /\ flow[f].pc = "failed" => flow[f].at = "create"
    BY <1>3, <2>1, <2>2 DEF WriteInv
  <2>4. CASE flow[f].pc = s
    BY <1>1, <1>3, <2>1, <2>3, <2>4 DEF ClaimOpen, Follows, e
  <2>5. CASE flow[f].pc # s
    BY <1>1, <1>3, <2>1, <2>3, <2>5 DEF ClaimOpen, e
  <2>. QED BY <2>4, <2>5
<1>. QED
  <2>. DEFINE M == {f}
  <2>1. /\ M \in SUBSET Flows
        /\ \A g \in Flows \ M : Untouched(g)
        /\ \A g \in M : Kept(g)'
        /\ \A g \in M, d \in Edges : edges[d].exists /\ ClaimOpen(g, d) => "self" \in claims'[d]
        /\ \A d \in Edges : edges'[d].exists /\ ~edges[d].exists => \E g \in M : ClaimOpen(g, d)'
    BY <1>3, <1>7, <1>9, <1>10
  <2>. HIDE DEF M
  <2>. QED BY <1>3, <1>4, <1>6, <1>8, <2>1, StepKeeps

\* Mining the first transaction of the pool keeps the invariant.
LEMMA MineInv ==
  ASSUME IInv, Mine
  PROVE  IInv'
BY MinedInv, RevertingInv DEF Mine

\* So does dropping any of them.
LEMMA DropInv ==
  ASSUME IInv, NEW k \in DOMAIN pool, Drop(k)
  PROVE  IInv'
<1>. DEFINE t == pool[k]
            f == t.flow
<1>1. /\ pool' = RemoveAt(pool, k)
      /\ flow' = IF flow[f].pc = t.step THEN At(f, Failure(f)) ELSE flow
      /\ UNCHANGED <<edges, claims, late, settled, removed, reverted, doubled>>
      /\ TypeOK /\ OneWrite
  BY DEF Drop, chainVars, history, IInv
<1>2. PoolShrinks(pool', k)
  BY <1>1, RemoveShrinks DEF TypeOK
<1>3. /\ OneWrite' /\ pool' \in Seq(Tx) /\ late' \subseteq Write
      /\ \A g \in Flows, step \in WritePC : Pending(g, step)' => Pending(g, step)
  BY <1>1, <1>2, Shrinks DEF TypeOK
<1>4. f \in Flows /\ t.step \in WritePC
  <2>1. pool \in Seq(Tx)
    BY <1>1 DEF TypeOK
  <2>2. t \in Tx
    BY <2>1
  <2>. HIDE DEF t
  <2>. QED BY <2>2 DEF Tx
<1>. HIDE DEF f, t
<1>5. CASE flow[f].pc = t.step
  <2>1. /\ flow[f].pc \in WritePC \cup {"look"} /\ flow' = At(f, Failure(f))
        /\ \A w \in late' : w.flow # f => w \in late
    BY <1>1, <1>4, <1>5
  <2>. QED BY <1>1, <1>3, <1>4, <2>1, EndInv
<1>6. CASE flow[f].pc # t.step
  <2>1. flow' = flow
    BY <1>1, <1>6
  <2>2. \A g \in Flows : Untouched(g)
    BY <1>1, <1>3, <2>1 DEF Untouched
  <2>3. ChainKept /\ TypeOK'
    BY <1>1, <1>3, <2>1, ChainSame DEF TypeOK, chainVars
  <2>4. RejectInv'
    <3>1. \A g \in Flows, e \in settled' : ConfirmsEdge(g, e)' => ConfirmsEdge(g, e)
      BY <2>2, UntouchedConfirms
    <3>. QED BY <1>1, <3>1, RejectKeeps DEF IInv, RejectInv, TypeOK
  <2>5. \A e \in Edges : edges'[e] = edges[e]
    BY <1>1
  <2>. DEFINE M == {}
  <2>6. M \in SUBSET Flows /\ \A g \in M : FALSE
    OBVIOUS
  <2>. HIDE DEF M
  <2>. QED BY <1>3, <2>2, <2>3, <2>4, <2>5, <2>6, StepKeeps
<1>. QED BY <1>5, <1>6

\* What a transaction of somebody else does to its edge.
LEMMA PartyEffects ==
  ASSUME IInv, NEW e \in Edges, NEW c \in Others, PartyTx(e, c)
  PROVE  /\ ChainKept
         /\ \A d \in Edges \ {e} : edges'[d] = edges[d]
         /\ ~edges[e].exists => edges'[e].createdBy = c
<1>1. /\ TypeOK /\ RolesHold(edges[e], e \in doubled)
      /\ removed \in [Edges -> SUBSET Roles] /\ doubled \subseteq Edges
  BY DEF IInv, TypeOK, RolesInv
<1>. DEFINE Goal == /\ ChainKept
                    /\ \A d \in Edges \ {e} : edges'[d] = edges[d]
                    /\ ~edges[e].exists => edges'[e].createdBy = c
<1>2. ASSUME NEW r \in Roles, CanAddRole(edges[e], c, r),
             Becomes(e, AddRole(edges[e], r)), removed' = removed, doubled' = doubled
      PROVE  Goal
  <2>1. edges[e].exists /\ r \notin edges[e].held
    BY <1>2 DEF CanAddRole
  <2>2. edges[e] \in Edge
    BY <1>1, <2>1, ExistingEdge
  <2>. DEFINE x == edges[e]
              y == AddRole(x, r)
  <2>3. /\ y \in Edge /\ y.exists /\ y.held = x.held \cup {r}
        /\ RolesHold(y, e \in doubled) /\ y.createdBy = x.createdBy
    BY <1>1, <2>1, <2>2, Adds
  <2>4. edges' = [edges EXCEPT ![e] = y] /\ claims' = claims
    BY <1>2 DEF Becomes
  <2>. HIDE DEF y
  <2>5. edges[e].held \cup removed[e] \subseteq y.held \cup removed'[e]
    BY <1>2, <2>3
  <2>6. /\ ChainKept /\ edges'[e] = y /\ \A d \in Edges \ {e} : edges'[d] = edges[d]
    BY <1>1, <1>2, <2>3, <2>4, <2>5, EdgeKept
  <2>. QED BY <2>1, <2>6
<1>3. ASSUME NEW r \in Roles, CanRemoveRole(edges[e], c, r),
             Becomes(e, RemoveRole(edges[e], r)),
             removed' = [removed EXCEPT ![e] = @ \cup {r}], doubled' = doubled
      PROVE  Goal
  <2>1. edges[e].exists /\ r \in edges[e].held
    BY <1>3 DEF CanRemoveRole
  <2>2. edges[e] \in Edge
    BY <1>1, <2>1, ExistingEdge
  <2>. DEFINE x == edges[e]
              y == RemoveRole(x, r)
  <2>3. /\ y \in Edge /\ y.exists /\ y.held = x.held \ {r}
        /\ RolesHold(y, e \in doubled) /\ y.createdBy = x.createdBy
    BY <1>1, <2>1, <2>2, Removes
  <2>4. edges' = [edges EXCEPT ![e] = y] /\ claims' = claims
    BY <1>3 DEF Becomes
  <2>. HIDE DEF y
  <2>5. /\ removed' \in [Edges -> SUBSET Roles] /\ removed'[e] = removed[e] \cup {r}
        /\ \A d \in Edges \ {e} : removed'[d] = removed[d]
    BY <1>1, <1>3
  <2>6. edges[e].held \cup removed[e] \subseteq y.held \cup removed'[e]
    BY <2>3, <2>5
  <2>7. /\ ChainKept /\ edges'[e] = y /\ \A d \in Edges \ {e} : edges'[d] = edges[d]
    BY <1>1, <1>3, <2>3, <2>4, <2>5, <2>6, EdgeKept
  <2>. QED BY <2>1, <2>7
<1>4. ASSUME NEW s \in Status, edges[e].exists, Becomes(e, SetStatus(edges[e], s)),
             removed' = removed, doubled' = doubled
      PROVE  Goal
  <2>1. edges[e] \in Edge
    BY <1>1, <1>4, ExistingEdge
  <2>. DEFINE x == edges[e]
              y == SetStatus(x, s)
  <2>2. /\ y \in Edge /\ y.exists /\ y.held = x.held
        /\ RolesHold(y, e \in doubled) /\ y.createdBy = x.createdBy
    BY <1>1, <2>1, Statuses
  <2>3. edges' = [edges EXCEPT ![e] = y] /\ claims' = claims
    BY <1>4 DEF Becomes
  <2>. HIDE DEF y
  <2>4. edges[e].held \cup removed[e] \subseteq y.held \cup removed'[e]
    BY <1>4, <2>2
  <2>5. /\ ChainKept /\ edges'[e] = y /\ \A d \in Edges \ {e} : edges'[d] = edges[d]
    BY <1>1, <1>4, <2>2, <2>3, <2>4, EdgeKept
  <2>. QED BY <1>4, <2>5
<1>5. ASSUME NEW roles \in InitialRoles, CanCreate(edges[e]),
             Becomes(e, Created(c, roles)), removed' = removed,
             doubled' = IF IsInjective(roles) THEN doubled ELSE doubled \cup {e}
      PROVE  Goal
  <2>1. ~edges[e].exists /\ roles \in Seq(Roles)
    BY <1>5, OthersAssumption DEF CanCreate
  <2>. DEFINE y == Created(c, roles)
  <2>2. /\ doubled' \subseteq Edges /\ (e \in doubled') \in BOOLEAN
        /\ \A d \in Edges \ {e} : d \in doubled' <=> d \in doubled
        /\ e \notin doubled' => IsInjective(roles)
    BY <1>1, <1>5
  <2>3. y \in Edge /\ y.exists /\ y.createdBy = c /\ RolesHold(y, e \in doubled')
    BY <2>1, <2>2, Creates
  <2>4. edges' = [edges EXCEPT ![e] = y] /\ claims' = claims
    BY <1>5 DEF Becomes
  <2>. HIDE DEF y
  <2>5. /\ ChainKept /\ edges'[e] = y /\ \A d \in Edges \ {e} : edges'[d] = edges[d]
    BY <1>1, <1>5, <2>1, <2>2, <2>3, <2>4, EdgeKept
  <2>. QED BY <2>3, <2>5
<1>. HIDE DEF Goal
<1>6. Goal
  BY <1>2, <1>3, <1>4, <1>5 DEF PartyTx, CanSetStatus, CanAnswer, CanActivate
<1>. QED BY <1>6 DEF Goal

\* A transaction of somebody else keeps the invariant.
LEMMA PartyInv ==
  ASSUME IInv, NEW e \in Edges, NEW c \in Others, PartyActs(e, c)
  PROVE  IInv'
<1>1. /\ PartyTx(e, c) /\ settled' = settled \ {e}
      /\ UNCHANGED <<flow, pool, late, reverted>>
  BY DEF PartyActs
<1>2. /\ ChainKept
      /\ \A d \in Edges \ {e} : edges'[d] = edges[d]
      /\ ~edges[e].exists => edges'[e].createdBy = c
  BY <1>1, PartyEffects
<1>3. TypeOK' /\ OneWrite'
  BY <1>1, <1>2 DEF IInv, TypeOK, ChainKept, OneWrite, Sent
<1>4. \A g \in Flows : Untouched(g)
  BY <1>1 DEF Untouched, Pending
<1>5. RejectInv'
  <2>1. \A g \in Flows, d \in settled' : ConfirmsEdge(g, d)' => ConfirmsEdge(g, d)
    BY <1>4, UntouchedConfirms
  <2>2. \A d \in settled' : /\ d \in Edges \ {e} /\ edges[d].exists
                            /\ edges[d].status = "REJECTED"
                            /\ \A g \in Flows : ~ConfirmsEdge(g, d)
    BY <1>1 DEF IInv, RejectInv, TypeOK
  <2>3. \A d \in settled' : /\ d \in Edges /\ edges'[d].exists
                            /\ edges'[d].status = "REJECTED"
                            /\ \A g \in Flows : ~ConfirmsEdge(g, d)
    BY <1>2, <2>2
  <2>. QED BY <2>1, <2>3, RejectKeeps
<1>6. \A d \in Edges : edges'[d].exists /\ ~edges[d].exists => edges'[d].createdBy # Deployer
  BY <1>2, OthersAssumption
<1>. QED
  <2>. DEFINE M == {}
  <2>1. M \in SUBSET Flows /\ \A g \in M : FALSE
    OBVIOUS
  <2>. HIDE DEF M
  <2>. QED BY <1>2, <1>3, <1>4, <1>5, <1>6, <2>1, StepKeeps

\* The end of the process: the actions under way have failed, their writes that
\* were not sent are gone.
LEMMA RestartInv ==
  ASSUME IInv, Restart
  PROVE  IInv'
<1>. DEFINE M == { f \in Flows : Active(f) }
<1>1. /\ late' = {} /\ pool' = pool /\ TypeOK
      /\ UNCHANGED <<edges, claims, settled, removed, reverted, doubled>>
  BY DEF Restart, chainVars, history, IInv
<1>2. ASSUME NEW f \in Flows, Active(f)
      PROVE  /\ flow'[f] \in Begun /\ flow'[f].pc = "failed" /\ flow'[f].at = flow[f].pc
             /\ flow'[f].op = flow[f].op /\ flow'[f].edge = flow[f].edge
             /\ flow'[f].role = flow[f].role /\ flow'[f].owns = flow[f].owns
             /\ flow[f].pc # "idle"
  <2>1. flow[f] \in Begun /\ flow[f].pc \in PC
    BY <1>1, <1>2 DEF Active, Idle, Begun, TypeOK
  <2>2. flow'[f] = [flow[f] EXCEPT !.pc = "failed", !.at = flow[f].pc]
    BY <1>2 DEF Restart
  <2>. QED BY <1>2, <2>1, <2>2 DEF Begun, PC, Active
<1>3. \A f \in Flows : ~Active(f) => flow'[f] = flow[f]
  BY DEF Restart
<1>4. flow' \in [Flows -> Idle \cup Begun]
  <2>1. flow' = [f \in Flows |-> flow'[f]]
    BY DEF Restart
  <2>2. \A f \in Flows : flow'[f] \in Idle \cup Begun
    BY <1>1, <1>2, <1>3 DEF TypeOK
  <2>. QED BY <2>1, <2>2
<1>5. /\ ChainKept /\ TypeOK' /\ OneWrite'
      /\ \A g \in Flows, step \in WritePC : Pending(g, step)' => Pending(g, step)
  BY <1>1, <1>4, ChainSame DEF chainVars, IInv, TypeOK, OneWrite, Pending
<1>6. \A g \in Flows : ~Active(g) => Untouched(g)
  BY <1>1, <1>3, <1>5 DEF Untouched
<1>7. ASSUME NEW f \in Flows, Active(f) PROVE Kept(f)'
  <2>1. /\ StepInv(f) /\ WriteInv(f) /\ flow[f].pc \notin {"ok", "failed"}
        /\ flow'[f].pc = "failed" /\ flow'[f].at = flow[f].pc
        /\ flow'[f].op = flow[f].op /\ flow'[f].edge = flow[f].edge
        /\ flow'[f].role = flow[f].role /\ flow[f].pc # "idle"
    BY <1>2, <1>7 DEF IInv, Active
  <2>2. StepInv(f)' /\ GrantInv(f)'
    BY <2>1 DEF StepInv, GrantInv
  <2>3. WriteInv(f)'
    BY <1>1, <1>5, <2>1 DEF WriteInv
  <2>. QED BY <2>2, <2>3 DEF Kept
<1>8. RejectInv'
  <2>1. ASSUME NEW f \in Flows, NEW e PROVE ConfirmsEdge(f, e)' => ConfirmsEdge(f, e)
    <3>1. CASE Active(f)
      <4>1. ~Active(f)'
        BY <1>2, <3>1 DEF Active
      <4>2. \A step \in {"confirm", "activate"} : Pending(f, step)' => Pending(f, step)
        BY <1>5 DEF WritePC
      <4>. QED BY <1>2, <3>1, <4>1, <4>2, MovedConfirms
    <3>2. CASE ~Active(f)
      BY <1>6, <3>2, UntouchedConfirms
    <3>. QED BY <3>1, <3>2
  <2>. QED BY <1>1, <2>1, RejectKeeps DEF IInv, RejectInv, TypeOK
<1>9. ASSUME NEW f \in Flows, Active(f), NEW e \in Edges, ClaimOpen(f, e)
      PROVE  ClaimOpen(f, e)'
  <2>1. flow[f].pc = "claim"
    BY <1>9 DEF ClaimOpen, Active
  <2>. QED BY <1>1, <1>2, <1>5, <1>9, <2>1 DEF ClaimOpen
<1>10. \A e \in Edges : edges'[e] = edges[e]
  BY <1>1
<1>11. /\ M \in SUBSET Flows /\ \A g \in Flows \ M : Untouched(g)
       /\ \A g \in M : Kept(g)'
       /\ \A g \in M, e \in Edges : ClaimOpen(g, e) => ClaimOpen(g, e)'
  BY <1>6, <1>7, <1>9
<1>. HIDE DEF M
<1>. QED BY <1>5, <1>8, <1>10, <1>11, StepKeeps

-----------------------------------------------------------------------------
(* Theorems. *)

\* There are no edges and no actions at first.
LEMMA InitInv == Init => IInv
<1>. SUFFICES ASSUME Init PROVE IInv
  OBVIOUS
<1>1. \A f \in Flows : flow[f].pc = "idle" /\ flow[f].at = "idle"
  BY DEF Init
<1>2. \A e \in Edges : ~edges[e].exists
  BY DEF Init, NoEdge
<1>3. TypeOK
  BY DEF Init, TypeOK, Idle
<1>4. OneWrite /\ \A f \in Flows, step \in WritePC : ~Pending(f, step)
  BY DEF Init, OneWrite, Pending, ToSet
<1>5. \A f \in Flows : StepInv(f) /\ WriteInv(f) /\ GrantInv(f)
  BY <1>1, <1>4 DEF Init, StepInv, WriteInv, GrantInv
<1>6. \A e \in Edges : ClaimInv(e) /\ RolesInv(e)
  BY <1>2 DEF Init, ClaimInv, RolesInv, RolesHold, RolesConsistent
<1>7. RejectInv
  BY DEF Init, RejectInv
<1>. QED BY <1>3, <1>4, <1>5, <1>6, <1>7 DEF IInv

\* Every step keeps the invariant, one case per action.
LEMMA NextInv == IInv /\ [Next]_vars => IInv'
<1>. SUFFICES ASSUME IInv, [Next]_vars PROVE IInv'
  OBVIOUS
<1>1. ASSUME NEW f \in Flows, NEW op \in Op, NEW e \in Edges,
             NEW r \in Roles \cup {NoRole}, NEW owns \in BOOLEAN,
             Begin(f, op, e, r, owns)
      PROVE  IInv'
  BY <1>1, BeginInv
<1>2. ASSUME NEW f \in Flows, Look(f) \/ Submit(f) \/ GiveUp(f) \/ Announce(f)
      PROVE  IInv'
  BY <1>2, QuietInv, SubmitInv, GiveUpInv
<1>3. ASSUME NEW w \in late, SubmitLate(w) PROVE IInv'
  BY <1>3, SubmitLateInv
<1>4. CASE Mine
  BY <1>4, MineInv
<1>5. ASSUME NEW k \in DOMAIN pool, Drop(k) PROVE IInv'
  BY <1>5, DropInv
<1>6. ASSUME NEW e \in Edges, NEW c \in Others, PartyActs(e, c) PROVE IInv'
  BY <1>6, PartyInv
<1>7. CASE Restart
  BY <1>7, RestartInv
<1>8. CASE UNCHANGED vars
  BY <1>8 DEF vars, chainVars, history, IInv, TypeOK, OneWrite, Sent, StepInv, WriteInv,
     Pending, GrantInv, ClaimInv, ClaimOpen, RolesInv, RejectInv, ConfirmsEdge, Active
<1>. QED BY <1>1, <1>2, <1>3, <1>4, <1>5, <1>6, <1>7, <1>8 DEF Next

\* The inductive invariant, in every state of every run of the actions.
THEOREM FlowInvariant == Spec => []IInv
<1>. QED BY InitInv, NextInv, PTL DEF Spec

\* The two records of an edge's roles, the array and the mapping, agree
\* whatever is added and removed (AgentRelationship._addRole, _removeRole),
\* unless the edge was created with a role given twice; then the array still
\* lists every role of the mapping.
THEOREM RolesAlwaysAgree == Spec => []RolesAgree
<1>1. IInv => RolesAgree
  BY DEF IInv, RolesInv, RolesHold, RolesAgree
<1>. QED BY <1>1, FlowInvariant, PTL

\* An action that reports an asserted relationship has left its role on the
\* edge, whoever created the edge, unless the action's own createEdge or
\* addRole was mined and reverted, which createRelationship does not see, or a
\* party took the role away.
THEOREM RolesAreGranted == Spec => []RolesGranted
<1>1. IInv => RolesGranted
  BY DEF IInv, GrantInv, RolesGranted
<1>. QED BY <1>1, FlowInvariant, PTL

\* A reported edge of the deployer has the subject's assertion, or the action
\* that created it is at, or stopped at, the assertion (createRelationship).
THEOREM EdgesAreClaimed == Spec => []SelfClaimed
<1>1. ASSUME IInv PROVE SelfClaimed
  <2>. SUFFICES ASSUME NEW f \in Flows, flow[f].pc = "ok", flow[f].op = "assert",
                       edges[flow[f].edge].createdBy = Deployer
                PROVE  \/ "self" \in claims[flow[f].edge]
                       \/ \E g \in Flows : ClaimOpen(g, flow[f].edge)
    BY DEF SelfClaimed, ClaimOpen
  <2>1. flow[f].edge \in Edges
    BY <1>1 DEF IInv, TypeOK, Idle, Begun
  <2>2. edges[flow[f].edge].exists
    BY <1>1 DEF IInv, GrantInv
  <2>. QED BY <1>1, <2>1, <2>2 DEF IInv, ClaimInv
<1>. QED BY <1>1, FlowInvariant, PTL

\* A rejection mined with no confirmation under way stands until one begins or
\* a party intervenes, though setEdgeStatus lets the deployer set any status
\* from any other.
THEOREM RejectionsStand == Spec => []RejectionStands
<1>1. IInv => RejectionStands
  BY DEF IInv, RejectInv, RejectionStands
<1>. QED BY <1>1, FlowInvariant, PTL
=====================
