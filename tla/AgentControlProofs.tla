------------------------- MODULE AgentControlProofs -------------------------
(***************************************************************************)
(* Proofs about AgentControl, for any set of users, any quorum and any      *)
(* number of proposals.                                                     *)
(***************************************************************************)
EXTENDS AgentControl, SequenceTheorems, FiniteSetTheorems, TLAPS

\* An array of users without duplicates.
Distinct(s) == \A k, l \in DOMAIN s : s[k] = s[l] => k = l
Elements(s) == { s[k] : k \in DOMAIN s }

\* Pushing a new element onto an array without duplicates.
LEMMA PushDistinct ==
  ASSUME NEW s \in Seq(Users), Distinct(s), NEW u \in Users, u \notin Elements(s)
  PROVE  /\ Append(s, u) \in Seq(Users)
         /\ Append(s, u) # << >>
         /\ Len(Append(s, u)) = Len(s) + 1
         /\ Distinct(Append(s, u))
         /\ Elements(Append(s, u)) = Elements(s) \cup {u}
<1>. DEFINE t == Append(s, u)
<1>1. /\ t \in Seq(Users) /\ t # << >> /\ Len(t) = Len(s) + 1
      /\ \A i \in 1 .. Len(s) : t[i] = s[i]
      /\ t[Len(s) + 1] = u
  BY AppendProperties
<1>2. DOMAIN t = DOMAIN s \cup {Len(s) + 1} /\ DOMAIN s = 1 .. Len(s) /\ Len(s) \in Nat
  BY <1>1
<1>. HIDE DEF t
<1>3. Distinct(t)
  BY <1>1, <1>2 DEF Distinct, Elements
<1>4. Elements(t) = Elements(s) \cup {u}
  BY <1>1, <1>2 DEF Elements
<1>. QED
  BY <1>1, <1>3, <1>4 DEF t

\* The swap and pop of removeOwner removes one element and keeps the rest.
LEMMA SwapAndPopRemoves ==
  ASSUME NEW s \in Seq(Users), Distinct(s), NEW u \in Elements(s), Len(s) > 1
  PROVE  /\ SwapAndPop(s, u) \in Seq(Users)
         /\ SwapAndPop(s, u) # << >>
         /\ Len(SwapAndPop(s, u)) = Len(s) - 1
         /\ Distinct(SwapAndPop(s, u))
         /\ Elements(SwapAndPop(s, u)) = Elements(s) \ {u}
<1>. DEFINE k == CHOOSE k \in DOMAIN s : s[k] = u
            n == Len(s)
            m == [s EXCEPT ![k] = s[n]]
            t == SwapAndPop(s, u)
<1>1. k \in DOMAIN s /\ s[k] = u
  BY DEF Elements
<1>2. DOMAIN s = 1 .. n /\ n \in Nat /\ n > 1
  OBVIOUS
<1>3. t = SubSeq(m, 1, n - 1)
  BY DEF SwapAndPop
<1>. HIDE DEF k, n, t
<1>4. \A i \in 1 .. n : m[i] = (IF i = k THEN s[n] ELSE s[i]) /\ m[i] \in Users /\ s[i] \in Users
  BY <1>1, <1>2
<1>. HIDE DEF m
<1>5. /\ t \in Seq(Users)
      /\ Len(t) = n - 1
      /\ \A i \in 1 .. n - 1 : t[i] = m[i]
  <2>1. \A i \in 1 .. n - 1 : m[i] \in Users
    BY <1>2, <1>4
  <2>2. 1 \in Int /\ n - 1 \in Int /\ 1 <= n - 1 /\ (n - 1) - 1 + 1 = n - 1
    BY <1>2
  <2>3. /\ SubSeq(m, 1, n - 1) \in Seq(Users)
        /\ Len(SubSeq(m, 1, n - 1)) = IF 1 <= n - 1 THEN (n - 1) - 1 + 1 ELSE 0
        /\ \A i \in 1 .. (n - 1) - 1 + 1 : SubSeq(m, 1, n - 1)[i] = m[1 + i - 1]
    BY <2>1, <2>2, SubSeqProperties
  <2>. QED
    BY <1>2, <1>3, <2>2, <2>3
<1>6. DOMAIN t = 1 .. n - 1
  BY <1>5, <1>2
<1>7. \A i \in 1 .. n - 1 : t[i] = IF i = k THEN s[n] ELSE s[i]
  BY <1>2, <1>4, <1>5
<1>8. Distinct(t)
  BY <1>1, <1>2, <1>6, <1>7 DEF Distinct
<1>9. Elements(t) \subseteq Elements(s) \ {u}
  BY <1>1, <1>2, <1>6, <1>7 DEF Distinct, Elements
<1>10. ASSUME NEW v \in Elements(s) \ {u}
       PROVE  v \in Elements(t)
  <2>1. PICK i \in 1 .. n : s[i] = v
    BY <1>2 DEF Elements
  <2>2. i # k
    BY <1>1, <2>1
  <2>3. CASE i = n
    <3>1. k \in 1 .. n - 1 /\ t[k] = v
      BY <1>1, <1>2, <1>7, <2>1, <2>2, <2>3
    <3>. QED
      BY <3>1, <1>6 DEF Elements
  <2>4. CASE i # n
    <3>1. i \in 1 .. n - 1 /\ t[i] = v
      BY <1>2, <1>7, <2>1, <2>2, <2>4
    <3>. QED
      BY <3>1, <1>6 DEF Elements
  <2>. QED
    BY <2>3, <2>4
<1>11. t # << >>
  BY <1>2, <1>5
<1>. QED
  BY <1>5, <1>8, <1>9, <1>10, <1>11 DEF t, n

LEMMA OwnersAgreeDef ==
  OwnersAgree <=> /\ isOwner = Elements(owners)
                  /\ Distinct(owners)
                  /\ initialized <=> owners # << >>
  BY DEF OwnersAgree, Elements, Distinct

\* The three operations on the owner array.
LEMMA InitializeOwners ==
  ASSUME IInv, NEW u \in Users, NEW m \in Sizes, NEW q \in Sizes,
         InitializeAgent(u, m, q)
  PROVE  IInv'
<1>. USE SizesAssumption
<1>1. owners = << >> /\ Distinct(owners) /\ isOwner = {} /\ Elements(owners) = {}
  BY OwnersAgreeDef DEF IInv, InitializeAgent, Elements
<1>2. /\ owners' \in Seq(Users) /\ owners' # << >>
      /\ Distinct(owners') /\ Elements(owners') = isOwner'
  BY <1>1, PushDistinct DEF IInv, TypeOK, InitializeAgent
<1>3. TypeOK'
  BY <1>2 DEF IInv, TypeOK, InitializeAgent, Config
<1>4. OwnersAgree'
  BY <1>2 DEF InitializeAgent, OwnersAgree, Elements, Distinct
<1>5. VotesCounted' /\ \A p \in DOMAIN votes' : IsFiniteSet(votes'[p])
  BY DEF IInv, InitializeAgent, VotesCounted
<1>6. (initialized' => config'.quorum # 0) /\ proposals' = << >>
  BY DEF IInv, InitializeAgent
<1>. QED
  BY <1>3, <1>4, <1>5, <1>6 DEF IInv

LEMMA AddOwners ==
  ASSUME IInv, NEW u \in Users, NEW v \in Users, AddOwner(u, v)
  PROVE  IInv'
<1>1. Distinct(owners) /\ isOwner = Elements(owners)
  BY OwnersAgreeDef DEF IInv
<1>2. /\ owners' \in Seq(Users) /\ owners' # << >>
      /\ Distinct(owners') /\ Elements(owners') = isOwner'
  BY <1>1, PushDistinct DEF IInv, TypeOK, AddOwner
<1>3. config' \in Config /\ config'.quorum = config.quorum
  BY DEF IInv, TypeOK, AddOwner, Config
<1>4. TypeOK'
  BY <1>2, <1>3 DEF IInv, TypeOK, AddOwner
<1>5. OwnersAgree'
  BY <1>2 DEF AddOwner, Owns, OwnersAgree, Elements, Distinct
<1>6. VotesCounted' /\ \A p \in DOMAIN votes' : IsFiniteSet(votes'[p])
  BY DEF IInv, AddOwner, VotesCounted
<1>7. config'.isBootstrap => config.isBootstrap
  <2>. DEFINE b == config.isBootstrap /\ Len(owners) + 1 < config.minOwners
  <2>1. config' = [config EXCEPT !.isBootstrap = b]
    BY DEF AddOwner
  <2>2. b \in BOOLEAN /\ (b => config.isBootstrap)
    OBVIOUS
  <2>. HIDE DEF b
  <2>3. config'.isBootstrap = b
    BY <2>1 DEF IInv, TypeOK, Config
  <2>. QED
    BY <2>2, <2>3
<1>8. initialized' = initialized /\ proposals' = proposals
  BY DEF AddOwner
<1>. QED
  BY <1>3, <1>4, <1>5, <1>6, <1>7, <1>8 DEF IInv

LEMMA RemoveOwners ==
  ASSUME IInv, NEW u \in Users, NEW v \in Users, RemoveOwner(u, v)
  PROVE  IInv' /\ (config.quorum <= Len(owners) => config'.quorum \in 1 .. Len(owners'))
<1>1. Distinct(owners) /\ isOwner = Elements(owners)
  BY OwnersAgreeDef DEF IInv
<1>2. /\ owners' \in Seq(Users) /\ owners' # << >> /\ Len(owners') = Len(owners) - 1
      /\ Distinct(owners') /\ Elements(owners') = isOwner'
  BY <1>1, SwapAndPopRemoves DEF IInv, TypeOK, RemoveOwner
<1>3. config.quorum \in Nat \ {0} /\ Len(owners) \in Nat /\ Len(owners) > 1
  BY DEF IInv, TypeOK, Config, RemoveOwner, Owns
<1>4. Clamped(config.quorum, Len(owners) - 1) \in 1 .. Len(owners) - 1
  BY <1>3 DEF Clamped
<1>5. config' \in Config /\ config'.quorum \in 1 .. Len(owners')
  BY <1>2, <1>3, <1>4 DEF IInv, TypeOK, RemoveOwner, Config
<1>6. TypeOK'
  BY <1>2, <1>5 DEF IInv, TypeOK, RemoveOwner
<1>7. OwnersAgree'
  BY <1>2 DEF RemoveOwner, Owns, OwnersAgree, Elements, Distinct
<1>8. VotesCounted' /\ \A p \in DOMAIN votes' : IsFiniteSet(votes'[p])
  BY DEF IInv, RemoveOwner, VotesCounted
<1>9. /\ config'.isBootstrap = config.isBootstrap
      /\ initialized' = initialized /\ proposals' = proposals
  BY DEF IInv, TypeOK, Config, RemoveOwner
<1>10. config'.quorum # 0
  BY <1>2, <1>3, <1>5
<1>. QED
  BY <1>5, <1>6, <1>7, <1>8, <1>9, <1>10 DEF IInv

\* Votes and their count, for the two operations on proposals.
LEMMA CreateVotes ==
  ASSUME IInv, NEW u \in Users, CreateProposal(u)
  PROVE  IInv' /\ DecisionStep
<1>. DEFINE n == Len(proposals)
            p0 == [proposer |-> u, status |-> Decided(1), approvalCount |-> 1]
<1>1. p0 \in Proposal /\ p0.status = Decided(1) /\ p0.approvalCount = 1 /\ p0.proposer = u
  BY DEF Proposal, Decided
<1>2. proposals \in Seq(Proposal) /\ votes \in Seq(SUBSET Users) /\ Len(votes) = n /\ n \in Nat
  BY DEF IInv, TypeOK
<1>3. proposals' = Append(proposals, p0) /\ votes' = Append(votes, {u})
  BY DEF CreateProposal
<1>. HIDE DEF p0
<1>4. /\ proposals' \in Seq(Proposal) /\ Len(proposals') = n + 1
      /\ \A p \in 1 .. n : proposals'[p] = proposals[p]
      /\ proposals'[n + 1] = p0
  BY <1>1, <1>2, <1>3, AppendProperties
<1>5. {u} \in SUBSET Users
  OBVIOUS
<1>6. /\ votes' \in Seq(SUBSET Users) /\ Len(votes') = n + 1
      /\ \A p \in 1 .. n : votes'[p] = votes[p]
      /\ votes'[n + 1] = {u}
  BY <1>2, <1>3, <1>5, AppendProperties
<1>. HIDE DEF n
<1>7. /\ DOMAIN proposals = 1 .. n /\ DOMAIN votes = 1 .. n
      /\ DOMAIN proposals' = 1 .. n + 1 /\ DOMAIN votes' = 1 .. n + 1
      /\ 1 .. n + 1 = (1 .. n) \cup {n + 1} /\ n + 1 \notin 1 .. n
  BY <1>2, <1>4, <1>6 DEF n
<1>8. IsFiniteSet({u}) /\ Cardinality({u}) = 1
  BY FS_Singleton
<1>9. TypeOK'
  BY <1>4, <1>6 DEF IInv, TypeOK, CreateProposal
<1>10. OwnersAgree'
  BY DEF IInv, OwnersAgree, CreateProposal
<1>11. VotesCounted'
  BY <1>1, <1>4, <1>6, <1>7, <1>8 DEF IInv, VotesCounted
<1>12. \A p \in DOMAIN votes' : IsFiniteSet(votes'[p])
  BY <1>6, <1>7, <1>8 DEF IInv
<1>13. ASSUME Decided(1) # "pending"
       PROVE  1 >= config.quorum
  BY <1>13 DEF Decided
<1>14. u \in isOwner /\ ~config.isBootstrap
  BY DEF CreateProposal, Owns
<1>15. DecisionStep
  <2>1. \A p \in 1 .. n : proposals'[p] = proposals[p]
    BY <1>4
  <2>2. proposals'[n + 1].status # "pending" => 1 >= config.quorum
    BY <1>1, <1>4, <1>13
  <2>3. votes'[n + 1] = {} \cup {u} /\ u \in isOwner \ {} /\ Cardinality(votes'[n + 1]) = 1
    BY <1>6, <1>8, <1>14
  <2>. QED
    BY <1>7, <1>14, <2>1, <2>2, <2>3 DEF DecisionStep
<1>. QED
  BY <1>9, <1>10, <1>11, <1>12, <1>14, <1>15 DEF IInv, CreateProposal, Owns

\* What approveProposal makes of the proposal, and of the others.
LEMMA ApproveRecord ==
  ASSUME IInv, NEW u \in Users, NEW p \in 1 .. MaxProposals, ApproveProposal(u, p)
  PROVE  /\ proposals[p] \in Proposal
         /\ proposals' \in Seq(Proposal) /\ Len(proposals') = Len(proposals)
         /\ DOMAIN proposals' = DOMAIN proposals
         /\ proposals'[p].proposer = proposals[p].proposer
         /\ proposals'[p].approvalCount = proposals[p].approvalCount + 1
         /\ proposals'[p].status = Decided(proposals[p].approvalCount + 1)
         /\ \A r \in DOMAIN proposals : r # p => proposals'[r] = proposals[r]
<1>. DEFINE old == proposals[p]
            n == old.approvalCount + 1
            q == [old EXCEPT !.approvalCount = n, !.status = Decided(n)]
<1>1. p \in DOMAIN proposals /\ proposals \in Seq(Proposal) /\ old \in Proposal
  BY DEF IInv, TypeOK, ApproveProposal, MayVote
<1>2. old \in Proposal /\ old = proposals[p] /\ n \in Nat /\ n = old.approvalCount + 1
  BY <1>1 DEF Proposal
<1>3. Decided(n) \in {"pending", "executed"}
  BY DEF Decided
<1>4. /\ q \in Proposal /\ q.approvalCount = n /\ q.status = Decided(n)
      /\ q.proposer = old.proposer
  <2>. HIDE DEF n, old
  <2>. QED
    BY <1>2, <1>3 DEF Proposal
<1>5. proposals' = [proposals EXCEPT ![p] = q]
  BY <1>1, <1>2 DEF ApproveProposal, Proposal
<1>. HIDE DEF q, n
<1>6. /\ proposals' \in Seq(Proposal) /\ Len(proposals') = Len(proposals)
      /\ DOMAIN proposals' = DOMAIN proposals /\ proposals'[p] = q
      /\ \A r \in DOMAIN proposals : r # p => proposals'[r] = proposals[r]
  BY <1>1, <1>4, <1>5
<1>. QED
  BY <1>1, <1>4, <1>6 DEF n

LEMMA ApproveVotes ==
  ASSUME IInv, NEW u \in Users, NEW p \in 1 .. MaxProposals, ApproveProposal(u, p)
  PROVE  IInv' /\ DecisionStep
<1>1. /\ p \in DOMAIN proposals /\ proposals[p].status = "pending" /\ u \notin votes[p]
      /\ u \in isOwner
  BY DEF ApproveProposal, MayVote, Owns
<1>2. /\ proposals \in Seq(Proposal) /\ votes \in Seq(SUBSET Users)
      /\ DOMAIN votes = DOMAIN proposals
  BY DEF IInv, TypeOK
<1>. DEFINE old == proposals[p]
            n == old.approvalCount + 1
            q == proposals'[p]
<1>4. old = proposals[p] /\ n \in Nat /\ n = old.approvalCount + 1
  BY ApproveRecord DEF Proposal
<1>6. q.approvalCount = n /\ q.status = Decided(n) /\ q.proposer = old.proposer
  BY ApproveRecord
<1>8. votes' = [votes EXCEPT ![p] = @ \cup {u}]
  BY DEF ApproveProposal
<1>9. /\ proposals' \in Seq(Proposal) /\ Len(proposals') = Len(proposals)
      /\ DOMAIN proposals' = DOMAIN proposals /\ proposals'[p] = q
      /\ \A r \in DOMAIN proposals : r # p => proposals'[r] = proposals[r]
  BY ApproveRecord
<1>. HIDE DEF q, n, old
<1>10. votes[p] \in SUBSET Users /\ votes[p] \cup {u} \in SUBSET Users
  BY <1>1, <1>2
<1>11. /\ votes' \in Seq(SUBSET Users) /\ Len(votes') = Len(votes)
      /\ DOMAIN votes' = DOMAIN votes /\ votes'[p] = votes[p] \cup {u}
      /\ \A r \in DOMAIN votes : r # p => votes'[r] = votes[r]
  BY <1>1, <1>2, <1>8, <1>10
<1>12. /\ IsFiniteSet(votes'[p])
       /\ Cardinality(votes'[p]) = n
  BY <1>1, <1>2, <1>4, <1>11, FS_AddElement DEF IInv, VotesCounted
<1>13. TypeOK'
  BY <1>9, <1>11 DEF IInv, TypeOK, ApproveProposal
<1>14. OwnersAgree'
  BY DEF IInv, OwnersAgree, ApproveProposal
<1>15. VotesCounted'
  BY <1>1, <1>2, <1>4, <1>6, <1>9, <1>11, <1>12 DEF IInv, VotesCounted
<1>16. \A r \in DOMAIN votes' : IsFiniteSet(votes'[r])
  BY <1>11, <1>12 DEF IInv
<1>17. proposals # << >> /\ ~config.isBootstrap /\ initialized
  BY <1>1, <1>2 DEF IInv
<1>18. ASSUME Decided(n) # "pending"
       PROVE  n >= config.quorum
  BY <1>18 DEF Decided
<1>19. DecisionStep
  <2>1. u \in isOwner \ votes[p]
    BY <1>1
  <2>2. SUFFICES ASSUME NEW r \in DOMAIN proposals
        PROVE  /\ proposals[r].status = "executed" => proposals'[r] = proposals[r]
               /\ proposals'[r].status # proposals[r].status =>
                    /\ ~config.isBootstrap
                    /\ \E voter \in isOwner \ votes[r] : votes'[r] = votes[r] \cup {voter}
                    /\ Cardinality(votes'[r]) >= config.quorum
    BY <1>2, <1>9 DEF DecisionStep
  <2>3. CASE r = p
    BY <1>1, <1>6, <1>9, <1>11, <1>12, <1>17, <1>18, <2>1, <2>3
  <2>4. CASE r # p
    BY <1>9, <2>4
  <2>. QED
    BY <2>3, <2>4
<1>. QED
  BY <1>13, <1>14, <1>15, <1>16, <1>17, <1>19 DEF IInv, ApproveProposal

\* What every step of the contract does, invariant and action properties.
AttainableStep ==
  initialized /\ config.quorum <= Len(owners) => config'.quorum \in 1 .. Len(owners')

LEMMA InitInv == Init => IInv
<1>. SUFFICES ASSUME Init PROVE IInv
  OBVIOUS
<1>1. TypeOK
  <2>1. config \in Config
    BY DEF Init, Config
  <2>2. << >> \in Seq(Users) /\ << >> \in Seq(Proposal) /\ << >> \in Seq(SUBSET Users)
    OBVIOUS
  <2>. QED
    BY <2>1, <2>2 DEF Init, TypeOK
<1>2. OwnersAgree
  BY DEF Init, OwnersAgree
<1>. QED
  BY <1>1, <1>2 DEF Init, IInv, VotesCounted

LEMMA NextStep ==
  ASSUME IInv, [Next]_vars
  PROVE  IInv' /\ DecisionStep /\ AttainableStep
<1>. USE SizesAssumption
<1>1. ASSUME UNCHANGED << proposals, votes >>
      PROVE  DecisionStep
  <2>1. DOMAIN votes = DOMAIN proposals
    BY DEF IInv, TypeOK
  <2>. QED
    BY <1>1, <2>1 DEF DecisionStep
<1>2. /\ config.quorum \in Nat /\ Len(owners) \in Nat
      /\ initialized => config.quorum # 0
  BY DEF IInv, TypeOK, Config
<1>3. ASSUME UNCHANGED << owners, config >>
      PROVE  AttainableStep
  BY <1>2, <1>3 DEF AttainableStep
<1>4. ASSUME NEW u \in Users, NEW m \in Sizes, NEW q \in Sizes, InitializeAgent(u, m, q)
      PROVE  IInv' /\ DecisionStep /\ AttainableStep
  BY <1>1, <1>4, InitializeOwners DEF InitializeAgent, AttainableStep
<1>5. ASSUME NEW u \in Users, NEW v \in Users, AddOwner(u, v)
      PROVE  IInv' /\ DecisionStep /\ AttainableStep
  <2>1. config'.quorum = config.quorum
    BY <1>5 DEF IInv, TypeOK, Config, AddOwner
  <2>2. Len(owners') = Len(owners) + 1
    BY <1>5, AppendProperties DEF IInv, TypeOK, AddOwner
  <2>. QED
    BY <1>1, <1>2, <1>5, <2>1, <2>2, AddOwners DEF AddOwner, AttainableStep
<1>6. ASSUME NEW u \in Users, NEW v \in Users, RemoveOwner(u, v)
      PROVE  IInv' /\ DecisionStep /\ AttainableStep
  BY <1>1, <1>6, RemoveOwners DEF RemoveOwner, AttainableStep
<1>7. ASSUME NEW u \in Users, NEW q \in Sizes, SetQuorum(u, q)
      PROVE  IInv' /\ DecisionStep /\ AttainableStep
  <2>1. /\ config' \in Config /\ config'.quorum = q /\ q \in 1 .. Len(owners)
        /\ config'.isBootstrap = config.isBootstrap
    BY <1>7 DEF IInv, TypeOK, Config, SetQuorum
  <2>2. TypeOK' /\ OwnersAgree' /\ VotesCounted'
    BY <1>7, <2>1 DEF IInv, TypeOK, OwnersAgree, VotesCounted, SetQuorum
  <2>. QED
    BY <1>1, <1>2, <1>7, <2>1, <2>2 DEF IInv, SetQuorum, AttainableStep
<1>8. ASSUME NEW u \in Users, CreateProposal(u)
      PROVE  IInv' /\ DecisionStep /\ AttainableStep
  BY <1>3, <1>8, CreateVotes DEF CreateProposal
<1>9. ASSUME NEW u \in Users, NEW p \in 1 .. MaxProposals, ApproveProposal(u, p)
      PROVE  IInv' /\ DecisionStep /\ AttainableStep
  BY <1>3, <1>9, ApproveVotes DEF ApproveProposal
<1>10. CASE UNCHANGED vars
  <2>1. IInv'
    BY <1>10 DEF IInv, TypeOK, OwnersAgree, VotesCounted, vars
  <2>. QED
    BY <1>1, <1>3, <1>10, <2>1 DEF vars
<1>. QED
  BY <1>4, <1>5, <1>6, <1>7, <1>8, <1>9, <1>10 DEF Next

-----------------------------------------------------------------------------

\* The inductive invariant.
THEOREM ControlInvariant == Spec => []IInv
<1>1. IInv /\ [Next]_vars => IInv'
  BY NextStep
<1>. QED
  BY InitInv, <1>1, PTL DEF Spec

\* The owner array and the owner mapping name the same distinct addresses, and
\* an initialized agent has an owner: addOwner, removeOwner.
THEOREM OwnersConsistent == Spec => []OwnersAgree
<1>1. IInv => OwnersAgree
  BY DEF IInv
<1>. QED
  BY ControlInvariant, <1>1, PTL

\* approvalCount is the number of distinct users who approved, for proposals of
\* any age and any history of the owner set.
THEOREM VotesDistinct == Spec => []VotesCounted
<1>1. IInv => VotesCounted
  BY DEF IInv
<1>. QED
  BY ControlInvariant, <1>1, PTL

\* createProposal and approveProposal execute only what as many distinct users
\* approved as the quorum in force asks for, and nothing undoes an execution.
THEOREM ExecutedByQuorum == Spec => DecidedByQuorum
<1>1. IInv /\ [Next]_vars => [DecisionStep]_vars
  BY NextStep
<1>. QED
  BY ControlInvariant, <1>1, PTL DEF Spec, DecidedByQuorum

\* No sequence of removeOwner and setQuorum puts the quorum out of reach.
THEOREM QuorumStaysAttainable == Spec => QuorumAttainable
<1>1. IInv /\ [Next]_vars
        => [initialized /\ config.quorum <= Len(owners)
              => config'.quorum \in 1 .. Len(owners')]_vars
  BY NextStep DEF AttainableStep
<1>. QED
  BY ControlInvariant, <1>1, PTL DEF Spec, QuorumAttainable
-----------------------------------------------------------------------------
(* The implementation of OwnerCouncil.                                      *)

\* The cardinality OwnerCouncil counts with.
LEMMA SameCardinality == \A S : Council!Cardinality(S) = Cardinality(S)
  BY DEF Cardinality, Council!Cardinality, IsFiniteSet, Council!IsFiniteSet

\* An array without duplicates is as long as it has elements.
LEMMA DistinctSize ==
  ASSUME NEW s \in Seq(Users), Distinct(s)
  PROVE  IsFiniteSet(Elements(s)) /\ Cardinality(Elements(s)) = Len(s)
<1>. DEFINE n == Len(s)
<1>1. n \in Nat /\ DOMAIN s = 1 .. n /\ s \in [1 .. n -> Elements(s)]
  BY DEF Elements
<1>2. s \in Bijection(1 .. n, Elements(s))
  BY <1>1 DEF Distinct, Elements, Bijection, Injection, Surjection, IsInjective
<1>3. ExistsBijection(1 .. n, Elements(s))
  BY <1>2 DEF ExistsBijection
<1>. QED
  BY <1>1, <1>3, FS_NatBijection, FS_CountingElements

\* So the lengths the contract compares are the sizes the council counts.
LEMMA OwnersCounted ==
  ASSUME IInv
  PROVE  /\ Council!Cardinality(isOwner) = Len(owners)
         /\ initialized <=> isOwner # {}
<1>1. isOwner = Elements(owners) /\ Distinct(owners) /\ (initialized <=> owners # << >>)
  BY OwnersAgreeDef DEF IInv
<1>2. owners # << >> <=> Elements(owners) # {}
  <2>1. owners \in Seq(Users)
    BY DEF IInv, TypeOK
  <2>2. CASE owners = << >>
    BY <2>2 DEF Elements
  <2>3. CASE owners # << >>
    <3>1. 1 \in DOMAIN owners
      BY <2>1, <2>3
    <3>. QED
      BY <2>3, <3>1 DEF Elements
  <2>. QED
    BY <2>2, <2>3
<1>. QED
  BY <1>1, <1>2, DistinctSize, SameCardinality DEF IInv, TypeOK

LEMMA OwnersCountedNext ==
  ASSUME IInv' PROVE Council!Cardinality(isOwner') = Len(owners')
<1>1. owners' \in Seq(Users) /\ Distinct(owners') /\ isOwner' = Elements(owners')
  BY DEF IInv, TypeOK, OwnersAgree, Distinct, Elements
<1>2. Cardinality(Elements(owners')) = Len(owners')
  BY <1>1, DistinctSize
<1>. QED
  BY <1>1, <1>2, SameCardinality

\* The variables of the council.
councilVars ==
  << isOwner, config.minOwners, config.quorum, config.isBootstrap, votes, Executed >>

\* The operations on the owners and the quorum.
LEMMA InitializeCouncil ==
  ASSUME IInv, IInv', NEW u \in Users, NEW m \in Sizes, NEW q \in Sizes,
         InitializeAgent(u, m, q)
  PROVE  Council!Found(u)
<1>1. isOwner = {} /\ isOwner' = {u}
  BY OwnersCounted DEF InitializeAgent
<1>2. /\ m \in Nat /\ q \in Nat \ {0}
      /\ config'.minOwners = m /\ config'.quorum = q /\ config'.isBootstrap = (m > 1)
  BY SizesAssumption DEF InitializeAgent
<1>3. votes' = votes /\ Executed' = Executed
  BY DEF InitializeAgent, Executed
<1>. QED
  BY <1>1, <1>2, <1>3 DEF Council!Found

LEMMA AddCouncil ==
  ASSUME IInv, IInv', NEW u \in Users, NEW v \in Users, AddOwner(u, v)
  PROVE  Council!Join(v)
<1>1. isOwner # {} /\ v \notin isOwner /\ isOwner' = isOwner \cup {v}
  BY DEF AddOwner, Owns
<1>2. Council!Cardinality(isOwner') = Len(owners')
  BY OwnersCountedNext
<1>3. Len(owners') = Len(owners) + 1
  BY AppendProperties DEF IInv, TypeOK, AddOwner
<1>4. /\ config'.minOwners = config.minOwners /\ config'.quorum = config.quorum
      /\ config'.isBootstrap = (config.isBootstrap /\ Len(owners) + 1 < config.minOwners)
  <2>. DEFINE b == config.isBootstrap /\ Len(owners) + 1 < config.minOwners
  <2>1. config' = [config EXCEPT !.isBootstrap = b]
    BY DEF AddOwner
  <2>. HIDE DEF b
  <2>2. /\ config'.minOwners = config.minOwners /\ config'.quorum = config.quorum
        /\ config'.isBootstrap = b
    BY <2>1 DEF IInv, TypeOK, Config
  <2>. QED
    BY <2>2 DEF b
<1>5. votes' = votes /\ Executed' = Executed
  BY DEF AddOwner, Executed
<1>. QED
  BY <1>1, <1>2, <1>3, <1>4, <1>5 DEF Council!Join

LEMMA RemoveCouncil ==
  ASSUME IInv, IInv', NEW u \in Users, NEW v \in Users, RemoveOwner(u, v)
  PROVE  Council!Leave(v)
<1>1. Distinct(owners) /\ isOwner = Elements(owners) /\ owners \in Seq(Users)
  BY OwnersAgreeDef DEF IInv, TypeOK
<1>2. v \in isOwner /\ isOwner' = isOwner \ {v} /\ Len(owners) > 1
  BY DEF RemoveOwner
<1>3. isOwner # {v}
  <2>1. Cardinality(isOwner) = Len(owners)
    BY <1>1, DistinctSize
  <2>2. ASSUME isOwner = {v} PROVE Len(owners) = 1
    BY <2>1, <2>2, FS_Singleton, Zenon
  <2>3. Len(owners) # 1
    BY <1>1, <1>2
  <2>. QED
    BY <2>2, <2>3, Zenon
<1>4. Len(owners') = Len(owners) - 1 /\ Len(owners) \in Nat
  BY <1>1, <1>2, SwapAndPopRemoves DEF RemoveOwner
<1>5. Council!Cardinality(isOwner') = Len(owners) - 1
  BY <1>4, OwnersCountedNext
<1>6. /\ config'.minOwners = config.minOwners
      /\ config'.isBootstrap = config.isBootstrap
      /\ config'.quorum = Clamped(config.quorum, Len(owners) - 1)
  BY DEF RemoveOwner, IInv, TypeOK, Config
<1>7. votes' = votes /\ Executed' = Executed
  BY DEF RemoveOwner, Executed
<1>. QED
  BY <1>2, <1>3, <1>5, <1>6, <1>7 DEF Council!Leave, Clamped

LEMMA QuorumCouncil ==
  ASSUME IInv, NEW u \in Users, NEW q \in Sizes, SetQuorum(u, q)
  PROVE  Council!SetQuorum
<1>1. isOwner # {} /\ Council!Cardinality(isOwner) = Len(owners)
  BY OwnersCounted DEF SetQuorum, Owns
<1>2. /\ config'.quorum = q /\ q \in 1 .. Len(owners)
      /\ config'.minOwners = config.minOwners
      /\ config'.isBootstrap = config.isBootstrap
  BY DEF SetQuorum, IInv, TypeOK, Config
<1>3. votes' = votes /\ Executed' = Executed /\ isOwner' = isOwner
  BY DEF SetQuorum, Executed
<1>. QED
  BY <1>1, <1>2, <1>3 DEF Council!SetQuorum

\* The operations on the proposals.
LEMMA OpenCouncil ==
  ASSUME IInv, NEW u \in Users, CreateProposal(u)
  PROVE  Council!Open(u)
<1>. DEFINE n == Len(proposals)
            p0 == [proposer |-> u, status |-> Decided(1), approvalCount |-> 1]
<1>1. p0 \in Proposal /\ p0.status = Decided(1)
  BY DEF Proposal, Decided
<1>2. proposals \in Seq(Proposal) /\ votes \in Seq(SUBSET Users) /\ Len(votes) = n /\ n \in Nat
  BY DEF IInv, TypeOK
<1>3. proposals' = Append(proposals, p0) /\ votes' = Append(votes, {u})
  BY DEF CreateProposal
<1>. HIDE DEF p0
<1>4. /\ Len(proposals') = n + 1 /\ proposals' \in Seq(Proposal)
      /\ \A p \in 1 .. n : proposals'[p] = proposals[p]
      /\ proposals'[n + 1] = p0
  BY <1>1, <1>2, <1>3, AppendProperties
<1>5. {u} \in SUBSET Users
  OBVIOUS
<1>6. Len(votes') = n + 1 /\ votes'[n + 1] = {u}
  BY <1>2, <1>3, <1>5, AppendProperties
<1>. HIDE DEF n
<1>7. /\ DOMAIN proposals = 1 .. n /\ DOMAIN proposals' = 1 .. n + 1
      /\ 1 .. n + 1 = (1 .. n) \cup {n + 1} /\ n + 1 \notin 1 .. n
  BY <1>2, <1>4 DEF n
<1>8. Council!Cardinality({u}) = 1
  BY FS_Singleton, SameCardinality
<1>9. Executed' = IF 1 >= config.quorum THEN Executed \cup {n + 1} ELSE Executed
  <2>1. CASE 1 >= config.quorum
    BY <1>1, <1>4, <1>7, <2>1 DEF Executed, Decided
  <2>2. CASE ~(1 >= config.quorum)
    BY <1>1, <1>4, <1>7, <2>2 DEF Executed, Decided
  <2>. QED
    BY <2>1, <2>2
<1>10. Council!Count(Len(votes'))
  BY <1>6, <1>8, <1>9 DEF Council!Count
<1>. QED
  BY <1>3, <1>10 DEF Council!Open, CreateProposal, Owns

LEMMA VoteCouncil ==
  ASSUME IInv, NEW u \in Users, NEW p \in 1 .. MaxProposals, ApproveProposal(u, p)
  PROVE  p \in DOMAIN votes /\ Council!Vote(u, p)
<1>1. /\ p \in DOMAIN proposals /\ proposals[p].status = "pending" /\ u \notin votes[p]
      /\ u \in isOwner
  BY DEF ApproveProposal, MayVote, Owns
<1>2. /\ proposals \in Seq(Proposal) /\ votes \in Seq(SUBSET Users)
      /\ DOMAIN votes = DOMAIN proposals
  BY DEF IInv, TypeOK
<1>3. ~config.isBootstrap
  BY <1>1, <1>2 DEF IInv
<1>. DEFINE n == proposals[p].approvalCount + 1
<1>4. votes' = [votes EXCEPT ![p] = @ \cup {u}] /\ votes'[p] = votes[p] \cup {u}
  BY <1>1, <1>2 DEF ApproveProposal
<1>5. Council!Cardinality(votes'[p]) = n
  BY <1>1, <1>2, <1>4, FS_AddElement, SameCardinality DEF IInv, VotesCounted
<1>6. /\ DOMAIN proposals' = DOMAIN proposals
      /\ proposals'[p].status = Decided(n)
      /\ \A r \in DOMAIN proposals : r # p => proposals'[r] = proposals[r]
  BY ApproveRecord
<1>. HIDE DEF n
<1>7. Executed' = IF n >= config.quorum THEN Executed \cup {p} ELSE Executed
  <2>1. CASE n >= config.quorum
    BY <1>1, <1>6, <2>1 DEF Executed, Decided
  <2>2. CASE ~(n >= config.quorum)
    BY <1>1, <1>6, <2>2 DEF Executed, Decided
  <2>. QED
    BY <2>1, <2>2
<1>8. p \notin Executed
  BY <1>1 DEF Executed
<1>9. Council!Count(p)
  BY <1>5, <1>7 DEF Council!Count
<1>. QED
  BY <1>1, <1>2, <1>3, <1>4, <1>8, <1>9 DEF Council!Vote, ApproveProposal

\* Every transaction is a step of the council.
LEMMA CouncilStep ==
  ASSUME IInv, IInv', [Next]_vars
  PROVE  [Council!Next]_councilVars
<1>1. ASSUME NEW u \in Users, NEW m \in Sizes, NEW q \in Sizes, InitializeAgent(u, m, q)
      PROVE  Council!Next
  BY <1>1, InitializeCouncil DEF Council!Next
<1>2. ASSUME NEW u \in Users, NEW v \in Users, AddOwner(u, v)
      PROVE  Council!Next
  BY <1>2, AddCouncil DEF Council!Next
<1>3. ASSUME NEW u \in Users, NEW v \in Users, RemoveOwner(u, v)
      PROVE  Council!Next
  BY <1>3, RemoveCouncil DEF Council!Next
<1>4. ASSUME NEW u \in Users, NEW q \in Sizes, SetQuorum(u, q)
      PROVE  Council!Next
  BY <1>4, QuorumCouncil DEF Council!Next
<1>5. ASSUME NEW u \in Users, CreateProposal(u)
      PROVE  Council!Next
  BY <1>5, OpenCouncil DEF Council!Next
<1>6. ASSUME NEW u \in Users, NEW p \in 1 .. MaxProposals, ApproveProposal(u, p)
      PROVE  Council!Next
  BY <1>6, VoteCouncil DEF Council!Next
<1>7. CASE UNCHANGED vars
  BY <1>7 DEF vars, councilVars, Executed
<1>. QED
  BY <1>1, <1>2, <1>3, <1>4, <1>5, <1>6, <1>7 DEF Next

\* AgentControl.sol implements a council of sets: the owner array, the owner
\* mapping, the lengths it compares and the approval counters agree in every
\* operation, for any users and any number of proposals.
THEOREM CouncilImplemented == Spec => ImplementsCouncil
<1>1. Init => Council!Init
  BY DEF Init, Council!Init, Executed
<1>2. IInv /\ IInv' /\ [Next]_vars => [Council!Next]_Council!vars
  BY CouncilStep DEF Council!vars, councilVars
<1>. QED
  BY <1>1, <1>2, ControlInvariant, PTL DEF Spec, Council!Spec, ImplementsCouncil
=============================================================================
