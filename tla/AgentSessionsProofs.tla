------------------------- MODULE AgentSessionsProofs -------------------------
(***************************************************************************)
(* Proofs about AgentSessions, for any accounts, sessions, tokens and      *)
(* numbers of concurrent handlers.                                         *)
(***************************************************************************)
EXTENDS AgentSessions, TLAPS

USE NumberAssumption, NullAssumption DEF Request

-----------------------------------------------------------------------------
(* What every state reached satisfies.                                     *)

\* A packaged session carries a delegation of its account to its own key, and
\* what makes a row active with a package is a delegation.
RowOK(s) ==
  /\ rows[s].status = "active" /\ rows[s].package # NoPackage
       => rows[s].package \in Delegation
  /\ rows[s].package \in Delegation =>
       rows[s].package.delegate = s /\ rows[s].package.delegator = rows[s].account
RowInv == \A s \in Sessions : rows[s] # NoRow => RowOK(s)

\* What a suspended handler has found out still holds.
LoginOK(q) == challenges[q.challenge] # NoRow
PackageOK(q) ==
  /\ rows[q.sid] # NoRow
  /\ q.delegation.delegate = q.sid
  /\ q.delegation.delegator = rows[q.sid].account
AskedOK(q) ==
  q.delegation.delegate = q.sid /\ q.delegation.delegator = q.owner
UseOK(q) ==
  /\ tokens[q.token] # NoRow
  /\ q.kind = "revocation" /\ q.late => tokens[q.token].delegation \in revoked
  /\ q.kind = "erc1271" => ~q.late
ReqInv ==
  \A r \in Reqs :
    /\ IsReq(r, "login") \/ IsReq(r, "insert") => LoginOK(reqs[r])
    /\ IsReq(r, "package") => PackageOK(reqs[r])
    /\ IsReq(r, "mint") => AskedOK(reqs[r])
    /\ IsReq(r, "revocation") \/ IsReq(r, "erc1271") => UseOK(reqs[r])

CountInv ==
  \A t \in Tokens : accepted[t].count <= usage[t] /\ usage[t] <= UsageLimit

IInv ==
  /\ TypeOK /\ RowInv /\ ReqInv /\ CountInv
  /\ TokensSpeakForOwner /\ RevocationReachesTokens

-----------------------------------------------------------------------------
(* Lemmas.                                                                 *)

\* A suspended handler is of one of the four kinds.
LEMMA Kinds ==
  ASSUME TypeOK, NEW r \in Reqs
  PROVE  /\ IsReq(r, "login") \/ IsReq(r, "insert") => reqs[r] \in Login
         /\ IsReq(r, "package") => reqs[r] \in Package
         /\ IsReq(r, "mint") => reqs[r] \in Asked
         /\ IsReq(r, "revocation") \/ IsReq(r, "erc1271") => reqs[r] \in Use
BY DEF TypeOK, IsReq, Login, Package, Asked, Use

\* A handler that waits or is answered leaves the others alone.
LEMMA Awaits ==
  ASSUME TypeOK, NEW r \in Reqs, NEW q \in Request, Await(r, q)
  PROVE  /\ reqs' \in [Reqs -> Request \cup {Idle}]
         /\ reqs'[r] = q /\ \A p \in Reqs \ {r} : reqs'[p] = reqs[p]
BY DEF TypeOK, Await

\* A handler that is answered is idle, and the others stay where they are.
LEMMA Answers ==
  ASSUME TypeOK, NEW r \in Reqs, Answer(r)
  PROVE  /\ reqs' \in [Reqs -> Request \cup {Idle}]
         /\ reqs'[r] = Idle /\ \A p \in Reqs \ {r} : reqs'[p] = reqs[p]
BY DEF TypeOK, Answer

\* Suspended handlers stay right while challenges, rows and tokens are only
\* added, accounts are kept and revocations accumulate.
Grows ==
  /\ \A c \in Challenges : challenges[c] # NoRow => challenges'[c] # NoRow
  /\ \A s \in Sessions : rows[s] # NoRow =>
       rows'[s] # NoRow /\ rows'[s].account = rows[s].account
  /\ \A t \in Tokens : tokens[t] # NoRow => tokens'[t] = tokens[t]
  /\ revoked \subseteq revoked'

\* Growth alone disturbs no suspended handler.
LEMMA RequestsKept ==
  ASSUME TypeOK, ReqInv, Grows,
         \A r \in Reqs : reqs'[r] = reqs[r] \/ reqs'[r] = Idle
  PROVE  ReqInv'
<1>. SUFFICES ASSUME NEW r \in Reqs, reqs'[r] = reqs[r]
              PROVE  /\ IsReq(r, "login")' \/ IsReq(r, "insert")'
                          => LoginOK(reqs[r])'
                     /\ IsReq(r, "package")' => PackageOK(reqs[r])'
                     /\ IsReq(r, "mint")' => AskedOK(reqs[r])'
                     /\ IsReq(r, "revocation")' \/ IsReq(r, "erc1271")'
                          => UseOK(reqs[r])'
  BY DEF ReqInv, IsReq
<1>1. \A k \in {"login", "insert", "package", "mint", "revocation", "erc1271"} :
        IsReq(r, k)' => IsReq(r, k)
  BY DEF IsReq
<1>2. IsReq(r, "login")' \/ IsReq(r, "insert")' => LoginOK(reqs[r])'
  BY <1>1, Kinds DEF ReqInv, LoginOK, Grows, Login
<1>3. IsReq(r, "package")' => PackageOK(reqs[r])'
  BY <1>1, Kinds DEF ReqInv, PackageOK, Grows, Package
<1>5. IsReq(r, "mint")' => AskedOK(reqs[r])'
  BY <1>1 DEF ReqInv, AskedOK
<1>4. IsReq(r, "revocation")' \/ IsReq(r, "erc1271")' => UseOK(reqs[r])'
  BY <1>1, Kinds DEF ReqInv, UseOK, Grows, Use
<1>. QED BY <1>2, <1>3, <1>4, <1>5

\* The same when one handler begins to wait for q.
LEMMA RequestAdded ==
  ASSUME TypeOK, ReqInv, Grows, NEW r \in Reqs,
         NEW q \in Request, reqs'[r] = q,
         \A p \in Reqs \ {r} : reqs'[p] = reqs[p],
         q \in Login => LoginOK(q)',
         q \in Package => PackageOK(q)',
         q \in Asked => AskedOK(q),
         q \in Use => UseOK(q)'
  PROVE  ReqInv'
<1>. SUFFICES ASSUME NEW p \in Reqs
              PROVE  /\ IsReq(p, "login")' \/ IsReq(p, "insert")'
                          => LoginOK(reqs[p])'
                     /\ IsReq(p, "package")' => PackageOK(reqs[p])'
                     /\ IsReq(p, "mint")' => AskedOK(reqs[p])'
                     /\ IsReq(p, "revocation")' \/ IsReq(p, "erc1271")'
                          => UseOK(reqs[p])'
  BY DEF ReqInv
<1>1. CASE p = r
  BY <1>1 DEF IsReq, Login, Package, Asked, Use, LoginOK, PackageOK, AskedOK, UseOK
<1>2. CASE p # r
  <2>1. \A k \in {"login", "insert", "package", "mint", "revocation", "erc1271"} :
          IsReq(p, k)' => IsReq(p, k)
    BY <1>2 DEF IsReq
  <2>2. IsReq(p, "login")' \/ IsReq(p, "insert")' => LoginOK(reqs[p])'
    BY <1>2, <2>1, Kinds DEF ReqInv, LoginOK, Grows, Login
  <2>3. IsReq(p, "package")' => PackageOK(reqs[p])'
    BY <1>2, <2>1, Kinds DEF ReqInv, PackageOK, Grows, Package
  <2>5. IsReq(p, "mint")' => AskedOK(reqs[p])'
    BY <1>2, <2>1 DEF ReqInv, AskedOK
  <2>4. IsReq(p, "revocation")' \/ IsReq(p, "erc1271")' => UseOK(reqs[p])'
    BY <1>2, <2>1, Kinds DEF ReqInv, UseOK, Grows, Use
  <2>. QED BY <2>2, <2>3, <2>4, <2>5
<1>. QED BY <1>1, <1>2

-----------------------------------------------------------------------------
(* Every step keeps the invariant.                                         *)

\* A handler that begins to wait and changes nothing else but the challenges.
LEMMA WaitInv ==
  ASSUME IInv, NEW r \in Reqs, NEW q \in Request, Await(r, q),
         UNCHANGED << now, challenges, rows, tokens, usage, revoked, accepted >>,
         q \in Login => LoginOK(q),
         q \in Package => PackageOK(q),
         q \in Asked => AskedOK(q),
         q \in Use => UseOK(q)
  PROVE  IInv'
<1>1. Grows /\ TypeOK /\ ReqInv
  BY DEF Grows, IInv
<1>2. TypeOK'
  BY <1>1, Awaits DEF TypeOK
<1>3. /\ q \in Login => LoginOK(q)'
      /\ q \in Package => PackageOK(q)'
      /\ q \in Use => UseOK(q)'
  BY DEF LoginOK, PackageOK, UseOK
<1>4. ReqInv'
  BY <1>1, <1>3, Awaits, RequestAdded
<1>5. RowInv' /\ CountInv' /\ TokensSpeakForOwner' /\ RevocationReachesTokens'
  BY DEF IInv, RowInv, RowOK, CountInv, TokensSpeakForOwner, RevocationReachesTokens
<1>. QED BY <1>2, <1>4, <1>5 DEF IInv

\* A step of the challenges alone.
LEMMA ChallengeInv ==
  ASSUME IInv, challenges' \in [Challenges -> Challenge \cup {NoRow}],
         \A c \in Challenges : challenges[c] # NoRow => challenges'[c] # NoRow,
         UNCHANGED << now, rows, tokens, usage, revoked, reqs, accepted >>
  PROVE  IInv'
<1>1. Grows /\ TypeOK /\ ReqInv
  BY DEF Grows, IInv
<1>2. TypeOK'
  BY <1>1 DEF TypeOK
<1>3. ReqInv'
  BY <1>1, RequestsKept
<1>4. RowInv' /\ CountInv' /\ TokensSpeakForOwner' /\ RevocationReachesTokens'
  BY DEF IInv, RowInv, RowOK, CountInv, TokensSpeakForOwner, RevocationReachesTokens
<1>. QED BY <1>2, <1>3, <1>4 DEF IInv

\* A step that writes one row, and may answer a handler and use up a challenge.
LEMMA RowWritten ==
  ASSUME IInv, NEW s \in Sessions, NEW x \in Row, rows' = [rows EXCEPT ![s] = x],
         rows[s] # NoRow => x.account = rows[s].account,
         RowOK(s)',
         challenges' \in [Challenges -> Challenge \cup {NoRow}],
         \A c \in Challenges : challenges[c] # NoRow => challenges'[c] # NoRow,
         reqs' \in [Reqs -> Request \cup {Idle}],
         \A r \in Reqs : reqs'[r] = reqs[r] \/ reqs'[r] = Idle,
         UNCHANGED << now, tokens, usage, revoked, accepted >>
  PROVE  IInv'
<1>1. TypeOK /\ ReqInv /\ rows'[s] = x /\ x # NoRow
      /\ \A q \in Sessions \ {s} : rows'[q] = rows[q]
  BY DEF IInv, TypeOK
<1>2. Grows
  BY <1>1 DEF Grows
<1>3. TypeOK'
  BY <1>1 DEF TypeOK
<1>4. ReqInv'
  BY <1>1, <1>2, RequestsKept
<1>5. RowInv'
  BY <1>1 DEF IInv, RowInv, RowOK
<1>6. CountInv' /\ TokensSpeakForOwner' /\ RevocationReachesTokens'
  BY DEF IInv, CountInv, TokensSpeakForOwner, RevocationReachesTokens
<1>. QED BY <1>3, <1>4, <1>5, <1>6 DEF IInv

\* Log-in: challenge, verification, answer.
LEMMA LoginInv ==
  ASSUME IInv,
         \/ \E c \in Challenges, a \in Accounts : CreateChallenge(c, a)
         \/ \E r \in Reqs, c \in Challenges : VerifyBegin(r, c)
         \/ \E r \in Reqs : VerifyMark(r) \/ \E s \in Sessions : VerifyInsert(r, s)
  PROVE  IInv'
<1>. USE DEF IInv
<1>1. ASSUME NEW c \in Challenges, NEW a \in Accounts,
             CreateChallenge(c, a)
      PROVE  IInv'
  <2>. DEFINE x == [account |-> a, status |-> "pending", expires |-> now + ChallengeTTL]
  <2>1. x \in Challenge /\ x # NoRow
    BY DEF Challenge, TypeOK
  <2>. HIDE DEF x
  <2>2. challenges' = [challenges EXCEPT ![c] = x]
    BY <1>1 DEF CreateChallenge, x
  <2>. QED BY <1>1, <2>1, <2>2, ChallengeInv DEF CreateChallenge, TypeOK
<1>2. ASSUME NEW r \in Reqs, NEW c \in Challenges,
             VerifyBegin(r, c)
      PROVE  IInv'
  <2>1. CASE challenges[c].expires < now
    <3>1. challenges[c] \in Challenge
      BY <1>2 DEF VerifyBegin, TypeOK
    <3>. DEFINE x == [challenges[c] EXCEPT !.status = "expired"]
    <3>2. x \in Challenge /\ x # NoRow
      BY <3>1 DEF Challenge
    <3>3. challenges' = [challenges EXCEPT ![c] = x]
      BY <1>2, <2>1 DEF VerifyBegin
    <3>. HIDE DEF x
    <3>. QED BY <1>2, <2>1, <3>2, <3>3, ChallengeInv DEF VerifyBegin, TypeOK
  <2>2. CASE ~(challenges[c].expires < now)
    <3>. DEFINE q == [kind |-> "login", challenge |-> c]
    <3>1. q \in Login /\ q \notin Package /\ q \notin Asked /\ q \notin Use /\ LoginOK(q)
      BY <1>2 DEF Login, Package, Asked, Use, LoginOK, VerifyBegin
    <3>2. Await(r, q)
      BY <1>2, <2>2 DEF VerifyBegin
    <3>. HIDE DEF q
    <3>. QED BY <1>2, <2>2, <3>1, <3>2, WaitInv DEF VerifyBegin
  <2>. QED BY <2>1, <2>2
<1>3. ASSUME NEW r \in Reqs,
             VerifyMark(r)
      PROVE  IInv'
  <2>1. reqs[r] \in Login /\ LoginOK(reqs[r])
    BY <1>3, Kinds DEF VerifyMark, ReqInv
  <2>. PICK d \in Challenges : d = reqs[r].challenge
    BY <2>1 DEF Login
  <2>. PICK q : q = [reqs[r] EXCEPT !.kind = "insert"]
    OBVIOUS
  <2>. DEFINE y == [challenges[d] EXCEPT !.status = "verified"]
  <2>2. challenges[d] \in Challenge /\ challenges[d] # NoRow
    BY <2>1 DEF LoginOK, TypeOK
  <2>3. q \in Login /\ q.challenge = d /\ q \notin Package /\ q \notin Asked /\ q \notin Use
    BY <2>1 DEF Login, Package, Asked, Use
  <2>4. y \in Challenge /\ y # NoRow
    BY <2>2 DEF Challenge
  <2>5. /\ challenges' = [challenges EXCEPT ![d] = y] /\ reqs' = [reqs EXCEPT ![r] = q]
        /\ UNCHANGED << now, rows, tokens, usage, revoked, accepted >>
    BY <1>3 DEF VerifyMark
  <2>. HIDE DEF y
  <2>6. /\ challenges' \in [Challenges -> Challenge \cup {NoRow}]
        /\ \A c \in Challenges : challenges[c] # NoRow => challenges'[c] # NoRow
        /\ challenges'[d] # NoRow
    BY <2>4, <2>5 DEF TypeOK
  <2>7. Grows /\ LoginOK(q)' /\ TypeOK'
    BY <2>3, <2>5, <2>6 DEF Grows, LoginOK, TypeOK
  <2>8. reqs'[r] = q /\ \A p \in Reqs \ {r} : reqs'[p] = reqs[p]
    BY <2>5 DEF TypeOK
  <2>9. ReqInv'
    BY <2>3, <2>7, <2>8, RequestAdded
  <2>10. RowInv' /\ CountInv' /\ TokensSpeakForOwner' /\ RevocationReachesTokens'
    BY <2>5 DEF RowInv, RowOK, CountInv, TokensSpeakForOwner, RevocationReachesTokens
  <2>. QED BY <2>7, <2>9, <2>10
<1>4. ASSUME NEW r \in Reqs, NEW s \in Sessions,
             VerifyInsert(r, s)
      PROVE  IInv'
  <2>. DEFINE d == reqs[r].challenge
              x == [ account |-> challenges[d].account, package |-> NoPackage,
                     status |-> "active", expires |-> now + LoginTTL, from |-> {d} ]
  <2>1. reqs[r] \in Login /\ d \in Challenges /\ challenges[d] # NoRow
    BY <1>4, Kinds DEF VerifyInsert, ReqInv, LoginOK, Login
  <2>2. challenges[d] \in Challenge /\ now \in Nat
    BY <2>1 DEF TypeOK
  <2>3. x \in Row /\ x.package = NoPackage
    BY <2>1, <2>2 DEF Row, Challenge
  <2>4. rows' = [rows EXCEPT ![s] = x] /\ rows[s] = NoRow
    BY <1>4 DEF VerifyInsert, Insert, Used
  <2>. HIDE DEF x
  <2>5. RowOK(s)'
    BY <2>3, <2>4 DEF RowOK, TypeOK
  <2>6. reqs' \in [Reqs -> Request \cup {Idle}]
        /\ \A p \in Reqs : reqs'[p] = reqs[p] \/ reqs'[p] = Idle
    BY <1>4, Answers DEF VerifyInsert
  <2>7. UNCHANGED << now, challenges, tokens, usage, revoked, accepted >>
    BY <1>4 DEF VerifyInsert
  <2>. QED BY <2>3, <2>4, <2>5, <2>6, <2>7, RowWritten DEF TypeOK
<1>. QED BY <1>1, <1>2, <1>3, <1>4

\* Agent sessions: init, package, delete.
LEMMA PackageInv ==
  ASSUME IInv,
         \/ \E s \in Sessions, a \in Accounts, n \in Durations : SessionInit(s, a, n)
         \/ \E r \in Reqs, s \in Sessions, d \in Delegation : PackageBegin(r, s, d)
         \/ \E r \in Reqs : PackageActivate(r)
         \/ \E s \in Sessions : SessionDelete(s)
  PROVE  IInv'
<1>. USE DEF IInv
<1>1. ASSUME NEW s \in Sessions, NEW a \in Accounts, NEW n \in Durations,
             SessionInit(s, a, n)
      PROVE  IInv'
  <2>. DEFINE x == [ account |-> a, package |-> Unsigned, status |-> "pending",
                     expires |-> now + n, from |-> {} ]
  <2>0. now + n \in Nat
    <3>1. now \in Nat /\ n \in Nat
      BY DEF TypeOK
    <3>. QED BY <3>1
  <2>1. x \in Row /\ x.package = Unsigned /\ x.status = "pending"
    BY <2>0 DEF Row
  <2>2. rows' = [rows EXCEPT ![s] = x] /\ rows[s] = NoRow
    BY <1>1 DEF SessionInit, Insert, Used
  <2>. HIDE DEF x
  <2>3. RowOK(s)'
    BY <2>1, <2>2 DEF RowOK, TypeOK
  <2>. QED BY <1>1, <2>1, <2>2, <2>3, RowWritten DEF SessionInit, TypeOK
<1>2. ASSUME NEW r \in Reqs, NEW s \in Sessions, NEW d \in Delegation,
             PackageBegin(r, s, d)
      PROVE  IInv'
  <2>. DEFINE q == [kind |-> "package", sid |-> s, delegation |-> d]
  <2>1. q \in Package /\ q \notin Login /\ q \notin Asked /\ q \notin Use /\ PackageOK(q)
    BY <1>2 DEF Login, Package, Asked, Use, PackageOK, PackageBegin
  <2>2. Await(r, q)
    BY <1>2 DEF PackageBegin
  <2>. HIDE DEF q
  <2>. QED BY <1>2, <2>1, <2>2, WaitInv DEF PackageBegin
<1>3. ASSUME NEW r \in Reqs,
             PackageActivate(r)
      PROVE  IInv'
  <2>0. reqs[r] \in Package /\ PackageOK(reqs[r])
    BY <1>3, Kinds DEF PackageActivate, ReqInv
  <2>. PICK t \in Sessions : t = reqs[r].sid
    BY <2>0 DEF Package
  <2>. DEFINE x == [rows[t] EXCEPT !.package = reqs[r].delegation, !.status = "active"]
  <2>1. /\ reqs[r].delegation \in Delegation
        /\ rows[t] # NoRow /\ reqs[r].delegation.delegate = t
        /\ reqs[r].delegation.delegator = rows[t].account
    BY <2>0 DEF PackageOK, Package
  <2>2. rows[t] \in Row
    BY <2>1 DEF TypeOK
  <2>3. x \in Row /\ x.package = reqs[r].delegation /\ x.account = rows[t].account
    BY <2>1, <2>2 DEF Row
  <2>4. rows' = [rows EXCEPT ![t] = x]
    BY <1>3 DEF PackageActivate
  <2>. HIDE DEF x
  <2>5. RowOK(t)'
    BY <2>1, <2>3, <2>4 DEF RowOK, TypeOK
  <2>6. reqs' \in [Reqs -> Request \cup {Idle}]
        /\ \A p \in Reqs : reqs'[p] = reqs[p] \/ reqs'[p] = Idle
    BY <1>3, Answers DEF PackageActivate
  <2>. QED BY <1>3, <2>1, <2>3, <2>4, <2>5, <2>6, RowWritten DEF PackageActivate, TypeOK
<1>4. ASSUME NEW s \in Sessions,
             SessionDelete(s)
      PROVE  IInv'
  <2>. DEFINE x == [rows[s] EXCEPT !.status = "revoked"]
  <2>1. rows[s] \in Row /\ RowOK(s) /\ rows[s] # NoRow
    BY <1>4 DEF SessionDelete, TypeOK, RowInv
  <2>2. x \in Row /\ x.account = rows[s].account /\ x.package = rows[s].package
        /\ x.status = "revoked"
    BY <2>1 DEF Row
  <2>3. rows' = [rows EXCEPT ![s] = x]
    BY <1>4 DEF SessionDelete
  <2>. HIDE DEF x
  <2>4. RowOK(s)'
    BY <2>1, <2>2, <2>3 DEF RowOK, TypeOK
  <2>. QED BY <1>4, <2>1, <2>2, <2>3, <2>4, RowWritten DEF SessionDelete, TypeOK
<1>. QED BY <1>1, <1>2, <1>3, <1>4

\* Minting: what is read from the row, and the token signed later.
LEMMA MintInv ==
  ASSUME IInv,
         \/ \E r \in Reqs, a \in Accounts : MintBegin(r, a)
         \/ \E r \in Reqs, t \in Tokens : MintEnd(r, t)
  PROVE  IInv'
<1>. USE DEF IInv
<1>1. ASSUME NEW r \in Reqs, NEW a \in Accounts, MintBegin(r, a)
      PROVE  IInv'
  <2>1. PICK s \in Packaged(a) :
          Await(r, [ kind |-> "mint", sid |-> s, delegation |-> rows[s].package,
                     owner |-> a, expires |-> rows[s].expires ])
    BY <1>1 DEF MintBegin
  <2>2. /\ s \in Sessions /\ rows[s] \in Row /\ RowOK(s) /\ rows[s].account = a
        /\ rows[s].package \in Delegation /\ rows[s].expires \in Nat
    BY DEF Packaged, TypeOK, RowInv, RowOK, Row
  <2>. DEFINE q == [ kind |-> "mint", sid |-> s, delegation |-> rows[s].package,
                     owner |-> a, expires |-> rows[s].expires ]
  <2>3. q \in Asked /\ q \notin Login /\ q \notin Package /\ q \notin Use
    BY <2>2 DEF Asked, Login, Package, Use
  <2>4. AskedOK(q)
    BY <2>2 DEF AskedOK, RowOK
  <2>5. Await(r, q)
    BY <2>1
  <2>. HIDE DEF q
  <2>. QED BY <1>1, <2>3, <2>4, <2>5, WaitInv DEF MintBegin
<1>2. ASSUME NEW r \in Reqs, NEW t \in Tokens, MintEnd(r, t)
      PROVE  IInv'
  <2>1. reqs[r] \in Asked /\ AskedOK(reqs[r])
    BY <1>2, Kinds DEF MintEnd, ReqInv
  <2>. DEFINE x == [ delegation |-> reqs[r].delegation, key |-> reqs[r].sid,
                     owner |-> reqs[r].owner, expires |-> reqs[r].expires ]
  <2>2. /\ x \in Token /\ x # NoRow /\ x.delegation \in Delegation
        /\ x.delegation.delegator = x.owner /\ x.delegation.delegate = x.key
    BY <2>1 DEF Token, Asked, AskedOK
  <2>3. /\ tokens' = [tokens EXCEPT ![t] = x] /\ tokens[t] = NoRow
        /\ UNCHANGED << now, challenges, rows, usage, revoked, accepted >>
    BY <1>2 DEF MintEnd
  <2>. HIDE DEF x
  <2>4. reqs' \in [Reqs -> Request \cup {Idle}]
        /\ \A p \in Reqs : reqs'[p] = reqs[p] \/ reqs'[p] = Idle
    BY <1>2, Answers DEF MintEnd
  <2>5. Grows
    BY <2>3 DEF Grows, TypeOK
  <2>6. TypeOK'
    BY <2>2, <2>3, <2>4 DEF TypeOK
  <2>7. ReqInv'
    BY <2>4, <2>5, RequestsKept
  <2>8. TokensSpeakForOwner'
    BY <2>2, <2>3 DEF TokensSpeakForOwner, TypeOK
  <2>9. RowInv' /\ CountInv' /\ RevocationReachesTokens'
    BY <2>3 DEF RowInv, RowOK, CountInv, RevocationReachesTokens
  <2>. QED BY <2>6, <2>7, <2>8, <2>9
<1>. QED BY <1>1, <1>2

\* Verification of a token.
LEMMA UseInv ==
  ASSUME IInv,
         \/ \E r \in Reqs, t \in Tokens : UseBegin(r, t)
         \/ \E r \in Reqs : UseNotRevoked(r) \/ UseAccept(r)
  PROVE  IInv'
<1>. USE DEF IInv
<1>1. ASSUME NEW r \in Reqs, NEW t \in Tokens,
             UseBegin(r, t)
      PROVE  IInv'
  <2>. DEFINE b == tokens[t].delegation \in revoked
              q == [kind |-> "revocation", token |-> t, late |-> b]
  <2>0. b \in BOOLEAN /\ tokens[t] # NoRow /\ Await(r, q)
    BY <1>1 DEF UseBegin
  <2>1a. q.kind = "revocation" /\ q.token = t /\ q.late = b
    OBVIOUS
  <2>1b. q.late => tokens[t].delegation \in revoked
    BY <2>1a
  <2>. HIDE DEF b
  <2>1c. q \in Use
    BY <2>0 DEF Use
  <2>1d. q \notin Login /\ q \notin Package /\ q \notin Asked
    BY DEF Login, Package, Asked
  <2>1e. UseOK(q)
    BY <2>0, <2>1a, <2>1b DEF UseOK
  <2>. HIDE DEF q
  <2>. QED BY <1>1, <2>0, <2>1c, <2>1d, <2>1e, WaitInv DEF UseBegin
<1>2. ASSUME NEW r \in Reqs,
             UseNotRevoked(r)
      PROVE  IInv'
  <2>1. reqs[r] \in Use /\ UseOK(reqs[r]) /\ reqs[r].kind = "revocation"
    BY <1>2, Kinds DEF UseNotRevoked, ReqInv, IsReq
  <2>. PICK q : q = [reqs[r] EXCEPT !.kind = "erc1271"]
    OBVIOUS
  <2>2. q \in Use /\ q \notin Login /\ q \notin Package /\ q \notin Asked
        /\ q.token = reqs[r].token /\ q.late = reqs[r].late /\ q.kind = "erc1271"
    BY <2>1 DEF Login, Package, Asked, Use
  <2>3. UseOK(q)
    BY <1>2, <2>1, <2>2 DEF UseOK, UseNotRevoked, Use
  <2>4. reqs' = [reqs EXCEPT ![r] = q]
        /\ UNCHANGED << now, challenges, rows, tokens, usage, revoked, accepted >>
    BY <1>2 DEF UseNotRevoked
  <2>5. Grows /\ UseOK(q)' /\ TypeOK'
    BY <2>2, <2>3, <2>4 DEF Grows, UseOK, TypeOK
  <2>6. reqs'[r] = q /\ \A p \in Reqs \ {r} : reqs'[p] = reqs[p]
    BY <2>4 DEF TypeOK
  <2>7. ReqInv'
    BY <2>2, <2>5, <2>6, RequestAdded
  <2>8. RowInv' /\ CountInv' /\ TokensSpeakForOwner' /\ RevocationReachesTokens'
    BY <2>4 DEF RowInv, RowOK, CountInv, TokensSpeakForOwner, RevocationReachesTokens
  <2>. QED BY <2>5, <2>7, <2>8
<1>3. ASSUME NEW r \in Reqs,
             UseAccept(r)
      PROVE  IInv'
  <2>0. reqs[r] \in Use /\ UseOK(reqs[r]) /\ reqs[r].kind = "erc1271"
    BY <1>3, Kinds DEF UseAccept, ReqInv, IsReq
  <2>. PICK u \in Tokens : u = reqs[r].token
    BY <2>0 DEF Use
  <2>1. ~reqs[r].late /\ reqs[r].late \in BOOLEAN
    BY <2>0 DEF UseOK, Use
  <2>2. /\ usage[u] = 0 \/ usage[u] < UsageLimit
        /\ usage' = [usage EXCEPT ![u] = usage[u] + 1]
        /\ accepted' = [accepted EXCEPT ![u] =
             [count |-> accepted[u].count + 1,
              late |-> accepted[u].late \/ reqs[r].late]]
        /\ UNCHANGED << now, challenges, rows, tokens, revoked >>
    BY <1>3 DEF UseAccept, CountUse
  <2>3. accepted[u].late \in BOOLEAN /\ accepted[u].count \in Nat /\ ~accepted[u].late
        /\ usage[u] \in Nat
    BY DEF TypeOK, RevocationReachesTokens
  <2>. DEFINE x == [count |-> accepted[u].count + 1,
                    late |-> accepted[u].late \/ reqs[r].late]
  <2>4a. (accepted[u].late \/ reqs[r].late) \in BOOLEAN
    OBVIOUS
  <2>4. x \in [count : Nat, late : BOOLEAN] /\ x.count = accepted[u].count + 1
    BY <2>3, <2>4a
  <2>5. ~x.late
    BY <2>1, <2>3
  <2>. HIDE DEF x
  <2>6. accepted' = [accepted EXCEPT ![u] = x]
    BY <2>2 DEF x
  <2>7. reqs' \in [Reqs -> Request \cup {Idle}]
        /\ \A p \in Reqs : reqs'[p] = reqs[p] \/ reqs'[p] = Idle
    BY <1>3, Answers DEF UseAccept
  <2>8. TypeOK'
    BY <2>2, <2>3, <2>4, <2>6, <2>7 DEF TypeOK
  <2>9. ReqInv'
    <3>1. Grows
      BY <2>2 DEF Grows
    <3>. QED BY <2>7, <3>1, RequestsKept
  <2>10. CountInv'
    BY <2>2, <2>3, <2>4, <2>6 DEF CountInv, TypeOK
  <2>11. RevocationReachesTokens'
    BY <2>5, <2>6 DEF RevocationReachesTokens, TypeOK
  <2>12. RowInv' /\ TokensSpeakForOwner'
    BY <2>2 DEF RowInv, RowOK, TokensSpeakForOwner
  <2>. QED BY <2>8, <2>9, <2>10, <2>11, <2>12
<1>. QED BY <1>1, <1>2, <1>3

\* Failures, restarts, revocations on chain, the clock.
LEMMA OtherInv ==
  ASSUME IInv,
         \/ \E r \in Reqs : Fail(r)
         \/ \E kinds : Restart(kinds)
         \/ \E d \in Delegation : ChainRevoke(d)
         \/ Tick \/ UNCHANGED vars
  PROVE  IInv'
<1>1. /\ UNCHANGED << challenges, rows, tokens, usage, accepted >>
      /\ revoked \subseteq revoked' /\ revoked' \subseteq Delegation /\ now' \in Nat
      /\ reqs' \in [Reqs -> Request \cup {Idle}]
      /\ \A p \in Reqs : reqs'[p] = reqs[p] \/ reqs'[p] = Idle
  <2>. USE DEF IInv, TypeOK
  <2>1. CASE \E r \in Reqs : Fail(r)
    BY <2>1 DEF Fail, Answer
  <2>2. CASE \E kinds : Restart(kinds)
    BY <2>2 DEF Restart
  <2>3. CASE \E d \in Delegation : ChainRevoke(d)
    BY <2>3 DEF ChainRevoke
  <2>4. CASE Tick
    BY <2>4 DEF Tick
  <2>5. CASE UNCHANGED vars
    BY <2>5 DEF vars
  <2>. QED BY <2>1, <2>2, <2>3, <2>4, <2>5
<1>2. Grows /\ TypeOK /\ ReqInv
  BY <1>1 DEF IInv, Grows
<1>3. TypeOK'
  BY <1>1, <1>2 DEF TypeOK
<1>4. ReqInv'
  BY <1>1, <1>2, RequestsKept
<1>5. RowInv' /\ CountInv' /\ TokensSpeakForOwner' /\ RevocationReachesTokens'
  BY <1>1 DEF IInv, RowInv, RowOK, CountInv, TokensSpeakForOwner, RevocationReachesTokens
<1>. QED BY <1>3, <1>4, <1>5 DEF IInv

-----------------------------------------------------------------------------
(* Theorems.                                                               *)

\* There are no rows, tokens or handlers at first.
LEMMA InitInv == Init => IInv
<1>. SUFFICES ASSUME Init PROVE IInv
  OBVIOUS
<1>1. \A t \in Tokens : tokens[t] = NoRow /\ usage[t] = 0
                         /\ accepted[t].count = 0 /\ ~accepted[t].late
  BY DEF Init
<1>2. TypeOK /\ RowInv /\ ReqInv
  BY DEF Init, TypeOK, RowInv, ReqInv, IsReq
<1>. QED BY <1>1, <1>2 DEF IInv, CountInv, TokensSpeakForOwner,
       RevocationReachesTokens

\* Every step keeps the invariant, one case per action.
LEMMA NextInv == IInv /\ [Next]_vars => IInv'
<1>. SUFFICES ASSUME IInv, [Next]_vars PROVE IInv'
  OBVIOUS
<1>1. CASE \/ \E r \in Reqs, a \in Accounts : MintBegin(r, a)
           \/ \E r \in Reqs, t \in Tokens : MintEnd(r, t)
  BY <1>1, MintInv
<1>. QED BY <1>1, LoginInv, PackageInv, UseInv, OtherInv DEF Next

\* The inductive invariant, with the facts suspended handlers rely on.
THEOREM SessionInvariant == Spec => []IInv
<1>. QED BY InitInv, NextInv, PTL DEF Spec

\* Types; in particular a minted token always carries a delegation, never a
\* log-in row's missing package (POST /delegation/mint).
THEOREM SessionTypes == Spec => []TypeOK
<1>1. IInv => TypeOK
  BY DEF IInv
<1>. QED BY <1>1, SessionInvariant, PTL

\* A token speaks for the account that asked for it, however packages race.
THEOREM TokensAreTheOwners == Spec => []TokensSpeakForOwner
<1>1. IInv => TokensSpeakForOwner
  BY DEF IInv
<1>. QED BY <1>1, SessionInvariant, PTL

\* Concurrent verifications accept a token no more often than its usage limit
\* (verifyDelegationAndExtractPrincipal, layer 3).
THEOREM TokensAreMetered == Spec => []TokenUseMetered
<1>1. IInv => TokenUseMetered
  BY DEF IInv, TypeOK, CountInv, TokenUseMetered
<1>. QED BY <1>1, SessionInvariant, PTL

\* No verification begun after the revocation on chain accepts the token.
THEOREM RevocationReaches == Spec => []RevocationReachesTokens
<1>1. IInv => RevocationReachesTokens
  BY DEF IInv
<1>. QED BY <1>1, SessionInvariant, PTL

\* Which handlers a step can bring into existence: none but those that begin.
LEMMA NewRequests ==
  ASSUME TypeOK, Next, NEW p \in Reqs
  PROVE  \/ reqs'[p] = reqs[p] \/ reqs'[p] = Idle
         \/ \E c \in Challenges : VerifyBegin(p, c)
                /\ reqs'[p] = [kind |-> "login", challenge |-> c]
         \/ \E s \in Sessions, d \in Delegation : PackageBegin(p, s, d)
                /\ reqs'[p] = [kind |-> "package", sid |-> s, delegation |-> d]
         \/ /\ IsReq(p, "login") /\ reqs'[p].challenge = reqs[p].challenge
            /\ reqs'[p].kind = "insert"
         \/ reqs'[p].kind \in {"mint", "revocation", "erc1271"}
<1>. USE DEF TypeOK, Await, Answer
<1>1. CASE \E c \in Challenges, a \in Accounts : CreateChallenge(c, a)
  BY <1>1 DEF CreateChallenge
<1>2. CASE \E r \in Reqs, c \in Challenges : VerifyBegin(r, c)
  BY <1>2 DEF VerifyBegin
<1>3. ASSUME NEW r \in Reqs, VerifyMark(r)
      PROVE  \/ reqs'[p] = reqs[p]
             \/ /\ IsReq(p, "login") /\ reqs'[p].challenge = reqs[p].challenge
                /\ reqs'[p].kind = "insert"
  <2>1. reqs[r] \in Login /\ IsReq(r, "login")
    BY <1>3, Kinds DEF VerifyMark
  <2>2. /\ [reqs[r] EXCEPT !.kind = "insert"].kind = "insert"
        /\ [reqs[r] EXCEPT !.kind = "insert"].challenge = reqs[r].challenge
    BY <2>1 DEF Login
  <2>. QED BY <1>3, <2>1, <2>2 DEF VerifyMark
<1>16. CASE \E r \in Reqs, s \in Sessions : VerifyInsert(r, s)
  BY <1>16 DEF VerifyInsert
<1>4. CASE \E r \in Reqs : Fail(r)
  BY <1>4 DEF Fail
<1>5. CASE \E s \in Sessions, a \in Accounts, n \in Durations : SessionInit(s, a, n)
  BY <1>5 DEF SessionInit
<1>6. ASSUME NEW r \in Reqs, NEW s \in Sessions, NEW d \in Delegation,
             PackageBegin(r, s, d)
      PROVE  \/ reqs'[p] = reqs[p]
             \/ /\ PackageBegin(p, s, d)
                /\ reqs'[p] = [kind |-> "package", sid |-> s, delegation |-> d]
  BY <1>6 DEF PackageBegin
<1>7. CASE \E r \in Reqs : PackageActivate(r)
  BY <1>7 DEF PackageActivate
<1>8. CASE \E s \in Sessions : SessionDelete(s)
  BY <1>8 DEF SessionDelete
<1>9. ASSUME NEW r \in Reqs, NEW a \in Accounts, MintBegin(r, a)
      PROVE  reqs'[p] = reqs[p] \/ reqs'[p].kind = "mint"
  BY <1>9 DEF MintBegin
<1>17. CASE \E r \in Reqs, t \in Tokens : MintEnd(r, t)
  BY <1>17 DEF MintEnd
<1>10. ASSUME NEW r \in Reqs, NEW t \in Tokens, UseBegin(r, t)
       PROVE  reqs'[p] = reqs[p] \/ reqs'[p].kind = "revocation"
  BY <1>10 DEF UseBegin
<1>11. ASSUME NEW r \in Reqs, UseNotRevoked(r)
       PROVE  reqs'[p] = reqs[p] \/ reqs'[p].kind = "erc1271"
  <2>1. reqs[r] \in Use
    BY <1>11, Kinds DEF UseNotRevoked
  <2>2. [reqs[r] EXCEPT !.kind = "erc1271"].kind = "erc1271"
    BY <2>1 DEF Use
  <2>. QED BY <1>11, <2>2 DEF UseNotRevoked
<1>12. CASE \E r \in Reqs : UseAccept(r)
  BY <1>12 DEF UseAccept
<1>13. CASE \E d \in Delegation : ChainRevoke(d)
  BY <1>13 DEF ChainRevoke
<1>14. CASE \/ Restart({"login", "insert", "package", "mint"})
            \/ Restart({"revocation", "erc1271"})
  BY <1>14 DEF Restart
<1>15. CASE Tick
  BY <1>15 DEF Tick
<1>. HIDE DEF TypeOK, Await, Answer
<1>. QED BY <1>1, <1>2, <1>3, <1>4, <1>5, <1>6, <1>7, <1>8, <1>9, <1>10, <1>11,
       <1>12, <1>13, <1>14, <1>15, <1>16, <1>17 DEF Next

\* Who writes the row of an existing session.
LEMMA RowWriters ==
  ASSUME TypeOK, Next, NEW s \in Sessions
  PROVE  \/ rows'[s] = rows[s]
         \/ rows[s] = NoRow
         \/ \E r \in Reqs : IsReq(r, "package") /\ reqs[r].sid = s
         \/ rows'[s] = [rows[s] EXCEPT !.status = "revoked"]
<1>. USE DEF TypeOK
<1>1. CASE \E r \in Reqs, q \in Sessions : VerifyInsert(r, q)
  BY <1>1 DEF VerifyInsert, Insert, Used
<1>2. CASE \E q \in Sessions, a \in Accounts, n \in Durations : SessionInit(q, a, n)
  BY <1>2 DEF SessionInit, Insert, Used
<1>3. CASE \E r \in Reqs : PackageActivate(r)
  BY <1>3 DEF PackageActivate
<1>4. CASE \E q \in Sessions : SessionDelete(q)
  BY <1>4 DEF SessionDelete
<1>5. CASE rows' = rows
  BY <1>5
<1>. QED BY <1>1, <1>2, <1>3, <1>4, <1>5
     DEF Next, CreateChallenge, VerifyBegin, VerifyMark, Fail, PackageBegin, MintBegin,
         MintEnd, UseBegin, UseNotRevoked, UseAccept, ChainRevoke, Restart, Tick

\* Once the packages under way when a session was revoked are answered, it
\* stays revoked (DELETE /session/:id).
THEOREM RevocationIsFinal == Spec => RevokedStays
<1>1. ASSUME IInv, [Next]_vars, NEW s \in Sessions, rows[s] # NoRow,
             rows[s].status = "revoked", InFlight(s) = {}
      PROVE  rows'[s].status = "revoked" /\ InFlight(s)' = {}
  <2>0. TypeOK /\ rows[s] \in Row
    BY <1>1 DEF IInv, TypeOK
  <2>1. CASE UNCHANGED vars
    BY <1>1, <2>1 DEF vars, InFlight, IsReq
  <2>2. CASE Next
    <3>1. rows'[s].status = "revoked"
      BY <1>1, <2>0, <2>2, RowWriters DEF InFlight, Row
    <3>2. ASSUME NEW p \in Reqs
          PROVE  ~(IsReq(p, "package")' /\ reqs'[p].sid = s)
      <4>1. IsReq(p, "package") /\ reqs[p].sid = s => FALSE
        BY <1>1 DEF InFlight
      <4>2. \A q \in Sessions, d \in Delegation : PackageBegin(p, q, d) => q # s
        BY <1>1 DEF PackageBegin
      <4>3. CASE reqs'[p] = reqs[p] \/ reqs'[p] = Idle
        BY <4>1, <4>3 DEF IsReq
      <4>4. ASSUME NEW c \in Challenges,
                   reqs'[p] = [kind |-> "login", challenge |-> c]
            PROVE  ~IsReq(p, "package")'
        BY <4>4 DEF IsReq
      <4>5. ASSUME NEW q \in Sessions, NEW d \in Delegation, PackageBegin(p, q, d),
                   reqs'[p] = [kind |-> "package", sid |-> q, delegation |-> d]
            PROVE  reqs'[p].sid # s
        BY <4>2, <4>5
      <4>6. CASE reqs'[p].kind \in {"insert", "mint", "revocation", "erc1271"}
        BY <4>6 DEF IsReq
      <4>. QED BY <2>0, <2>2, <4>3, <4>4, <4>5, <4>6, NewRequests
    <3>3. InFlight(s)' = {}
      BY <3>2 DEF InFlight
    <3>. QED BY <3>1, <3>3
  <2>. QED BY <1>1, <2>1, <2>2
<1>2. IInv /\ [Next]_vars => [ \A s \in Sessions :
        rows[s] # NoRow /\ rows[s].status = "revoked" /\ InFlight(s) = {}
          => rows'[s].status = "revoked" /\ InFlight(s)' = {} ]_vars
  BY <1>1
<1>. QED BY <1>2, SessionInvariant, PTL DEF Spec, RevokedStays

\* The row a step inserts comes from a log-in under way or from no challenge.
LEMMA RowInserted ==
  ASSUME IInv, Next, NEW s \in Sessions, rows[s] = NoRow, rows'[s] # NoRow
  PROVE  \/ rows'[s].from = {}
         \/ \E r \in Reqs : /\ IsReq(r, "insert")
                            /\ rows'[s].from = {reqs[r].challenge}
<1>. USE DEF IInv, TypeOK
<1>1. ASSUME NEW r \in Reqs, NEW q \in Sessions, VerifyInsert(r, q)
      PROVE  IsReq(r, "insert") /\ rows'[s].from = {reqs[r].challenge}
  BY <1>1 DEF VerifyInsert, Insert, Used
<1>2. ASSUME NEW q \in Sessions, NEW a \in Accounts, NEW n \in Durations,
             SessionInit(q, a, n)
      PROVE  rows'[s].from = {}
  BY <1>2 DEF SessionInit, Insert, Used
<1>3. ASSUME NEW r \in Reqs, PackageActivate(r) PROVE FALSE
  <2>1. rows[reqs[r].sid] # NoRow
    BY <1>3 DEF PackageActivate, ReqInv, PackageOK
  <2>. QED BY <1>3, <2>1 DEF PackageActivate
<1>4. ASSUME NEW q \in Sessions, SessionDelete(q) PROVE FALSE
  BY <1>4 DEF SessionDelete
<1>. QED BY <1>1, <1>2, <1>3, <1>4
     DEF Next, CreateChallenge, VerifyBegin, VerifyMark, Fail, PackageBegin, MintBegin,
         MintEnd, UseBegin, UseNotRevoked, UseAccept, ChainRevoke, Restart, Tick

\* Who writes a challenge that is not pending.
LEMMA ChallengeWriters ==
  ASSUME TypeOK, Next, NEW c \in Challenges, challenges[c] # NoRow,
         challenges[c].status # "pending"
  PROVE  \/ challenges'[c].status # "pending"
         \/ \E r \in Reqs : IsReq(r, "login") /\ reqs[r].challenge = c
<1>. USE DEF TypeOK
<1>1. CASE \E d \in Challenges, a \in Accounts : CreateChallenge(d, a)
  BY <1>1 DEF CreateChallenge
<1>2. CASE \E r \in Reqs, d \in Challenges : VerifyBegin(r, d)
  BY <1>2 DEF VerifyBegin
<1>3. CASE \E r \in Reqs : VerifyMark(r)
  BY <1>3 DEF VerifyMark
<1>4. CASE challenges' = challenges
  BY <1>4
<1>. QED BY <1>1, <1>2, <1>3, <1>4
     DEF Next, VerifyInsert, Fail, SessionInit, PackageBegin, PackageActivate,
         SessionDelete, MintBegin, MintEnd, UseBegin, UseNotRevoked, UseAccept, ChainRevoke, Restart, Tick

\* A used or expired challenge opens no session after the handlers that saw it
\* pending are done (POST /auth/verify).
THEOREM ChallengesAreSpent == Spec => ChallengeSpent
<1>1. ASSUME IInv, [Next]_vars, NEW c \in Challenges, challenges[c] # NoRow,
             challenges[c].status # "pending", LoginsOf(c) = {}
      PROVE  /\ challenges'[c].status # "pending"
             /\ LoginsOf(c)' = {}
             /\ \A s \in Sessions : (rows[s] # rows'[s] /\ rows[s] = NoRow)
                                    => rows'[s].from # {c}
  <2>0. TypeOK
    BY <1>1 DEF IInv
  <2>1. CASE UNCHANGED vars
    BY <1>1, <2>1 DEF vars, LoginsOf, IsReq
  <2>2. CASE Next
    <3>0. \A r \in Reqs :
            ~((IsReq(r, "login") \/ IsReq(r, "insert")) /\ reqs[r].challenge = c)
      BY <1>1 DEF LoginsOf
    <3>1. challenges'[c].status # "pending"
      BY <1>1, <2>0, <2>2, <3>0, ChallengeWriters
    <3>2. ASSUME NEW p \in Reqs
          PROVE  ~((IsReq(p, "login")' \/ IsReq(p, "insert")') /\ reqs'[p].challenge = c)
      <4>1. \A d \in Challenges : VerifyBegin(p, d) => d # c
        BY <1>1 DEF VerifyBegin
      <4>2. CASE reqs'[p] = reqs[p] \/ reqs'[p] = Idle
        BY <3>0, <4>2 DEF IsReq
      <4>3. ASSUME NEW d \in Challenges, VerifyBegin(p, d),
                   reqs'[p] = [kind |-> "login", challenge |-> d]
            PROVE  reqs'[p].challenge # c
        BY <4>1, <4>3
      <4>4. ASSUME NEW q \in Sessions, NEW d \in Delegation,
                   reqs'[p] = [kind |-> "package", sid |-> q, delegation |-> d]
            PROVE  ~IsReq(p, "login")' /\ ~IsReq(p, "insert")'
        BY <4>4 DEF IsReq
      <4>6. ASSUME IsReq(p, "login"), reqs'[p].challenge = reqs[p].challenge
            PROVE  reqs'[p].challenge # c
        BY <3>0, <4>6
      <4>5. CASE reqs'[p].kind \in {"mint", "revocation", "erc1271"}
        BY <4>5 DEF IsReq
      <4>. QED BY <2>0, <2>2, <4>2, <4>3, <4>4, <4>5, <4>6, NewRequests
    <3>3. LoginsOf(c)' = {}
      BY <3>2 DEF LoginsOf
    <3>4. ASSUME NEW s \in Sessions, rows[s] # rows'[s], rows[s] = NoRow
          PROVE  rows'[s].from # {c}
      BY <1>1, <2>2, <3>0, <3>4, RowInserted
    <3>. QED BY <3>1, <3>3, <3>4
  <2>. QED BY <1>1, <2>1, <2>2
<1>2. IInv /\ [Next]_vars => [ \A c \in Challenges :
        /\ challenges[c] # NoRow
        /\ challenges[c].status # "pending"
        /\ LoginsOf(c) = {}
        => /\ challenges'[c].status # "pending"
           /\ LoginsOf(c)' = {}
           /\ \A s \in Sessions : (rows[s] # rows'[s] /\ rows[s] = NoRow)
                                  => rows'[s].from # {c} ]_vars
  BY <1>1
<1>. QED BY <1>2, SessionInvariant, PTL DEF Spec, ChallengeSpent

-----------------------------------------------------------------------------
(* The implementation of DelegatedTokens.                                  *)

\* What the mapping makes of the state.
promisedVars == << Holder, Grant, AskedFor, Minted, revoked, Admitted, usage >>

\* Rows that stay have the same account and the same delegation in force.
LEMMA RowsFrame == ASSUME rows' = rows PROVE Holder' = Holder /\ Grant' = Grant
  BY DEF Holder, Grant

\* Tokens that stay have the same owner and delegation.
LEMMA TokensFrame == ASSUME tokens' = tokens PROVE Minted' = Minted
  BY DEF Minted

\* Handlers that stay have asked for and admitted what they had.
LEMMA ReqsFrame ==
  ASSUME reqs' = reqs PROVE AskedFor' = AskedFor /\ Admitted' = Admitted
BY DEF AskedFor, Admitted, IsReq

\* One handler moves, and neither before nor after mints or decides a use.
LEMMA QuietRequest ==
  ASSUME NEW r \in Reqs, \A p \in Reqs \ {r} : reqs'[p] = reqs[p],
         ~IsReq(r, "mint"), ~IsReq(r, "mint")'
  PROVE  AskedFor' = AskedFor
<1>1. \A p \in Reqs : IsReq(p, "mint")' <=> IsReq(p, "mint")
  BY DEF IsReq
<1>2. \A p \in Reqs : IsReq(p, "mint") => reqs'[p] = reqs[p]
  OBVIOUS
<1>. QED BY <1>1, <1>2 DEF AskedFor

\* The same for the uses.
LEMMA QuietUse ==
  ASSUME NEW r \in Reqs, \A p \in Reqs \ {r} : reqs'[p] = reqs[p],
         ~IsReq(r, "erc1271"), ~IsReq(r, "erc1271")'
  PROVE  Admitted' = Admitted
<1>1. \A p \in Reqs : IsReq(p, "erc1271")' <=> IsReq(p, "erc1271")
  BY DEF IsReq
<1>2. \A p \in Reqs : IsReq(p, "erc1271") => reqs'[p] = reqs[p]
  OBVIOUS
<1>. QED BY <1>1, <1>2 DEF Admitted

\* A handler that begins to wait has admitted nothing, and asked for nothing
\* unless it mints.
LEMMA AwaitAdmitsNothing ==
  ASSUME TypeOK, NEW r \in Reqs, NEW q \in Request, Await(r, q)
  PROVE  /\ q.kind # "erc1271" => Admitted' = Admitted
         /\ q.kind # "mint" => AskedFor' = AskedFor
<1>1. reqs[r] = Idle /\ reqs'[r] = q /\ \A p \in Reqs \ {r} : reqs'[p] = reqs[p]
  BY Awaits DEF Await
<1>2. ~IsReq(r, "mint") /\ ~IsReq(r, "erc1271")
      /\ (q.kind # "mint" => ~IsReq(r, "mint")')
      /\ (q.kind # "erc1271" => ~IsReq(r, "erc1271")')
  BY <1>1 DEF IsReq
<1>. QED BY <1>1, <1>2, QuietRequest, QuietUse

\* A handler that is answered drops what it had asked for and admitted.
LEMMA AnswerDrops ==
  ASSUME TypeOK, NEW r \in Reqs, Answer(r)
  PROVE  /\ Admitted' = Promised!Without(Admitted, {r})
         /\ AskedFor' = Promised!Without(AskedFor, {r})
<1>1. reqs'[r] = Idle /\ \A p \in Reqs \ {r} : reqs'[p] = reqs[p]
  BY Answers
<1>. QED BY <1>1 DEF Admitted, AskedFor, Promised!Without, IsReq

\* The answer to a handler of another kind changes nothing asked or admitted.
LEMMA AnswerDropsNothing ==
  ASSUME TypeOK, NEW r \in Reqs, Answer(r)
  PROVE  /\ ~IsReq(r, "erc1271") => Admitted' = Admitted
         /\ ~IsReq(r, "mint") => AskedFor' = AskedFor
<1>1. reqs'[r] = Idle /\ \A p \in Reqs \ {r} : reqs'[p] = reqs[p]
  BY Answers
<1>2. ~IsReq(r, "mint")' /\ ~IsReq(r, "erc1271")'
  BY <1>1 DEF IsReq
<1>. QED BY <1>1, <1>2, QuietRequest, QuietUse

\* An inserted row makes a key, which has no delegation yet.
LEMMA InsertMakes ==
  ASSUME TypeOK, NEW s \in Sessions, NEW a \in Accounts, NEW x \in Row,
         x.account = a, x.package \notin Delegation, Insert(s, x)
  PROVE  Holder[s] = {} /\ Holder' = [Holder EXCEPT ![s] = {a}] /\ Grant' = Grant
<1>1. /\ rows[s] = NoRow /\ rows'[s] = x /\ x # NoRow
      /\ \A q \in Sessions \ {s} : rows'[q] = rows[q]
  BY DEF Insert, Used, TypeOK
<1>2. Holder[s] = {} /\ Holder'[s] = {a} /\ \A q \in Sessions \ {s} : Holder'[q] = Holder[q]
  BY <1>1 DEF Holder
<1>3. \A q \in Sessions : Grant'[q] = Grant[q]
  BY <1>1 DEF Grant
<1>4. Holder' = [Holder EXCEPT ![s] = {a}]
  BY <1>2 DEF Holder
<1>. QED BY <1>2, <1>3, <1>4 DEF Grant

\* Log-ins and new sessions make keys; the rest of the ceremony is invisible.
LEMMA MakeStep ==
  ASSUME IInv,
         \/ \E r \in Reqs, s \in Sessions : VerifyInsert(r, s)
         \/ \E s \in Sessions, a \in Accounts, n \in Durations : SessionInit(s, a, n)
  PROVE  \E s \in Sessions, a \in Accounts : Promised!Make(s, a)
<1>1. ASSUME NEW r \in Reqs, NEW s \in Sessions, VerifyInsert(r, s)
      PROVE  \E a \in Accounts : Promised!Make(s, a)
  <2>1. PICK c \in Challenges : c = reqs[r].challenge /\ challenges[c] # NoRow
    BY <1>1, Kinds DEF VerifyInsert, IInv, ReqInv, LoginOK, Login
  <2>2. challenges[c] \in Challenge /\ now + LoginTTL \in Nat
    BY <2>1 DEF IInv, TypeOK
  <2>3. PICK a \in Accounts : a = challenges[c].account
    BY <2>2 DEF Challenge
  <2>. DEFINE x == [ account |-> a, package |-> NoPackage, status |-> "active",
                     expires |-> now + LoginTTL, from |-> {c} ]
  <2>4. x \in Row /\ x.account = a /\ x.package \notin Delegation
    BY <2>1, <2>2 DEF Row
  <2>5. Insert(s, x)
    BY <1>1, <2>1, <2>3 DEF VerifyInsert
  <2>. HIDE DEF x
  <2>6. Holder[s] = {} /\ Holder' = [Holder EXCEPT ![s] = {a}] /\ Grant' = Grant
    BY <2>4, <2>5, InsertMakes DEF IInv
  <2>7. Admitted' = Admitted /\ AskedFor' = AskedFor
    BY <1>1, AnswerDropsNothing DEF VerifyInsert, IInv, IsReq
  <2>. QED BY <1>1, <2>6, <2>7, TokensFrame DEF Promised!Make, VerifyInsert
<1>2. ASSUME NEW s \in Sessions, NEW a \in Accounts, NEW n \in Durations,
             SessionInit(s, a, n)
      PROVE  Promised!Make(s, a)
  <2>. DEFINE x == [ account |-> a, package |-> Unsigned, status |-> "pending",
                     expires |-> now + n, from |-> {} ]
  <2>1. now \in Nat /\ n \in Nat
    BY DEF IInv, TypeOK
  <2>2. x \in Row /\ x.account = a /\ x.package \notin Delegation
    BY <2>1 DEF Row
  <2>3. Insert(s, x)
    BY <1>2 DEF SessionInit
  <2>. HIDE DEF x
  <2>4. Holder[s] = {} /\ Holder' = [Holder EXCEPT ![s] = {a}] /\ Grant' = Grant
    BY <2>2, <2>3, InsertMakes DEF IInv
  <2>. QED BY <1>2, <2>4, TokensFrame, ReqsFrame DEF Promised!Make, SessionInit
<1>. QED BY <1>1, <1>2

\* /session/package gives the key the delegation that was checked.
LEMMA ActivateGives ==
  ASSUME IInv, NEW r \in Reqs, PackageActivate(r)
  PROVE  \E s \in Sessions, d \in Delegation : Promised!Give(s, d)
<1>1. reqs[r] \in Package /\ PackageOK(reqs[r])
  BY Kinds DEF IInv, ReqInv, PackageActivate
<1>2. PICK s \in Sessions, d \in Delegation :
        s = reqs[r].sid /\ d = reqs[r].delegation
  BY <1>1 DEF Package
<1>3. d.delegate = s /\ rows[s] # NoRow /\ d.delegator = rows[s].account
  BY <1>1, <1>2 DEF PackageOK
<1>4. rows[s] \in Row
  BY <1>3 DEF IInv, TypeOK
<1>5. /\ rows'[s] = [rows[s] EXCEPT !.package = d, !.status = "active"]
      /\ \A q \in Sessions \ {s} : rows'[q] = rows[q]
  BY <1>2 DEF PackageActivate, IInv, TypeOK
<1>6. /\ rows'[s].package = d /\ rows'[s].status = "active"
      /\ rows'[s].account = rows[s].account /\ rows'[s] \in Row
  BY <1>4, <1>5 DEF Row
<1>7. rows'[s] # NoRow
  BY <1>6
<1>8. Holder[s] = {d.delegator} /\ Holder' = Holder
  <2>. DEFINE Owner(row) == IF row = NoRow THEN {} ELSE {row.account}
  <2>1. \A q \in Sessions : Owner(rows'[q]) = Owner(rows[q])
    BY <1>3, <1>5, <1>6, <1>7
  <2>2. Holder' = Holder
    <3>1. /\ Holder = [q \in Sessions |-> Owner(rows[q])]
          /\ Holder' = [q \in Sessions |-> Owner(rows'[q])]
      BY Zenon DEF Holder
    <3>. HIDE DEF Owner
    <3>. QED BY <2>1, <3>1
  <2>3. Holder[s] = {d.delegator}
    BY <1>3 DEF Holder
  <2>. QED BY <2>2, <2>3
<1>9. Grant'[s] = {d} /\ \A q \in Sessions \ {s} : Grant'[q] = Grant[q]
  <2>1. \A e \in Delegation : e \in Grant'[s] <=> e = d
    BY <1>6, <1>7 DEF Grant
  <2>2. Grant'[s] \subseteq Delegation /\ \A q \in Sessions \ {s} : Grant'[q] = Grant[q]
    BY <1>5 DEF Grant
  <2>. QED BY <2>1, <2>2
<1>10. Grant' = [Grant EXCEPT ![s] = {d}]
  BY <1>9 DEF Grant
<1>11. Admitted' = Admitted /\ AskedFor' = AskedFor
  BY AnswerDropsNothing DEF PackageActivate, IInv, IsReq
<1>. QED BY <1>3, <1>8, <1>10, <1>11, TokensFrame DEF Promised!Give, PackageActivate

\* A deletion takes the delegation from the key.
LEMMA DeleteReleases ==
  ASSUME IInv, NEW s \in Sessions, SessionDelete(s)
  PROVE  Promised!Release(s)
<1>1. rows[s] # NoRow /\ rows[s] \in Row
  BY DEF SessionDelete, IInv, TypeOK
<1>2. /\ rows'[s] = [rows[s] EXCEPT !.status = "revoked"]
      /\ \A q \in Sessions \ {s} : rows'[q] = rows[q]
  BY DEF SessionDelete, IInv, TypeOK
<1>3. /\ rows'[s].status = "revoked" /\ rows'[s].account = rows[s].account
      /\ rows'[s] \in Row
  BY <1>1, <1>2 DEF Row
<1>4. Holder' = Holder
  BY <1>1, <1>2, <1>3 DEF Holder
<1>5. Grant'[s] = {} /\ \A q \in Sessions \ {s} : Grant'[q] = Grant[q]
  <2>1. Grant'[s] = {}
    BY <1>3 DEF Grant
  <2>2. \A q \in Sessions \ {s} : Grant'[q] = Grant[q]
    BY <1>2 DEF Grant
  <2>. QED BY <2>1, <2>2
<1>6. Grant' = [Grant EXCEPT ![s] = {}]
  BY <1>5 DEF Grant
<1>. QED BY <1>4, <1>6, TokensFrame, ReqsFrame DEF Promised!Release, SessionDelete

\* A request to mint asks for the delegation of a row that is active and packaged.
LEMMA MintAsks ==
  ASSUME IInv, NEW r \in Reqs, NEW a \in Accounts, MintBegin(r, a)
  PROVE  \E s \in Sessions : Promised!Ask(r, s)
<1>1. PICK s \in Packaged(a) :
        Await(r, [ kind |-> "mint", sid |-> s, delegation |-> rows[s].package,
                   owner |-> a, expires |-> rows[s].expires ])
  BY DEF MintBegin
<1>2. /\ s \in Sessions /\ rows[s] # NoRow /\ rows[s].account = a
      /\ rows[s].package # NoPackage /\ rows[s].status = "active"
  BY <1>1 DEF Packaged
<1>3. PICK d \in Delegation : d = rows[s].package /\ d.delegator = a
  BY <1>2 DEF IInv, RowInv, RowOK
<1>4. d \in Grant[s]
  BY <1>2, <1>3 DEF Grant
<1>5. rows[s].expires \in Nat
  BY <1>2 DEF IInv, TypeOK, Row
<1>. DEFINE q == [ kind |-> "mint", sid |-> s, delegation |-> d, owner |-> a,
                   expires |-> rows[s].expires ]
<1>6. q \in Asked /\ q.kind = "mint" /\ q.delegation = d /\ q.owner = a
  BY <1>2, <1>5 DEF Asked
<1>7. Await(r, q)
  BY <1>1, <1>3
<1>. HIDE DEF q
<1>8. reqs'[r] = q /\ q # Idle /\ \A p \in Reqs \ {r} : reqs'[p] = reqs[p]
  BY <1>6, <1>7, Awaits DEF IInv
<1>9. /\ AskedFor'[r] = { [delegation |-> d, owner |-> d.delegator] }
      /\ \A p \in Reqs \ {r} : AskedFor'[p] = AskedFor[p]
  BY <1>3, <1>6, <1>8 DEF AskedFor, IsReq
<1>10. AskedFor' = [AskedFor EXCEPT ![r] = { [delegation |-> d, owner |-> d.delegator] }]
  BY <1>9 DEF AskedFor
<1>11. Admitted' = Admitted
  BY <1>6, <1>7, AwaitAdmitsNothing DEF IInv
<1>. QED BY <1>2, <1>4, <1>10, <1>11, RowsFrame, TokensFrame DEF Promised!Ask, MintBegin

\* The token is the one that was asked for.
LEMMA MintMints ==
  ASSUME IInv, NEW r \in Reqs, NEW t \in Tokens, MintEnd(r, t)
  PROVE  Promised!Mint(r, t)
<1>1. /\ IsReq(r, "mint") /\ reqs[r] \in Asked /\ tokens[t] = NoRow
      /\ UNCHANGED << rows, revoked, usage >> /\ Answer(r)
  BY Kinds DEF MintEnd, IInv
<1>. DEFINE x == [ delegation |-> reqs[r].delegation, key |-> reqs[r].sid,
                   owner |-> reqs[r].owner, expires |-> reqs[r].expires ]
            y == [ delegation |-> reqs[r].delegation, owner |-> reqs[r].owner ]
<1>2. x \in Token /\ x.delegation = reqs[r].delegation /\ x.owner = reqs[r].owner
  BY <1>1 DEF Token, Asked
<1>3. tokens' = [tokens EXCEPT ![t] = x]
  BY DEF MintEnd
<1>4. AskedFor[r] = {y}
  BY <1>1 DEF AskedFor
<1>. HIDE DEF x
<1>5. tokens'[t] = x /\ x # NoRow /\ \A u \in Tokens \ {t} : tokens'[u] = tokens[u]
  BY <1>2, <1>3 DEF IInv, TypeOK
<1>6. /\ Minted[t] = {} /\ Minted'[t] = {y}
      /\ \A u \in Tokens \ {t} : Minted'[u] = Minted[u]
  BY <1>1, <1>2, <1>5 DEF Minted
<1>. HIDE DEF y
<1>7. Minted' = [Minted EXCEPT ![t] = AskedFor[r]]
  BY <1>4, <1>6 DEF Minted
<1>8. AskedFor' = [AskedFor EXCEPT ![r] = {}]
  <2>1. AskedFor' = Promised!Without(AskedFor, {r})
    BY <1>1, AnswerDrops DEF IInv
  <2>. QED BY <2>1 DEF AskedFor, Promised!Without
<1>9. Admitted' = Admitted
  BY <1>1, AnswerDropsNothing DEF IInv, IsReq
<1>. QED BY <1>1, <1>4, <1>6, <1>7, <1>8, <1>9, RowsFrame DEF Promised!Mint

\* The answer of isRevoked admits the use.
LEMMA NotRevokedAdmits ==
  ASSUME IInv, NEW r \in Reqs, UseNotRevoked(r)
  PROVE  \E t \in Tokens : Promised!Admit(r, t)
<1>1. reqs[r] \in Use /\ UseOK(reqs[r]) /\ reqs[r] # Idle
  BY Kinds DEF UseNotRevoked, IInv, ReqInv, IsReq
<1>2. PICK t \in Tokens : t = reqs[r].token
  BY <1>1 DEF Use
<1>3. tokens[t] # NoRow /\ tokens[t].delegation \notin revoked
  BY <1>1, <1>2 DEF UseOK, UseNotRevoked
<1>4. \E m \in Minted[t] : m.delegation \notin revoked
  BY <1>3 DEF Minted
<1>5. /\ reqs'[r] = [reqs[r] EXCEPT !.kind = "erc1271"]
      /\ \A p \in Reqs \ {r} : reqs'[p] = reqs[p]
  BY DEF UseNotRevoked, IInv, TypeOK
<1>6. /\ reqs'[r] \in Use /\ reqs'[r].kind = "erc1271" /\ reqs'[r].token = t
  BY <1>1, <1>2, <1>5 DEF Use
<1>7. IsReq(r, "erc1271")' /\ \A p \in Reqs \ {r} :
        IsReq(p, "erc1271")' <=> IsReq(p, "erc1271")
  BY <1>5, <1>6 DEF IsReq
<1>8. Admitted'[r] = {t} /\ \A p \in Reqs \ {r} : Admitted'[p] = Admitted[p]
  BY <1>5, <1>6, <1>7 DEF Admitted
<1>9. Admitted' = [Admitted EXCEPT ![r] = {t}]
  BY <1>8 DEF Admitted
<1>10. AskedFor' = AskedFor
  BY <1>5, <1>6, QuietRequest DEF UseNotRevoked, IsReq
<1>. QED BY <1>4, <1>9, <1>10, RowsFrame, TokensFrame DEF Promised!Admit, UseNotRevoked

\* The use that is let through is the one admitted, and it is counted.
LEMMA AcceptAccepts ==
  ASSUME IInv, NEW r \in Reqs, UseAccept(r)
  PROVE  Promised!Accept(r)
<1>1. PICK t \in Tokens : t = reqs[r].token
  BY Kinds DEF UseAccept, IInv, Use
<1>2. t \in Admitted[r]
  BY <1>1 DEF Admitted, UseAccept
<1>3. usage[t] < UsageLimit /\ usage' = [usage EXCEPT ![t] = @ + 1]
  BY <1>1 DEF UseAccept, CountUse, IInv, TypeOK
<1>4. Admitted' = Promised!Without(Admitted, {r}) /\ AskedFor' = AskedFor
  BY AnswerDrops, AnswerDropsNothing DEF UseAccept, IInv, IsReq
<1>. QED BY <1>2, <1>3, <1>4, RowsFrame, TokensFrame DEF Promised!Accept, UseAccept

\* A restart drops the requests and uses of one process.
LEMMA RestartDrops ==
  ASSUME NEW kinds, Restart(kinds)
  PROVE  \E R \in SUBSET Reqs : Promised!Drop(R)
<1>. DEFINE R == { r \in Reqs : reqs[r] # Idle /\ reqs[r].kind \in kinds }
<1>1. \A r \in Reqs : reqs'[r] = IF r \in R THEN Idle ELSE reqs[r]
  BY DEF Restart
<1>2. R \in SUBSET Reqs
  OBVIOUS
<1>. HIDE DEF R
<1>3. Admitted' = Promised!Without(Admitted, R) /\ AskedFor' = Promised!Without(AskedFor, R)
  BY <1>1 DEF Admitted, AskedFor, Promised!Without, IsReq
<1>. QED BY <1>2, <1>3, RowsFrame, TokensFrame DEF Promised!Drop, Restart

\* Handlers that begin to wait, for no token to mint, are invisible.
LEMMA BeginStutters ==
  ASSUME IInv,
         \/ \E r \in Reqs, c \in Challenges : VerifyBegin(r, c)
         \/ \E r \in Reqs, s \in Sessions, d \in Delegation : PackageBegin(r, s, d)
         \/ \E r \in Reqs, t \in Tokens : UseBegin(r, t)
         \/ \E r \in Reqs : VerifyMark(r)
  PROVE  UNCHANGED promisedVars
<1>1. rows' = rows /\ tokens' = tokens /\ revoked' = revoked /\ usage' = usage
  BY DEF VerifyBegin, PackageBegin, UseBegin, VerifyMark
<1>2. ASSUME NEW r \in Reqs, NEW c \in Challenges, VerifyBegin(r, c)
      PROVE  Admitted' = Admitted /\ AskedFor' = AskedFor
  <2>1. PICK q \in Login : q = [kind |-> "login", challenge |-> c]
    BY DEF Login
  <2>. QED BY <1>2, <2>1, AwaitAdmitsNothing, ReqsFrame DEF VerifyBegin, IInv
<1>3. ASSUME NEW r \in Reqs, NEW s \in Sessions, NEW d \in Delegation,
             PackageBegin(r, s, d)
      PROVE  Admitted' = Admitted /\ AskedFor' = AskedFor
  <2>1. PICK q \in Package : q = [kind |-> "package", sid |-> s, delegation |-> d]
    BY DEF Package
  <2>. QED BY <1>3, <2>1, AwaitAdmitsNothing DEF PackageBegin, IInv
<1>4. ASSUME NEW r \in Reqs, NEW t \in Tokens, UseBegin(r, t)
      PROVE  Admitted' = Admitted /\ AskedFor' = AskedFor
  <2>. DEFINE late == tokens[t].delegation \in revoked
              q == [kind |-> "revocation", token |-> t, late |-> late]
  <2>1. late \in BOOLEAN
    OBVIOUS
  <2>2. Await(r, q)
    BY <1>4 DEF UseBegin
  <2>. HIDE DEF late
  <2>3. q \in Use /\ q.kind = "revocation"
    BY <2>1 DEF Use
  <2>. HIDE DEF q
  <2>. QED BY <2>2, <2>3, AwaitAdmitsNothing DEF IInv
<1>5. ASSUME NEW r \in Reqs, VerifyMark(r)
      PROVE  Admitted' = Admitted /\ AskedFor' = AskedFor
  <2>1. reqs[r] \in Login
    BY <1>5, Kinds DEF VerifyMark, IInv
  <2>2. /\ reqs'[r] = [reqs[r] EXCEPT !.kind = "insert"]
        /\ \A p \in Reqs \ {r} : reqs'[p] = reqs[p]
    BY <1>5 DEF VerifyMark, IInv, TypeOK
  <2>3. reqs'[r].kind = "insert" /\ reqs[r].kind \in {"login", "insert"}
    BY <2>1, <2>2 DEF Login
  <2>. QED BY <2>2, <2>3, QuietRequest, QuietUse DEF IsReq
<1>. QED BY <1>1, <1>2, <1>3, <1>4, <1>5, RowsFrame, TokensFrame DEF promisedVars

\* Every step is one of delegated tokens, or invisible there.
LEMMA PromisedStep ==
  ASSUME IInv, [Next]_vars
  PROVE  [Promised!Next]_promisedVars
<1>1. ASSUME UNCHANGED << rows, tokens, usage, revoked, reqs >>
      PROVE  UNCHANGED promisedVars
  BY <1>1, RowsFrame, TokensFrame, ReqsFrame DEF promisedVars
<1>2. ASSUME \/ \E r \in Reqs, s \in Sessions : VerifyInsert(r, s)
             \/ \E s \in Sessions, a \in Accounts, n \in Durations : SessionInit(s, a, n)
      PROVE  Promised!Next
  BY <1>2, MakeStep DEF Promised!Next
<1>3. ASSUME NEW r \in Reqs, Fail(r)
      PROVE  Promised!Next
  <2>1. Promised!Drop({r})
    BY <1>3, AnswerDrops, RowsFrame, TokensFrame DEF Fail, Promised!Drop, IInv
  <2>. QED BY <2>1 DEF Promised!Next
<1>4. ASSUME NEW r \in Reqs, PackageActivate(r)
      PROVE  Promised!Next
  BY <1>4, ActivateGives DEF Promised!Next
<1>5. ASSUME NEW s \in Sessions, SessionDelete(s)
      PROVE  Promised!Next
  BY <1>5, DeleteReleases DEF Promised!Next
<1>6. ASSUME NEW r \in Reqs, NEW a \in Accounts, MintBegin(r, a)
      PROVE  Promised!Next
  BY <1>6, MintAsks DEF Promised!Next
<1>11. ASSUME NEW r \in Reqs, NEW t \in Tokens, MintEnd(r, t)
       PROVE  Promised!Next
  BY <1>11, MintMints DEF Promised!Next
<1>7. ASSUME NEW r \in Reqs, UseNotRevoked(r)
      PROVE  Promised!Next
  BY <1>7, NotRevokedAdmits DEF Promised!Next
<1>8. ASSUME NEW r \in Reqs, UseAccept(r)
      PROVE  Promised!Next
  BY <1>8, AcceptAccepts DEF Promised!Next
<1>9. ASSUME NEW d \in Delegation, ChainRevoke(d)
      PROVE  Promised!Next
  <2>1. Promised!Withdraw(d)
    BY <1>9, RowsFrame, TokensFrame, ReqsFrame DEF ChainRevoke, Promised!Withdraw
  <2>. QED BY <2>1 DEF Promised!Next
<1>10. ASSUME NEW kinds, Restart(kinds)
       PROVE  Promised!Next
  BY <1>10, RestartDrops DEF Promised!Next
<1>. QED
  BY <1>1, <1>2, <1>3, <1>4, <1>5, <1>6, <1>7, <1>8, <1>9, <1>10, <1>11,
     BeginStutters
  DEF Next, vars, CreateChallenge, Tick

\* Both services together implement delegated tokens.
THEOREM TokensImplemented == Spec => ImplementsTokens
<1>1. Init => Promised!Init
  BY DEF Init, Promised!Init, Holder, Grant, AskedFor, Minted, Admitted, IsReq
<1>2. IInv /\ [Next]_vars => [Promised!Next]_Promised!vars
  BY PromisedStep DEF Promised!vars, promisedVars
<1>. QED
  BY <1>1, <1>2, SessionInvariant, PTL DEF Spec, Promised!Spec, ImplementsTokens
=============================================================================
