--------------------------- MODULE AgentSessions ---------------------------
(***************************************************************************)
(* Sessions of the A2A agent and the delegation tokens minted from them.    *)
(*                                                                          *)
(* apps/a2a-agent keeps one table for two kinds of session: log-in sessions *)
(* made by challenge and response, and agent sessions, whose key pair the   *)
(* agent generates and whose delegation the user signs.  A token minted     *)
(* from an agent session is verified by apps/person-mcp against the chain.  *)
(*                                                                          *)
(* Handlers are cut where they wait for the chain or for WebCrypto.  Rows   *)
(* of the sessions table are numbered in the order of insertion, the order  *)
(* in which an unordered SELECT returns them.                               *)
(***************************************************************************)
EXTENDS Integers, FiniteSets

CONSTANTS
  Accounts, Challenges, Tokens, Reqs,
  NumSessions,   \* bound: rows of the sessions table
  MaxRevocations,\* bound: delegations revoked on chain
  Granted,       \* accounts that also hold an unrevoked SessionGrant.v1
  Durations,     \* durationSeconds clients ask for
  Untils,        \* validUntil of the timestamp caveats users sign
  ChallengeTTL, LoginTTL, UsageLimit, MaxTime,
  Unsigned,      \* an encryptedPackage that holds the session key only
  NoPackage,     \* a log-in session has none
  NoRow, Idle

Sessions == 1 .. NumSessions

ASSUME NumberAssumption ==
  /\ { NumSessions, MaxRevocations, ChallengeTTL, LoginTTL, MaxTime } \subseteq Nat
  /\ UsageLimit \in Nat \ {0}
  /\ Durations \subseteq Nat /\ Untils \subseteq Nat
  /\ Granted \subseteq Accounts

VARIABLES
  now,
  challenges,   \* the challenges table
  rows,         \* the sessions table
  tokens,       \* delegation tokens handed out
  usage,        \* token_usage.usage_count, 0 without a row
  revoked,      \* DelegationManager._revoked
  reqs,         \* handlers that wait for the chain or for WebCrypto
  accepted      \* history: token uses person-mcp let through

vars == << now, challenges, rows, tokens, usage, revoked, reqs,
           accepted >>

\* The delegate is the session's own key: one key pair per session id.
Delegation == [ delegator : Accounts, delegate : Sessions, until : Untils ]

Challenge == [ account : Accounts, status : {"pending", "verified", "expired"},
               expires : Nat ]
Row == [ account : Accounts, package : Delegation \cup {Unsigned, NoPackage},
         status : {"pending", "active", "revoked"}, expires : Nat,
         from : SUBSET Challenges ]   \* history: the challenge of a log-in
Token == [ delegation : Delegation, key : Sessions, owner : Accounts,
           expires : Nat ]

Login == [ kind : {"login", "insert"}, challenge : Challenges ]
Package == [ kind : {"package"}, sid : Sessions,
             delegation : Delegation ]
\* What a request to mint read from the row it found.
Asked == [ kind : {"mint"}, sid : Sessions, delegation : Delegation,
           owner : Accounts, expires : Nat ]
\* late: the delegation was revoked already when the verification began.
Use == [ kind : {"revocation", "erc1271"}, token : Tokens, late : BOOLEAN ]
Request == Login \cup Package \cup Asked \cup Use

ASSUME NullAssumption ==
  /\ NoRow \notin Challenge \cup Row \cup Token
  /\ Unsigned # NoPackage /\ { Unsigned, NoPackage } \cap Delegation = {}
  /\ Idle \notin Request

TypeOK ==
  /\ now \in Nat
  /\ challenges \in [Challenges -> Challenge \cup {NoRow}]
  /\ rows \in [Sessions -> Row \cup {NoRow}]
  /\ tokens \in [Tokens -> Token \cup {NoRow}]
  /\ usage \in [Tokens -> Nat]
  /\ revoked \subseteq Delegation
  /\ reqs \in [Reqs -> Request \cup {Idle}]
  /\ accepted \in [Tokens -> [count : Nat, late : BOOLEAN]]

Init ==
  /\ now = 0
  /\ challenges = [c \in Challenges |-> NoRow]
  /\ rows = [s \in Sessions |-> NoRow]
  /\ tokens = [t \in Tokens |-> NoRow]
  /\ usage = [t \in Tokens |-> 0]
  /\ revoked = {}
  /\ reqs = [r \in Reqs |-> Idle]
  /\ accepted = [t \in Tokens |-> [count |-> 0, late |-> FALSE]]

-----------------------------------------------------------------------------
Used == { s \in Sessions : rows[s] # NoRow }

\* The row an INSERT creates is the next one.
Insert(s, row) ==
  /\ s \notin Used
  /\ \A q \in Sessions : q < s => q \in Used
  /\ rows' = [rows EXCEPT ![s] = row]

Live(s) == rows[s] # NoRow /\ rows[s].status = "active" /\ rows[s].expires >= now

\* requireSession: a SessionGrant of person-mcp, else an active, unexpired row.
Authenticated(a) ==
  a \in Granted \/ \E s \in Sessions : Live(s) /\ rows[s].account = a

Await(r, request) == reqs[r] = Idle /\ reqs' = [reqs EXCEPT ![r] = request]
Answer(r) == reqs' = [reqs EXCEPT ![r] = Idle]
IsReq(r, kind) == reqs[r] # Idle /\ reqs[r].kind = kind

-----------------------------------------------------------------------------
(* Challenge and response.                                                  *)

CreateChallenge(c, a) ==
  /\ challenges[c] = NoRow
  /\ challenges' = [challenges EXCEPT ![c] =
       [account |-> a, status |-> "pending", expires |-> now + ChallengeTTL]]
  /\ UNCHANGED << now, rows, tokens, usage, revoked, reqs, accepted >>

\* Mutation: the status of the challenge is not looked at.
VerifyAnyStatus(r, c) ==
  /\ challenges[c] # NoRow
  /\ IF challenges[c].expires < now
     THEN /\ challenges' = [challenges EXCEPT ![c].status = "expired"]
          /\ UNCHANGED reqs
     ELSE /\ Await(r, [kind |-> "login", challenge |-> c])
          /\ UNCHANGED challenges
  /\ UNCHANGED << now, rows, tokens, usage, revoked, accepted >>

\* POST /auth/verify up to the ERC-1271 call.
VerifyBegin(r, c) ==
  /\ challenges[c] # NoRow
  /\ challenges[c].status = "pending"
  /\ IF challenges[c].expires < now
     THEN /\ challenges' = [challenges EXCEPT ![c].status = "expired"]
          /\ UNCHANGED reqs
     ELSE /\ Await(r, [kind |-> "login", challenge |-> c])
          /\ UNCHANGED challenges
  /\ UNCHANGED << now, rows, tokens, usage, revoked, accepted >>

\* The account accepted the signature: UPDATE challenges.
VerifyMark(r) ==
  /\ IsReq(r, "login")
  /\ challenges' = [challenges EXCEPT ![reqs[r].challenge].status = "verified"]
  /\ reqs' = [reqs EXCEPT ![r].kind = "insert"]
  /\ UNCHANGED << now, rows, tokens, usage, revoked, accepted >>

\* Then INSERT INTO sessions, a statement of its own.
VerifyInsert(r, s) ==
  /\ IsReq(r, "insert")
  /\ LET c == reqs[r].challenge IN
     Insert(s, [ account |-> challenges[c].account, package |-> NoPackage,
                 status |-> "active", expires |-> now + LoginTTL, from |-> {c} ])
  /\ Answer(r)
  /\ UNCHANGED << now, challenges, tokens, usage, revoked, accepted >>

\* The chain, the crypto library or the process failed, or it refused (401).
Fail(r) ==
  /\ reqs[r] # Idle
  /\ Answer(r)
  /\ UNCHANGED << now, challenges, rows, tokens, usage, revoked,
                  accepted >>

-----------------------------------------------------------------------------
(* Agent sessions.                                                          *)

\* POST /session/init, for any account and any duration.
SessionInit(s, a, duration) ==
  /\ Insert(s, [ account |-> a, package |-> Unsigned, status |-> "pending",
                 expires |-> now + duration, from |-> {} ])
  /\ UNCHANGED << now, challenges, tokens, usage, revoked, reqs,
                  accepted >>

\* Mutation: the delegator is not compared with the session's account.
PackageAnyDelegator(r, s, d) ==
  /\ rows[s] # NoRow
  /\ rows[s].status = "pending"
  /\ d.delegate = s
  /\ Await(r, [kind |-> "package", sid |-> s, delegation |-> d])
  /\ UNCHANGED << now, challenges, rows, tokens, usage, revoked, accepted >>

\* Mutation: only an active session is refused.
PackageUnlessActive(r, s, d) ==
  /\ rows[s] # NoRow
  /\ rows[s].status # "active"
  /\ d.delegate = s
  /\ d.delegator = rows[s].account
  /\ Await(r, [kind |-> "package", sid |-> s, delegation |-> d])
  /\ UNCHANGED << now, challenges, rows, tokens, usage, revoked, accepted >>

\* POST /session/package: the row must be pending and match the delegation.
PackageBegin(r, s, d) ==
  /\ rows[s] # NoRow
  /\ rows[s].status = "pending"
  /\ d.delegate = s
  /\ d.delegator = rows[s].account
  /\ Await(r, [kind |-> "package", sid |-> s, delegation |-> d])
  /\ UNCHANGED << now, challenges, rows, tokens, usage, revoked,
                  accepted >>

\* ERC-1271 answered the magic value and the package was encrypted:
\* UPDATE sessions SET ..., status = 'active' WHERE id = ?
PackageActivate(r) ==
  /\ IsReq(r, "package")
  /\ rows' = [rows EXCEPT ![reqs[r].sid].package = reqs[r].delegation,
                          ![reqs[r].sid].status = "active"]
  /\ Answer(r)
  /\ UNCHANGED << now, challenges, tokens, usage, revoked, accepted >>

\* DELETE /session/:id by an authenticated caller of the same account.
SessionDelete(s) ==
  /\ rows[s] # NoRow
  /\ Authenticated(rows[s].account)
  /\ rows' = [rows EXCEPT ![s].status = "revoked"]
  /\ UNCHANGED << now, challenges, tokens, usage, revoked, reqs,
                  accepted >>

\* Mutation: log-in sessions, which have no package, are candidates too.
AnyActive(a) ==
  { s \in Sessions : rows[s] # NoRow /\ rows[s].account = a
                     /\ rows[s].status = "active" }

\* The rows of the account that .find() accepts.
Packaged(a) ==
  { s \in Sessions : /\ rows[s] # NoRow
                     /\ rows[s].account = a
                     /\ rows[s].package # NoPackage
                     /\ rows[s].status = "active" }

\* POST /delegation/mint, and the same steps in the MCP proxy: the first such
\* row, if it has not expired, up to the decryption of its package.
MintBegin(r, a) ==
  /\ Authenticated(a)
  /\ \E s \in Packaged(a) :
     /\ \A q \in Packaged(a) : s <= q
     /\ rows[s].expires >= now
     /\ Await(r, [ kind |-> "mint", sid |-> s, delegation |-> rows[s].package,
                   owner |-> a, expires |-> rows[s].expires ])
  /\ UNCHANGED << now, challenges, rows, tokens, usage, revoked, accepted >>

\* The token is signed with the session's key, whatever the row says by now.
MintEnd(r, t) ==
  /\ IsReq(r, "mint")
  /\ tokens[t] = NoRow
  /\ tokens' = [tokens EXCEPT ![t] =
       [ delegation |-> reqs[r].delegation, key |-> reqs[r].sid,
         owner |-> reqs[r].owner, expires |-> reqs[r].expires ]]
  /\ Answer(r)
  /\ UNCHANGED << now, challenges, rows, usage, revoked, accepted >>

-----------------------------------------------------------------------------
(* person-mcp, verifyDelegationAndExtractPrincipal.                         *)

\* Signature, delegate and expiry are right; isRevoked is asked next.
UseBegin(r, t) ==
  /\ tokens[t] # NoRow
  /\ tokens[t].delegation.delegate = tokens[t].key
  /\ tokens[t].expires >= now
  /\ Await(r, [ kind |-> "revocation", token |-> t,
                late |-> tokens[t].delegation \in revoked ])
  /\ UNCHANGED << now, challenges, rows, tokens, usage, revoked,
                  accepted >>

\* Mutation: the answer of isRevoked is ignored.
UseAnyRevocation(r) ==
  /\ IsReq(r, "revocation")
  /\ reqs' = [reqs EXCEPT ![r].kind = "erc1271"]
  /\ UNCHANGED << now, challenges, rows, tokens, usage, revoked, accepted >>

\* isRevoked answered false.
UseNotRevoked(r) ==
  /\ IsReq(r, "revocation")
  /\ tokens[reqs[r].token].delegation \notin revoked
  /\ reqs' = [reqs EXCEPT ![r].kind = "erc1271"]
  /\ UNCHANGED << now, challenges, rows, tokens, usage, revoked,
                  accepted >>

\* Mutation: one use too many.
CountOneMore(t) ==
  /\ usage[t] <= UsageLimit
  /\ usage' = [usage EXCEPT ![t] = @ + 1]

\* INSERT ... ON CONFLICT DO UPDATE ... WHERE usage_count < usage_limit: the
\* first use inserts whatever the limit, and no row changed means refusal.
CountUse(t) ==
  /\ usage[t] = 0 \/ usage[t] < UsageLimit
  /\ usage' = [usage EXCEPT ![t] = @ + 1]

\* ERC-1271 accepted; the time window and the usage limit are checked and the
\* use is counted without suspending again.
UseAccept(r) ==
  /\ IsReq(r, "erc1271")
  /\ LET t == reqs[r].token IN
     /\ now < tokens[t].delegation.until
     /\ CountUse(t)
     /\ accepted' = [accepted EXCEPT ![t] =
          [count |-> @.count + 1, late |-> @.late \/ reqs[r].late]]
  /\ Answer(r)
  /\ UNCHANGED << now, challenges, rows, tokens, revoked >>

-----------------------------------------------------------------------------
(* The chain, the clock and restarts.                                       *)

\* DelegationManager.revokeDelegation, of any delegation by any caller.
ChainRevoke(d) ==
  /\ Cardinality(revoked) < MaxRevocations
  /\ revoked' = revoked \cup {d}
  /\ UNCHANGED << now, challenges, rows, tokens, usage, reqs, accepted >>

\* A process restarts: its suspended handlers are lost, SQLite keeps the rest.
Restart(kinds) ==
  /\ reqs' = [r \in Reqs |->
       IF reqs[r] # Idle /\ reqs[r].kind \in kinds THEN Idle ELSE reqs[r]]
  /\ UNCHANGED << now, challenges, rows, tokens, usage, revoked, accepted >>

Tick ==
  /\ now < MaxTime
  /\ now' = now + 1
  /\ UNCHANGED << challenges, rows, tokens, usage, revoked, reqs,
                  accepted >>

Next ==
  \/ \E c \in Challenges, a \in Accounts : CreateChallenge(c, a)
  \/ \E r \in Reqs, c \in Challenges : VerifyBegin(r, c)
  \/ \E r \in Reqs : VerifyMark(r) \/ \E s \in Sessions : VerifyInsert(r, s)
  \/ \E r \in Reqs : Fail(r)
  \/ \E s \in Sessions, a \in Accounts, n \in Durations : SessionInit(s, a, n)
  \/ \E r \in Reqs, s \in Sessions, d \in Delegation : PackageBegin(r, s, d)
  \/ \E r \in Reqs : PackageActivate(r)
  \/ \E s \in Sessions : SessionDelete(s)
  \/ \E r \in Reqs, a \in Accounts : MintBegin(r, a)
  \/ \E r \in Reqs, t \in Tokens : MintEnd(r, t)
  \/ \E r \in Reqs, t \in Tokens : UseBegin(r, t)
  \/ \E r \in Reqs : UseNotRevoked(r)
  \/ \E r \in Reqs : UseAccept(r)
  \/ \E d \in Delegation : ChainRevoke(d)
  \/ Restart({"login", "insert", "package", "mint"})
  \/ Restart({"revocation", "erc1271"})
  \/ Tick

Spec == Init /\ [][Next]_vars

-----------------------------------------------------------------------------
(* Properties.                                                              *)

\* However packages of one session race, a token speaks for the account that
\* asked for it, under a delegation to the very key that signs it.
TokensSpeakForOwner ==
  \A t \in Tokens : tokens[t] # NoRow =>
    /\ tokens[t].delegation \in Delegation
    /\ tokens[t].delegation.delegator = tokens[t].owner
    /\ tokens[t].delegation.delegate = tokens[t].key

\* "The same delegation token cannot be replayed past its declared usage limit,
\* even under concurrent callers."
TokenUseMetered ==
  \A t \in Tokens : accepted[t].count <= UsageLimit

\* A verification that begins after the delegation was revoked on chain never
\* lets the token through, whatever the token's session is still said to be.
RevocationReachesTokens == \A t \in Tokens : ~accepted[t].late

\* The packages in flight for session s.
InFlight(s) == { r \in Reqs : IsReq(r, "package") /\ reqs[r].sid = s }

\* A revoked session comes back only through a /session/package that was under
\* way when it was revoked: once those are answered, revocation is final.
RevokedStays ==
  [][ \A s \in Sessions :
        rows[s] # NoRow /\ rows[s].status = "revoked" /\ InFlight(s) = {}
          => rows'[s].status = "revoked" /\ InFlight(s)' = {} ]_vars

\* A challenge that was used or has expired opens no session once the handlers
\* that saw it pending are done: one use, except among concurrent requests.
LoginsOf(c) ==
  { r \in Reqs : (IsReq(r, "login") \/ IsReq(r, "insert")) /\ reqs[r].challenge = c }
ChallengeSpent ==
  [][ \A c \in Challenges :
        /\ challenges[c] # NoRow
        /\ challenges[c].status # "pending"
        /\ LoginsOf(c) = {}
        => /\ challenges'[c].status # "pending"
           /\ LoginsOf(c)' = {}
           /\ \A s \in Sessions : (rows[s] # rows'[s] /\ rows[s] = NoRow)
                                  => rows'[s].from # {c} ]_vars

\* "Challenge nonces: per-account, one-use, TTL-bound": a challenge opens one
\* session.
ChallengeOneUse ==
  \A c \in Challenges : \A s, q \in Used :
    rows[s].from = {c} /\ rows[q].from = {c} => s = q

-----------------------------------------------------------------------------
(* The delegated tokens both services promise.                              *)

Holder == [ s \in Sessions |-> IF rows[s] = NoRow THEN {} ELSE { rows[s].account } ]

\* The delegation mint would take from the row.
Grant == [ s \in Sessions |->
  { d \in Delegation :
      rows[s] # NoRow /\ rows[s].status = "active" /\ rows[s].package = d } ]

Minted == [ t \in Tokens |->
  IF tokens[t] = NoRow THEN {}
  ELSE { [delegation |-> tokens[t].delegation, owner |-> tokens[t].owner] } ]

\* What the requests to mint have read.
AskedFor == [ r \in Reqs |->
  IF IsReq(r, "mint") THEN { [delegation |-> reqs[r].delegation, owner |-> reqs[r].owner] }
  ELSE {} ]

\* A use is admitted once isRevoked has answered false.
Admitted == [ r \in Reqs |-> IF IsReq(r, "erc1271") THEN { reqs[r].token } ELSE {} ]

Promised == INSTANCE DelegatedTokens WITH
  Keys <- Sessions, Limit <- UsageLimit, holder <- Holder, grant <- Grant,
  asked <- AskedFor, minted <- Minted, withdrawn <- revoked, admitted <- Admitted,
  uses <- usage

\* Log-ins, packages that race, deletions, minting, verification and restarts
\* implement delegated tokens: every token accepted was minted under a
\* delegation of its owner to the key of the session, not withdrawn when asked.
ImplementsTokens == Promised!Spec
=============================================================================
