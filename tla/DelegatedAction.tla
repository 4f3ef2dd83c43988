-------------------------- MODULE DelegatedAction --------------------------
(***************************************************************************)
(* Delegated session signing: the passkey ceremony of the web app that      *)
(* mints a session, the signer that stamps wallet actions for it, and the   *)
(* person-mcp process that stores sessions and decides every action.        *)
(*                                                                          *)
(* Handlers run concurrently and are cut where the code awaits: finalize    *)
(* reads the revocation epoch, waits for ERC-1271 and then inserts; the     *)
(* verifier reads a snapshot, waits for the signature recovery and then     *)
(* burns the nonce, slides the idle deadline and audits.  Signed actions    *)
(* stay on the wire for ever: the network may delay, repeat or drop them.   *)
(***************************************************************************)
EXTENDS SessionGrant, Integers, Sequences, FiniteSets

CONSTANTS
  Accounts, Sessions, Nonces,
  Services,      \* the service names a verification is asked for: person-mcp's
                 \* own by dispatch, the caller's by /wallet-action/verify
  Reqs,          \* slots for verifications in flight
  Shapes,        \* the action shapes clients send
  NoNonce, NoRow, Idle,
  HardTTL, IdleWindow, TokenTTL,
  ActionWindow,  \* SESSION_GRANT_DEFAULTS.maxActionExpirySeconds
  NonceTTL,      \* NONCE_TTL_MS
  ClockSkew,     \* how far the web app's clock may be from person-mcp's
  MaxVerify,     \* longest time between the verifier's clock read and its commit
  MaxTime, MaxEpoch  \* bounds of the model

\* The timing relation the replay protection depends on.  The source has
\* NonceTTL = 10 min and ActionWindow = 5 min, so it leaves 5 minutes for the
\* clocks' difference and the verification itself.
ASSUME TimingAssumption ==
  /\ { ActionWindow, NonceTTL, ClockSkew, MaxVerify, IdleWindow,
       HardTTL, TokenTTL, MaxTime, MaxEpoch } \subseteq Nat
  /\ ActionWindow + ClockSkew + MaxVerify <= NonceTTL
VARIABLES
  now,         \* person-mcp's clock
  epoch,       \* revocation_epochs, absent rows read as 0
  sessions,    \* the sessions table
  nonces,      \* action_nonces_v2
  audit,       \* audit_log, per account
  tokens,      \* session-grant-pending tokens handed to browsers
  finalizing,  \* finalize requests waiting for ERC-1271, with the epoch read
  signed,      \* actions the custody backend signed
  reqs,        \* verifications waiting for recoverAddress
  answer       \* history: the last decision a caller was told

vars == << now, epoch, sessions, nonces, audit, tokens, finalizing, signed,
           reqs, answer >>

Token == [ sid : Sessions, account : Accounts, epoch : Nat, issuedAt : Nat ]
Finalize == [ token : Token, epoch : Nat ]
\* revokedAt is the code's revoked_at_ms: {} for NULL, else the singleton of the time.
\* grantEpoch is the epoch inside the signed grant, epoch the row's own column.
Row == [ account : Accounts, grantEpoch : Nat, epoch : Nat, idleExpires : Nat,
         expires : Nat, revokedAt : SUBSET Nat ]
Action == [ sid : Sessions, account : Accounts, nonce : Nonces, shape : Shapes,
            authentic : BOOLEAN, created : Nat, expires : Nat ]
NonceRow == [ account : Accounts, nonce : Nonces, at : Nat ]
Pending == [ action : Action, startedAt : Nat, startEpoch : Nat ]
\* startedAt and startEpoch are history: when the decision's snapshot was read.
Entry == [ sid : Sessions, nonce : Nonces \cup {NoNonce}, ts : Nat,
           decision : {"allowed", "denied", "grant_minted"},
           startedAt : Nat, startEpoch : Nat ]
Answer == (Nonces \cup {NoNonce}) \X {"none", "allowed", "denied", "error"}

ASSUME NullAssumption ==
  NoNonce \notin Nonces /\ NoRow \notin Row /\ Idle \notin Pending

TypeOK ==
  /\ now \in Nat
  /\ epoch \in [Accounts -> Nat]
  /\ sessions \in [Sessions -> Row \cup {NoRow}]
  /\ nonces \subseteq NonceRow
  /\ audit \in [Accounts -> Seq(Entry)]
  /\ tokens \subseteq Token
  /\ finalizing \subseteq Finalize
  /\ signed \subseteq Action
  /\ reqs \in [Reqs -> Pending \cup {Idle}]
  /\ answer \in Answer

WebClock == { t \in now - ClockSkew .. now + ClockSkew : t >= 0 }

Init ==
  /\ now = 0
  /\ epoch = [a \in Accounts |-> 0]
  /\ sessions = [s \in Sessions |-> NoRow]
  /\ nonces = {}
  /\ audit = [a \in Accounts |-> << >>]
  /\ tokens = {}
  /\ finalizing = {}
  /\ signed = {}
  /\ reqs = [r \in Reqs |-> Idle]
  /\ answer = << NoNonce, "none" >>

-----------------------------------------------------------------------------
(* The ceremony in the web app.                                             *)

\* POST /session-grant/start: a fresh session id, the epoch as person-mcp has
\* it, and a signed token that carries the grant.
StartCeremony(s, a) ==
  /\ \A t \in tokens : t.sid # s
  /\ \E issued \in WebClock :
       tokens' = tokens \cup
         { [sid |-> s, account |-> a, epoch |-> epoch[a], issuedAt |-> issued] }
  /\ UNCHANGED << now, epoch, sessions, nonces, audit, finalizing, signed, reqs,
                  answer >>

\* Mutation: no 409 for a token whose grant carries an older epoch.
FinalizeCheckNoEpoch(t) ==
  /\ \E clock \in WebClock : clock < t.issuedAt + TokenTTL
  /\ finalizing' = finalizing \cup { [token |-> t, epoch |-> epoch[t.account]] }
  /\ UNCHANGED << now, epoch, sessions, nonces, audit, tokens, signed, reqs,
                  answer >>

\* POST /session-grant/finalize up to the ERC-1271 call: an expired token is
\* refused (401), and so is a token whose grant carries another epoch than the
\* one just read (409).
FinalizeCheck(t) ==
  /\ \E clock \in WebClock : clock < t.issuedAt + TokenTTL
  /\ t.epoch = epoch[t.account]
  /\ finalizing' = finalizing \cup { [token |-> t, epoch |-> epoch[t.account]] }
  /\ UNCHANGED << now, epoch, sessions, nonces, audit, tokens, signed, reqs,
                  answer >>

\* The SessionRecord of a finalize request.
MintedRow(f, clock) ==
  [ account |-> f.token.account, grantEpoch |-> f.token.epoch, epoch |-> f.epoch,
    idleExpires |-> clock + IdleWindow, expires |-> f.token.issuedAt + HardTTL,
    revokedAt |-> {} ]

MintEntry(s, a) ==
  [ sid |-> s, nonce |-> NoNonce, ts |-> now, decision |-> "grant_minted",
    startedAt |-> now, startEpoch |-> epoch[a] ]

\* Mutation: insertSession as an upsert.
FinalizeUpsert(f, crash) ==
  LET s == f.token.sid
      a == f.token.account IN
  /\ \E clock \in WebClock : sessions' = [sessions EXCEPT ![s] = MintedRow(f, clock)]
  /\ audit' = [audit EXCEPT ![a] = Append(@, MintEntry(s, a))]
  /\ finalizing' = finalizing \ {f}
  /\ UNCHANGED << now, epoch, nonces, tokens, signed, reqs, answer >>

\* ERC-1271 answered the magic value: insertSession, whose primary key refuses
\* a second row, and the grant_minted entry.  person-mcp may die between the
\* two statements, each of which commits on its own.
FinalizeInsert(f, crash) ==
  LET s == f.token.sid
      a == f.token.account IN
  /\ sessions[s] = NoRow
  /\ \E clock \in WebClock : sessions' = [sessions EXCEPT ![s] = MintedRow(f, clock)]
  /\ \/ /\ ~crash
        /\ audit' = [audit EXCEPT ![a] = Append(@, MintEntry(s, a))]
        /\ UNCHANGED reqs
     \/ /\ crash
        /\ reqs' = [r \in Reqs |-> Idle]
        /\ UNCHANGED audit
  /\ finalizing' = finalizing \ {f}
  /\ UNCHANGED << now, epoch, nonces, tokens, signed, answer >>

\* Signature refused, call lost, or the row exists already (502).
FinalizeFail(f) ==
  /\ finalizing' = finalizing \ {f}
  /\ UNCHANGED << now, epoch, sessions, nonces, audit, tokens, signed, reqs,
                  answer >>

\* dispatchWalletAction: the session is looked up by cookie, whatever its
\* status, and an action with a fresh random nonce is stamped with the web
\* app's clock.  The code asks for two minutes; a client that asks for more than
\* the verifier's cap, or signs with another key, is refused there.
Sign(s, n, shape, authentic) ==
  /\ sessions[s] # NoRow
  /\ \A x \in signed : x.nonce # n
  /\ \E created \in WebClock, window \in 1 .. ActionWindow + 1 :
       signed' = signed \cup
         { [ sid |-> s, account |-> sessions[s].account, nonce |-> n,
             shape |-> shape, authentic |-> authentic, created |-> created,
             expires |-> created + window ] }
  /\ UNCHANGED << now, epoch, sessions, nonces, audit, tokens, finalizing, reqs,
                  answer >>

-----------------------------------------------------------------------------
(* The verifier, verifyDelegatedWalletAction.                               *)

\* Mutation: step 2 forgets revoked_at_ms.
UsableIfRevoked(row) ==
  /\ now < row.expires
  /\ now < row.idleExpires
  /\ row.epoch = epoch[row.account]

\* Steps 2 and 3: the session row and the account's epoch, as read now.
SessionUsable(row) ==
  /\ row.revokedAt = {}
  /\ now < row.expires
  /\ now < row.idleExpires
  /\ row.epoch = epoch[row.account]

\* Step 9.
TimingOK(x) ==
  /\ now < x.expires
  /\ x.expires - x.created \in 1 .. ActionWindow

\* Steps 2 to 9 for action x presented with the wire envelope's session id s and
\* verified for the service self.
ChecksPass(x, s, self) ==
  /\ sessions[s] # NoRow
  /\ SessionUsable(sessions[s])
  /\ x.sid = s
  /\ x.account = sessions[s].account
  /\ Permitted(x.shape, DefaultGrant, self)
  /\ TimingOK(x)

\* A request passes the checks and its handler suspends in recoverAddress.
BeginVerify(r, x, s) ==
  /\ reqs[r] = Idle
  /\ \E self \in Services : ChecksPass(x, s, self)
  /\ reqs' = [reqs EXCEPT ![r] =
                [action |-> x, startedAt |-> now, startEpoch |-> epoch[x.account]]]
  /\ UNCHANGED << now, epoch, sessions, nonces, audit, tokens, finalizing, signed,
                  answer >>

\* A check fails: the caller gets a 403 and the store is left alone.
Deny(x, s) ==
  /\ \E self \in Services : ~ChecksPass(x, s, self)
  /\ answer' = << x.nonce, "denied" >>
  /\ UNCHANGED << now, epoch, sessions, nonces, audit, tokens, finalizing, signed,
                  reqs >>

\* Step 10 finds another signer.
DenySignature(r) ==
  /\ reqs[r] # Idle
  /\ ~reqs[r].action.authentic
  /\ answer' = << reqs[r].action.nonce, "denied" >>
  /\ reqs' = [reqs EXCEPT ![r] = Idle]
  /\ UNCHANGED << now, epoch, sessions, nonces, audit, tokens, finalizing, signed >>

\* The primary key of action_nonces_v2.
Burned(x) == \E row \in nonces : row.account = x.account /\ row.nonce = x.nonce

\* Step 11 finds the nonce in the table.
Replay(r) ==
  /\ reqs[r] # Idle
  /\ reqs[r].action.authentic
  /\ Burned(reqs[r].action)
  /\ answer' = << reqs[r].action.nonce, "error" >>
  /\ reqs' = [reqs EXCEPT ![r] = Idle]
  /\ UNCHANGED << now, epoch, sessions, nonces, audit, tokens, finalizing, signed >>

\* Mutation: nonces are kept only as long as an action may live.
ConsumeShortTTL(x) ==
  nonces' = { row \in nonces : row.at + ActionWindow >= now }
            \cup { [account |-> x.account, nonce |-> x.nonce, at |-> now] }

\* consumeActionNonce: the insert, then the garbage collection of old rows.
Consume(x) ==
  nonces' = { row \in nonces : row.at + NonceTTL >= now }
            \cup { [account |-> x.account, nonce |-> x.nonce, at |-> now] }

\* Mutation: the deadline is set to the time of use.
SlideToUse(p) ==
  sessions' = [sessions EXCEPT ![p.action.sid].idleExpires = p.startedAt]

\* bumpIdleDeadline, with the clock value read before the await.
SlideIdle(p) ==
  sessions' = [sessions EXCEPT ![p.action.sid].idleExpires = p.startedAt + IdleWindow]

AllowedEntry(p) ==
  [ sid |-> p.action.sid, nonce |-> p.action.nonce, ts |-> now,
    decision |-> "allowed", startedAt |-> p.startedAt, startEpoch |-> p.startEpoch ]

\* Mutation: the answer goes out before the audit entry is written.
CommitUnaudited(r) ==
  LET p == reqs[r] IN
  /\ p # Idle
  /\ p.action.authentic
  /\ ~Burned(p.action)
  /\ Consume(p.action)
  /\ SlideIdle(p)
  /\ answer' = << p.action.nonce, "allowed" >>
  /\ reqs' = [reqs EXCEPT ![r] = Idle]
  /\ UNCHANGED << now, epoch, audit, tokens, finalizing, signed >>

\* Mutation: a nonce row that is already there is ignored.
CommitIgnoringRow(r) ==
  LET p == reqs[r] IN
  /\ p # Idle
  /\ p.action.authentic
  /\ Consume(p.action)
  /\ SlideIdle(p)
  /\ audit' = [audit EXCEPT ![p.action.account] = Append(@, AllowedEntry(p))]
  /\ answer' = << p.action.nonce, "allowed" >>
  /\ reqs' = [reqs EXCEPT ![r] = Idle]
  /\ UNCHANGED << now, epoch, tokens, finalizing, signed >>

\* Steps 11 to 13 run without suspending.
Commit(r) ==
  LET p == reqs[r] IN
  /\ p # Idle
  /\ p.action.authentic
  /\ ~Burned(p.action)
  /\ Consume(p.action)
  /\ SlideIdle(p)
  /\ audit' = [audit EXCEPT ![p.action.account] = Append(@, AllowedEntry(p))]
  /\ answer' = << p.action.nonce, "allowed" >>
  /\ reqs' = [reqs EXCEPT ![r] = Idle]
  /\ UNCHANGED << now, epoch, tokens, finalizing, signed >>

\* Mutation: the audit entry is written before the nonce is burned.
CrashAfterAudit(r, slid) ==
  LET p == reqs[r] IN
  /\ p # Idle
  /\ p.action.authentic
  /\ ~Burned(p.action)
  /\ audit' = [audit EXCEPT ![p.action.account] = Append(@, AllowedEntry(p))]
  /\ IF slid THEN SlideIdle(p) ELSE UNCHANGED sessions
  /\ reqs' = [q \in Reqs |-> Idle]
  /\ UNCHANGED << now, epoch, nonces, tokens, finalizing, signed, answer >>

\* The process dies inside steps 11 to 13, whose statements commit one by one:
\* after the nonce, or after the nonce and the idle deadline.
CrashInCommit(r, slid) ==
  LET p == reqs[r] IN
  /\ p # Idle
  /\ p.action.authentic
  /\ ~Burned(p.action)
  /\ Consume(p.action)
  /\ IF slid THEN SlideIdle(p) ELSE UNCHANGED sessions
  /\ reqs' = [q \in Reqs |-> Idle]
  /\ UNCHANGED << now, epoch, audit, tokens, finalizing, signed, answer >>

\* person-mcp restarts: SQLite keeps everything but the suspended handlers.
Crash ==
  /\ reqs' = [r \in Reqs |-> Idle]
  /\ UNCHANGED << now, epoch, sessions, nonces, audit, tokens, finalizing, signed,
                  answer >>

-----------------------------------------------------------------------------
(* Settings: revoke one session, or press the panic button.                 *)

\* UPDATE ... WHERE revoked_at_ms IS NULL.
Revoke(s) ==
  /\ sessions[s] # NoRow
  /\ sessions[s].revokedAt = {}
  /\ sessions' = [sessions EXCEPT ![s].revokedAt = {now}]
  /\ UNCHANGED << now, epoch, nonces, audit, tokens, finalizing, signed, reqs,
                  answer >>

BumpEpoch(a) ==
  /\ epoch[a] < MaxEpoch
  /\ epoch' = [epoch EXCEPT ![a] = @ + 1]
  /\ UNCHANGED << now, sessions, nonces, audit, tokens, finalizing, signed, reqs,
                  answer >>

\* Time passes, but no verification stays suspended for longer than MaxVerify.
Tick ==
  /\ now < MaxTime
  /\ \A r \in Reqs : reqs[r] # Idle => now < reqs[r].startedAt + MaxVerify
  /\ now' = now + 1
  /\ UNCHANGED << epoch, sessions, nonces, audit, tokens, finalizing, signed, reqs,
                  answer >>

Next ==
  \/ \E s \in Sessions, a \in Accounts : StartCeremony(s, a)
  \/ \E t \in tokens : FinalizeCheck(t)
  \/ \E f \in finalizing, crash \in BOOLEAN : FinalizeInsert(f, crash)
  \/ \E f \in finalizing : FinalizeFail(f)
  \/ \E s \in Sessions, n \in Nonces, shape \in Shapes, ok \in BOOLEAN :
       Sign(s, n, shape, ok)
  \/ \E r \in Reqs, x \in signed, s \in Sessions : BeginVerify(r, x, s)
  \/ \E x \in signed, s \in Sessions : Deny(x, s)
  \/ \E r \in Reqs : DenySignature(r)
  \/ \E r \in Reqs : Replay(r)
  \/ \E r \in Reqs : Commit(r)
  \/ \E r \in Reqs, slid \in BOOLEAN : CrashInCommit(r, slid)
  \/ Crash
  \/ \E s \in Sessions : Revoke(s)
  \/ \E a \in Accounts : BumpEpoch(a)
  \/ Tick

Spec == Init /\ [][Next]_vars

-----------------------------------------------------------------------------
(* Properties.                                                              *)

Allowed(a) == { i \in 1 .. Len(audit[a]) : audit[a][i].decision = "allowed" }

\* An action nonce is accepted once, whatever is delayed, repeated, collected
\* from the nonce table or lost in a crash (consumeActionNonce's UNIQUE row
\* outlives every copy of the action that could still pass the checks).
ReplayFree ==
  \A a \in Accounts : \A i, j \in Allowed(a) :
    audit[a][i].nonce = audit[a][j].nonce => i = j

\* After the panic button no grant signed before it is good for anything: a
\* decision is taken under the very epoch the session's grant was signed with,
\* however start, finalize, bump-epoch and verify interleave.
PanicSticks ==
  \A a \in Accounts : \A i \in Allowed(a) :
    sessions[audit[a][i].sid].grantEpoch = audit[a][i].startEpoch

\* "At revocation: immediate denial on next request": no accepted action
\* belongs to a request that began after its session was revoked.
RevocationHolds ==
  \A a \in Accounts : \A i \in Allowed(a) :
    \A t \in sessions[audit[a][i].sid].revokedAt : audit[a][i].startedAt <= t

\* "Nonces are burned before tool execution": an "allowed" entry always has its
\* nonce in the table until the retention time is over, also across a crash
\* between the statements of the verifier.
AuditBacked ==
  \A a \in Accounts : \A i \in Allowed(a) :
    LET e == audit[a][i] IN
    now <= e.ts + NonceTTL =>
      [account |-> a, nonce |-> e.nonce, at |-> e.ts] \in nonces

\* A caller is told "allowed" only once the decision is in the audit log.
AllowedIsAudited ==
  \A x \in signed : answer = << x.nonce, "allowed" >> =>
    \E i \in Allowed(x.account) : audit[x.account][i].nonce = x.nonce

\* A session row is written once: neither a repeated finalize nor a late
\* verification extends the hard deadline, re-stamps the epoch or brings a
\* revoked session back.
RowsOnlyAge ==
  [][ \A s \in Sessions : sessions[s] # NoRow =>
        /\ sessions'[s] # NoRow
        /\ sessions'[s].expires = sessions[s].expires
        /\ sessions'[s].epoch = sessions[s].epoch
        /\ sessions[s].revokedAt \subseteq sessions'[s].revokedAt ]_vars

\* Verifications that finish out of order, and the two clocks, may move the
\* idle deadline back, but never by more than their own slack.
IdleNeverCollapses ==
  [][ \A s \in Sessions : sessions[s] # NoRow =>
        sessions[s].idleExpires
          <= sessions'[s].idleExpires + MaxVerify + ClockSkew ]_vars

\* "Audit log entry is appended on every decision (allowed and denied)."
EveryDecisionAudited ==
  \A x \in signed, d \in {"allowed", "denied"} : answer = << x.nonce, d >> =>
    \E i \in 1 .. Len(audit[x.account]) :
      audit[x.account][i].nonce = x.nonce /\ audit[x.account][i].decision = d

-----------------------------------------------------------------------------
(* The inductive invariant behind the safety properties.                    *)

\* A nonce belongs to one action, and no action was stamped with a time the web
\* app's clock could not have shown yet.
SignedInv ==
  /\ \A x, y \in signed : x.nonce = y.nonce => x = y
  /\ \A x \in signed : x.created <= now + ClockSkew

\* Session rows carry the epoch their grant was signed with.
RowInv ==
  /\ \A f \in finalizing : f.epoch = f.token.epoch
  /\ \A s \in Sessions : sessions[s] # NoRow =>
       sessions[s].epoch = sessions[s].grantEpoch

\* A suspended verification passed its checks at most MaxVerify ago.
PendingOK(p) ==
  /\ p.action \in signed
  /\ p.startedAt <= now
  /\ now <= p.startedAt + MaxVerify
  /\ p.startedAt < p.action.expires
  /\ p.action.expires <= p.action.created + ActionWindow
  /\ sessions[p.action.sid] # NoRow
  /\ sessions[p.action.sid].grantEpoch = p.startEpoch
  /\ \A t \in sessions[p.action.sid].revokedAt : p.startedAt <= t

PendingInv == \A r \in Reqs : reqs[r] # Idle => PendingOK(reqs[r])

\* Who was accepted, when, and what still protects it from a second acceptance.
\* Once the nonce row may have been collected, the action itself has expired.
EntryOK(a, e) ==
  /\ e.startedAt <= e.ts
  /\ e.ts <= now
  /\ \E x \in signed : /\ x.account = a
                      /\ x.nonce = e.nonce
                      /\ x.created <= e.ts + ClockSkew
  /\ now <= e.ts + NonceTTL =>
       [account |-> a, nonce |-> e.nonce, at |-> e.ts] \in nonces
  /\ sessions[e.sid] # NoRow
  /\ sessions[e.sid].grantEpoch = e.startEpoch
  /\ \A t \in sessions[e.sid].revokedAt : e.startedAt <= t

AuditInv == \A a \in Accounts : \A i \in Allowed(a) : EntryOK(a, audit[a][i])

IInv == TypeOK /\ SignedInv /\ RowInv /\ PendingInv /\ AuditInv /\ ReplayFree

-----------------------------------------------------------------------------
(* The one-use actions the verifier promises.                               *)

UseOf(a, e) == [account |-> a, sid |-> e.sid, nonce |-> e.nonce]

Grants == [ s \in Sessions |->
  IF sessions[s] = NoRow THEN {}
  ELSE { [account |-> sessions[s].account, generation |-> sessions[s].grantEpoch] } ]

Closed == { s \in Sessions : sessions[s] # NoRow /\ sessions[s].revokedAt # {} }

Admitted == [ r \in Reqs |->
  IF reqs[r] = Idle THEN {} ELSE { UseOf(reqs[r].action.account, reqs[r].action) } ]

\* How often the log shows each use as allowed.
Uses == [account : Accounts, sid : Sessions, nonce : Nonces]
Receipts(u) == { i \in Allowed(u.account) : UseOf(u.account, audit[u.account][i]) = u }
Accepted == [u \in Uses |-> Cardinality(Receipts(u))]

Actions == INSTANCE OneUseActions WITH
  generation <- epoch, grant <- Grants, closed <- Closed, admitted <- Admitted,
  accepted <- Accepted

\* The ceremony, the session and nonce tables, the audit log, their clocks,
\* collection and crashes implement one-use actions: each entry of the log that
\* says "allowed" was admitted under a live grant of that account, and it is the
\* only one with its nonce.
ImplementsActions == Actions!Spec
=============================================================================
