----------------------- MODULE DelegatedActionProofs -----------------------
(***************************************************************************)
(* Proofs about delegated session signing, for every number of accounts,    *)
(* sessions, nonces and concurrent verifications, and for every value of    *)
(* the time constants that satisfies TimingAssumption.                      *)
(***************************************************************************)
EXTENDS DelegatedAction, FiniteSetTheorems, TLAPS

USE TimingAssumption, NullAssumption

\* Every clock the web app may show is a natural number close to now.
LEMMA WebClockBounds ==
  ASSUME TypeOK
  PROVE  \A t \in WebClock : t \in Nat /\ t <= now + ClockSkew
  BY DEF WebClock, TypeOK

\* A suspended request is a Pending record.
LEMMA PendingType ==
  ASSUME TypeOK, NEW r \in Reqs, reqs[r] # Idle
  PROVE  /\ reqs[r] \in Pending
         /\ reqs[r].action \in Action
         /\ reqs[r].startedAt \in Nat
         /\ reqs[r].startEpoch \in Nat
  BY DEF TypeOK, Pending

\* Every store update of the verifier keeps the types.
LEMMA ConsumeType ==
  ASSUME TypeOK, NEW x \in Action, Consume(x)
  PROVE  nonces' \subseteq NonceRow
  BY SMTT(30) DEF TypeOK, Consume, NonceRow, Action

LEMMA SlideType ==
  ASSUME TypeOK, NEW p \in Pending, SlideIdle(p),
         sessions[p.action.sid] # NoRow
  PROVE  sessions' \in [Sessions -> Row \cup {NoRow}]
<1>1. p.action.sid \in Sessions /\ p.startedAt + IdleWindow \in Nat
  BY DEF Pending, Action
<1>2. sessions[p.action.sid] \in Row
  BY <1>1 DEF TypeOK
<1>3. [sessions[p.action.sid] EXCEPT !.idleExpires = p.startedAt + IdleWindow] \in Row
  BY <1>1, <1>2 DEF Row
<1>. QED
  BY <1>1, <1>3 DEF SlideIdle, TypeOK

LEMMA AppendType ==
  ASSUME TypeOK, NEW a \in Accounts, NEW e \in Entry,
         audit' = [audit EXCEPT ![a] = Append(@, e)]
  PROVE  audit' \in [Accounts -> Seq(Entry)]
<1>1. Append(audit[a], e) \in Seq(Entry)
  BY DEF TypeOK
<1>. QED
  BY <1>1 DEF TypeOK

LEMMA AnswerType ==
  ASSUME NEW n \in Nonces, NEW d \in {"allowed", "denied", "error"},
         answer' = << n, d >>
  PROVE  answer' \in Answer
<1>1. n \in Nonces \cup {NoNonce} /\ d \in {"none", "allowed", "denied", "error"}
  OBVIOUS
<1>2. << n, d >> \in (Nonces \cup {NoNonce}) \X {"none", "allowed", "denied", "error"}
  BY <1>1
<1>. QED
  BY <1>2, Zenon DEF Answer

\* The state every handler finds is well typed (types are what the proofs
\* below need to know of the records they take apart).
LEMMA TypeStep ==
  ASSUME TypeOK, PendingInv, [Next]_vars
  PROVE  TypeOK'
<1>1. ASSUME NEW s \in Sessions, NEW a \in Accounts, StartCeremony(s, a)
      PROVE  TypeOK'
  <2>1. \A t \in WebClock :
          [sid |-> s, account |-> a, epoch |-> epoch[a], issuedAt |-> t] \in Token
    BY WebClockBounds DEF Token, TypeOK
  <2>. QED
    BY <1>1, <2>1 DEF StartCeremony, TypeOK
<1>2. ASSUME NEW t \in tokens, FinalizeCheck(t)
      PROVE  TypeOK'
  <2>1. [token |-> t, epoch |-> epoch[t.account]] \in Finalize
    BY DEF Finalize, Token, TypeOK
  <2>. QED
    BY <1>2, <2>1 DEF FinalizeCheck, TypeOK
<1>3. ASSUME NEW f \in finalizing, NEW crash \in BOOLEAN, FinalizeInsert(f, crash)
      PROVE  TypeOK'
  <2>1. /\ f.token.sid \in Sessions
        /\ f.token.account \in Accounts
        /\ f.token.epoch \in Nat /\ f.token.issuedAt \in Nat /\ f.epoch \in Nat
    BY DEF TypeOK, Finalize, Token
  <2>2. \A c \in WebClock : MintedRow(f, c) \in Row
    BY <2>1, WebClockBounds DEF MintedRow, Row
  <2>3. MintEntry(f.token.sid, f.token.account) \in Entry
    BY <2>1 DEF MintEntry, Entry, TypeOK
  <2>4. sessions' \in [Sessions -> Row \cup {NoRow}]
    BY <1>3, <2>1, <2>2 DEF FinalizeInsert, TypeOK
  <2>5. audit' \in [Accounts -> Seq(Entry)] /\ reqs' \in [Reqs -> Pending \cup {Idle}]
    <3>1. CASE crash
      BY <1>3, <3>1 DEF FinalizeInsert, TypeOK
    <3>2. CASE ~crash
      BY <1>3, <3>2, <2>1, <2>3, AppendType DEF FinalizeInsert, TypeOK
    <3>. QED
      BY <3>1, <3>2
  <2>. QED
    BY <1>3, <2>4, <2>5 DEF FinalizeInsert, TypeOK
<1>4. ASSUME NEW f \in finalizing, FinalizeFail(f)
      PROVE  TypeOK'
  BY <1>4 DEF FinalizeFail, TypeOK
<1>5. ASSUME NEW s \in Sessions, NEW n \in Nonces, NEW shape \in Shapes,
             NEW ok \in BOOLEAN, Sign(s, n, shape, ok)
      PROVE  TypeOK'
  <2>1. sessions[s].account \in Accounts
    BY <1>5 DEF Sign, TypeOK, Row
  <2>2. \A c \in WebClock, w \in 1 .. ActionWindow + 1 :
          [ sid |-> s, account |-> sessions[s].account, nonce |-> n, shape |-> shape,
            authentic |-> ok, created |-> c, expires |-> c + w ] \in Action
    BY <2>1, WebClockBounds DEF Action
  <2>. QED
    BY <1>5, <2>2 DEF Sign, TypeOK
<1>6. ASSUME NEW r \in Reqs, NEW x \in signed, NEW s \in Sessions, BeginVerify(r, x, s)
      PROVE  TypeOK'
  <2>1. [action |-> x, startedAt |-> now, startEpoch |-> epoch[x.account]] \in Pending
    BY DEF Pending, Action, TypeOK
  <2>. QED
    BY <1>6, <2>1 DEF BeginVerify, TypeOK
<1>7. ASSUME NEW x \in signed, NEW s \in Sessions, Deny(x, s)
      PROVE  TypeOK'
  <2>1. x.nonce \in Nonces
    BY DEF TypeOK, Action
  <2>2. answer' \in Answer
    BY <1>7, <2>1, AnswerType DEF Deny
  <2>. QED
    BY <1>7, <2>2 DEF Deny, TypeOK
<1>8. ASSUME NEW r \in Reqs, DenySignature(r)
      PROVE  TypeOK'
  <2>1. reqs[r].action.nonce \in Nonces
    BY <1>8, PendingType DEF DenySignature, Action
  <2>2. answer' \in Answer
    BY <1>8, <2>1, AnswerType DEF DenySignature
  <2>. QED
    BY <1>8, <2>2 DEF DenySignature, TypeOK
<1>9. ASSUME NEW r \in Reqs, Replay(r)
      PROVE  TypeOK'
  <2>1. reqs[r].action.nonce \in Nonces
    BY <1>9, PendingType DEF Replay, Action
  <2>2. answer' \in Answer
    BY <1>9, <2>1, AnswerType DEF Replay
  <2>. QED
    BY <1>9, <2>2 DEF Replay, TypeOK
<1>10. ASSUME NEW r \in Reqs, Commit(r)
       PROVE  TypeOK'
  <2>1. reqs[r] \in Pending /\ reqs[r].action \in Action
        /\ sessions[reqs[r].action.sid] # NoRow
    BY <1>10, PendingType DEF Commit, PendingInv, PendingOK
  <2>2. nonces' \subseteq NonceRow
    BY <1>10, <2>1, ConsumeType DEF Commit
  <2>3. sessions' \in [Sessions -> Row \cup {NoRow}]
    BY <1>10, <2>1, SlideType DEF Commit
  <2>4. AllowedEntry(reqs[r]) \in Entry
    BY <2>1 DEF AllowedEntry, Entry, Pending, Action, TypeOK
  <2>5. audit' \in [Accounts -> Seq(Entry)]
    BY <1>10, <2>1, <2>4, AppendType DEF Commit, Action
  <2>6. answer' \in Answer
    BY <1>10, <2>1, AnswerType DEF Commit, Action
  <2>. QED
    BY <1>10, <2>2, <2>3, <2>5, <2>6 DEF Commit, TypeOK
<1>11. ASSUME NEW r \in Reqs, NEW slid \in BOOLEAN, CrashInCommit(r, slid)
       PROVE  TypeOK'
  <2>1. reqs[r] \in Pending /\ reqs[r].action \in Action
        /\ sessions[reqs[r].action.sid] # NoRow
    BY <1>11, PendingType DEF CrashInCommit, PendingInv, PendingOK
  <2>2. nonces' \subseteq NonceRow
    BY <1>11, <2>1, ConsumeType DEF CrashInCommit
  <2>3. sessions' \in [Sessions -> Row \cup {NoRow}]
    BY <1>11, <2>1, SlideType DEF CrashInCommit, TypeOK
  <2>. QED
    BY <1>11, <2>2, <2>3 DEF CrashInCommit, TypeOK
<1>12. CASE Crash
  BY <1>12 DEF Crash, TypeOK
<1>13. ASSUME NEW s \in Sessions, Revoke(s)
       PROVE  TypeOK'
  <2>1. [sessions[s] EXCEPT !.revokedAt = {now}] \in Row
    BY <1>13 DEF Revoke, TypeOK, Row
  <2>. QED
    BY <1>13, <2>1 DEF Revoke, TypeOK
<1>14. ASSUME NEW a \in Accounts, BumpEpoch(a)
       PROVE  TypeOK'
  BY <1>14, SMTT(30) DEF BumpEpoch, TypeOK
<1>15. CASE Tick
  BY <1>15 DEF Tick, TypeOK
<1>16. CASE UNCHANGED vars
  BY <1>16 DEF vars, TypeOK
<1>. QED
  BY <1>1, <1>2, <1>3, <1>4, <1>5, <1>6, <1>7, <1>8, <1>9, <1>10, <1>11, <1>12,
     <1>13, <1>14, <1>15, <1>16 DEF Next

-----------------------------------------------------------------------------
(* What every step leaves in place.                                         *)

\* A session row that exists keeps its deadline and its epochs, and is revoked,
\* if at all, with the current time.
RowAges(s) ==
  /\ sessions'[s] # NoRow
  /\ sessions'[s].expires = sessions[s].expires
  /\ sessions'[s].epoch = sessions[s].epoch
  /\ sessions'[s].grantEpoch = sessions[s].grantEpoch
  /\ \/ sessions'[s].revokedAt = sessions[s].revokedAt
     \/ sessions[s].revokedAt = {} /\ sessions'[s].revokedAt = {now}

RowsAge == \A s \in Sessions : sessions[s] # NoRow => RowAges(s)

\* A nonce row leaves the table only after its retention time.
NoncesKept == \A row \in nonces : row \in nonces' \/ row.at + NonceTTL < now

LEMMA SlideAges ==
  ASSUME TypeOK, NEW p \in Pending, SlideIdle(p), sessions[p.action.sid] # NoRow
  PROVE  RowsAge
<1> DEFINE u == p.action.sid
<1>1. u \in Sessions /\ p.startedAt + IdleWindow \in Nat
  BY DEF Pending, Action
<1>2. sessions[u] \in Row
  BY <1>1 DEF TypeOK
<1>3. sessions'[u] = [sessions[u] EXCEPT !.idleExpires = p.startedAt + IdleWindow]
  BY <1>1 DEF SlideIdle, TypeOK
<1>4. sessions'[u] \in Row
  BY <1>1, <1>2, <1>3 DEF Row
<1>5. RowAges(u)
  BY <1>2, <1>3, <1>4 DEF RowAges, Row
<1>6. \A s \in Sessions : s # u => sessions'[s] = sessions[s]
  BY <1>1 DEF SlideIdle, TypeOK
<1>. QED
  BY <1>5, <1>6 DEF RowsAge, RowAges

LEMMA FrameStep ==
  ASSUME TypeOK, PendingInv, [Next]_vars
  PROVE  RowsAge /\ NoncesKept /\ signed \subseteq signed' /\ now <= now'
<1>1. ASSUME NEW s \in Sessions, NEW a \in Accounts, StartCeremony(s, a)
      PROVE  UNCHANGED << sessions, nonces, signed, now >>
  BY <1>1 DEF StartCeremony
<1>2. ASSUME NEW t \in tokens, FinalizeCheck(t)
      PROVE  UNCHANGED << sessions, nonces, signed, now >>
  BY <1>2 DEF FinalizeCheck
<1>3. ASSUME NEW f \in finalizing, NEW crash \in BOOLEAN, FinalizeInsert(f, crash)
      PROVE  RowsAge /\ UNCHANGED << nonces, signed, now >>
  <2>1. f.token.sid \in Sessions /\ sessions[f.token.sid] = NoRow
    BY <1>3 DEF FinalizeInsert, TypeOK, Finalize, Token
  <2>2. \A s \in Sessions : s # f.token.sid => sessions'[s] = sessions[s]
    BY <1>3, <2>1 DEF FinalizeInsert, TypeOK
  <2>. QED
    BY <1>3, <2>1, <2>2 DEF RowsAge, RowAges, FinalizeInsert
<1>4. ASSUME NEW f \in finalizing, FinalizeFail(f)
      PROVE  UNCHANGED << sessions, nonces, signed, now >>
  BY <1>4 DEF FinalizeFail
<1>5. ASSUME NEW s \in Sessions, NEW n \in Nonces, NEW shape \in Shapes,
             NEW ok \in BOOLEAN, Sign(s, n, shape, ok)
      PROVE  RowsAge /\ NoncesKept /\ signed \subseteq signed' /\ now <= now'
  BY <1>5 DEF Sign, RowsAge, RowAges, NoncesKept, TypeOK
<1>6. ASSUME NEW r \in Reqs, NEW x \in signed, NEW s \in Sessions, BeginVerify(r, x, s)
      PROVE  UNCHANGED << sessions, nonces, signed, now >>
  BY <1>6 DEF BeginVerify
<1>7. ASSUME NEW x \in signed, NEW s \in Sessions, Deny(x, s)
      PROVE  UNCHANGED << sessions, nonces, signed, now >>
  BY <1>7 DEF Deny
<1>8. ASSUME NEW r \in Reqs, DenySignature(r) \/ Replay(r)
      PROVE  UNCHANGED << sessions, nonces, signed, now >>
  BY <1>8 DEF DenySignature, Replay
<1>9. ASSUME NEW r \in Reqs, NEW slid \in BOOLEAN,
             Commit(r) \/ CrashInCommit(r, slid)
      PROVE  RowsAge /\ NoncesKept /\ signed \subseteq signed' /\ now <= now'
  <2>1. reqs[r] \in Pending /\ sessions[reqs[r].action.sid] # NoRow
        /\ Consume(reqs[r].action)
    BY <1>9, PendingType DEF Commit, CrashInCommit, PendingInv, PendingOK
  <2>2. SlideIdle(reqs[r]) \/ UNCHANGED sessions
    BY <1>9 DEF Commit, CrashInCommit
  <2>3. RowsAge
    BY <2>1, <2>2, SlideAges DEF RowsAge, RowAges
  <2>4. NoncesKept
    BY <2>1 DEF Consume, NoncesKept, TypeOK, NonceRow
  <2>. QED
    BY <1>9, <2>3, <2>4 DEF Commit, CrashInCommit, TypeOK
<1>10. CASE Crash
  BY <1>10 DEF Crash, RowsAge, RowAges, NoncesKept, TypeOK
<1>11. ASSUME NEW s \in Sessions, Revoke(s)
       PROVE  RowsAge /\ UNCHANGED << nonces, signed, now >>
  <2>1. sessions[s] \in Row /\ sessions'[s] = [sessions[s] EXCEPT !.revokedAt = {now}]
    BY <1>11 DEF Revoke, TypeOK
  <2>2. sessions'[s] \in Row
    BY <2>1 DEF TypeOK, Row
  <2>3. RowAges(s)
    BY <1>11, <2>1, <2>2 DEF RowAges, Row, Revoke
  <2>4. \A u \in Sessions : u # s => sessions'[u] = sessions[u]
    BY <1>11 DEF Revoke, TypeOK
  <2>. QED
    BY <1>11, <2>3, <2>4 DEF Revoke, RowsAge, RowAges
<1>12. ASSUME NEW a \in Accounts, BumpEpoch(a)
       PROVE  UNCHANGED << sessions, nonces, signed, now >>
  BY <1>12 DEF BumpEpoch
<1>13. CASE Tick
  BY <1>13 DEF Tick, RowsAge, RowAges, NoncesKept, TypeOK
<1>14. CASE UNCHANGED vars
  BY <1>14 DEF vars, RowsAge, RowAges, NoncesKept, TypeOK
<1>15. ASSUME UNCHANGED << sessions, nonces, signed, now >>
       PROVE  RowsAge /\ NoncesKept /\ signed \subseteq signed' /\ now <= now'
  BY <1>15 DEF RowsAge, RowAges, NoncesKept, TypeOK
<1>16. ASSUME UNCHANGED << nonces, signed, now >>
       PROVE  NoncesKept /\ signed \subseteq signed' /\ now <= now'
  BY <1>16 DEF NoncesKept, TypeOK
<1>. QED
  BY <1>1, <1>2, <1>3, <1>4, <1>5, <1>6, <1>7, <1>8, <1>9, <1>10, <1>11, <1>12,
     <1>13, <1>14, <1>15, <1>16 DEF Next

-----------------------------------------------------------------------------
(* The parts of the inductive invariant, one lemma each.                    *)

LEMMA SignedStep ==
  ASSUME TypeOK, PendingInv, SignedInv, [Next]_vars
  PROVE  SignedInv'
<1>1. now <= now' /\ now \in Nat /\ now' \in Nat
  BY FrameStep, TypeStep DEF TypeOK
<1>2. CASE signed' = signed
  <2>1. \A x \in signed : x.created \in Nat
    BY DEF TypeOK, Action
  <2>. QED
    BY <1>1, <1>2, <2>1 DEF SignedInv
<1>3. ASSUME NEW s \in Sessions, NEW n \in Nonces, NEW shape \in Shapes,
             NEW ok \in BOOLEAN, Sign(s, n, shape, ok)
      PROVE  SignedInv'
  <2>1. PICK c \in WebClock, w \in 1 .. ActionWindow + 1 :
          signed' = signed \cup
            { [ sid |-> s, account |-> sessions[s].account, nonce |-> n,
                shape |-> shape, authentic |-> ok, created |-> c,
                expires |-> c + w ] }
    BY <1>3 DEF Sign
  <2>2. c <= now + ClockSkew /\ now' = now
    BY <1>3, WebClockBounds DEF Sign
  <2>. QED
    BY <1>3, <2>1, <2>2 DEF SignedInv, Sign
<1>4. \/ signed' = signed
      \/ \E s \in Sessions, n \in Nonces, shape \in Shapes, ok \in BOOLEAN :
           Sign(s, n, shape, ok)
  BY DEF Next, vars, StartCeremony, FinalizeCheck, FinalizeInsert, FinalizeFail,
         BeginVerify, Deny, DenySignature, Replay, Commit, CrashInCommit, Crash,
         Revoke, BumpEpoch, Tick
<1>. QED
  BY <1>2, <1>3, <1>4

\* New rows come from FinalizeInsert, which stamps the epoch its own check read.
LEMMA RowStep ==
  ASSUME TypeOK, PendingInv, RowInv, [Next]_vars
  PROVE  RowInv'
<1>1. ASSUME NEW t \in tokens, FinalizeCheck(t)
      PROVE  RowInv'
  BY <1>1 DEF FinalizeCheck, RowInv
<1>2. ASSUME NEW f \in finalizing, NEW crash \in BOOLEAN, FinalizeInsert(f, crash)
      PROVE  RowInv'
  <2>1. f.token.sid \in Sessions
    BY DEF TypeOK, Finalize, Token
  <2>2. PICK c \in WebClock :
          sessions' = [sessions EXCEPT ![f.token.sid] = MintedRow(f, c)]
    BY <1>2 DEF FinalizeInsert
  <2>3. f.epoch = f.token.epoch /\ finalizing' \subseteq finalizing
    BY <1>2 DEF RowInv, FinalizeInsert
  <2>. QED
    BY <2>1, <2>2, <2>3 DEF RowInv, MintedRow, TypeOK
<1>3. ASSUME finalizing' \subseteq finalizing,
             \A s \in Sessions : sessions[s] = NoRow => sessions'[s] = NoRow
      PROVE  RowInv'
  BY <1>3, FrameStep DEF RowInv, RowsAge, RowAges
<1>4. ASSUME NEW f \in finalizing, FinalizeFail(f)
      PROVE  RowInv'
  BY <1>3, <1>4 DEF FinalizeFail
<1>5. ASSUME NEW r \in Reqs, NEW slid \in BOOLEAN,
             Commit(r) \/ CrashInCommit(r, slid)
      PROVE  RowInv'
  <2>1. reqs[r] \in Pending /\ sessions[reqs[r].action.sid] # NoRow
    BY <1>5, PendingType DEF Commit, CrashInCommit, PendingInv, PendingOK
  <2>2. \A s \in Sessions : sessions[s] = NoRow => sessions'[s] = NoRow
    BY <1>5, <2>1 DEF Commit, CrashInCommit, SlideIdle, TypeOK
  <2>. QED
    BY <1>3, <1>5, <2>2 DEF Commit, CrashInCommit
<1>6. ASSUME NEW s \in Sessions, Revoke(s)
      PROVE  RowInv'
  <2>1. \A u \in Sessions : sessions[u] = NoRow => sessions'[u] = NoRow
    BY <1>6 DEF Revoke, TypeOK
  <2>. QED
    BY <1>3, <1>6, <2>1 DEF Revoke
<1>7. ASSUME UNCHANGED << finalizing, sessions >>
      PROVE  RowInv'
  BY <1>7 DEF RowInv
<1>. QED
  BY <1>1, <1>2, <1>4, <1>5, <1>6, <1>7
  DEF Next, vars, StartCeremony, Sign, BeginVerify, Deny, DenySignature, Replay,
      Crash, BumpEpoch, Tick

\* A verification in flight stays good as long as time has not run away from it.
LEMMA PendingStable ==
  ASSUME TypeOK, TypeOK', RowsAge, signed \subseteq signed', now <= now',
         NEW p \in Pending, PendingOK(p), now' <= p.startedAt + MaxVerify
  PROVE  PendingOK(p)'
<1>1. p.action.sid \in Sessions /\ p.startedAt \in Nat
  BY DEF Pending, Action
<1>2. RowAges(p.action.sid)
  BY <1>1 DEF RowsAge, PendingOK
<1>3. \A t \in sessions'[p.action.sid].revokedAt : p.startedAt <= t
  BY <1>2 DEF RowAges, PendingOK
<1>. QED
  BY <1>1, <1>2, <1>3 DEF PendingOK, RowAges, TypeOK

LEMMA PendingStep ==
  ASSUME TypeOK, RowInv, PendingInv, [Next]_vars
  PROVE  PendingInv'
<1>1. TypeOK' /\ RowsAge /\ signed \subseteq signed' /\ now <= now'
  BY TypeStep, FrameStep
<1>2. ASSUME NEW r \in Reqs, reqs'[r] = reqs[r], reqs[r] # Idle,
             now' <= reqs[r].startedAt + MaxVerify
      PROVE  PendingOK(reqs[r])'
  BY <1>1, <1>2, PendingStable, PendingType DEF PendingInv
<1>3. ASSUME now' = now,
             \A r \in Reqs : reqs'[r] = reqs[r] \/ reqs'[r] = Idle
      PROVE  PendingInv'
  <2>. SUFFICES ASSUME NEW r \in Reqs, reqs'[r] # Idle
                PROVE  PendingOK(reqs[r])'
    BY <1>3 DEF PendingInv
  <2>. QED
    BY <1>2, <1>3 DEF PendingInv, PendingOK
<1>4. ASSUME NEW r \in Reqs, NEW x \in signed, NEW s \in Sessions, BeginVerify(r, x, s)
      PROVE  PendingInv'
  <2> DEFINE p == [action |-> x, startedAt |-> now, startEpoch |-> epoch[x.account]]
  <2>0. /\ reqs' = [reqs EXCEPT ![r] = p]
        /\ UNCHANGED << now, epoch, sessions, signed >>
    BY <1>4 DEF BeginVerify
  <2>1. PICK self \in Services : ChecksPass(x, s, self)
    BY <1>4 DEF BeginVerify
  <2>2. /\ sessions[s] # NoRow /\ sessions[s].revokedAt = {}
        /\ x.sid = s /\ x.account = sessions[s].account
        /\ sessions[s].epoch = epoch[x.account]
    BY <2>1 DEF ChecksPass, SessionUsable
  <2>3. now < x.expires /\ x.expires - x.created \in 1 .. ActionWindow
    BY <2>1 DEF ChecksPass, TimingOK
  <2>4. x.expires \in Nat /\ x.created \in Nat /\ now \in Nat
    BY DEF TypeOK, Action
  <2>5. PendingOK(p)
    BY <2>2, <2>3, <2>4 DEF PendingOK, RowInv
  <2>6. reqs'[r] = p /\ \A q \in Reqs : q # r => reqs'[q] = reqs[q]
    BY <2>0 DEF TypeOK
  <2>7. \A q \in Reqs : reqs'[q] # Idle => PendingOK(reqs'[q])
    BY <2>5, <2>6 DEF PendingInv
  <2>. QED
    BY <2>0, <2>7 DEF PendingInv, PendingOK
<1>5. ASSUME Tick
      PROVE  PendingInv'
  <2>. SUFFICES ASSUME NEW r \in Reqs, reqs'[r] # Idle
                PROVE  PendingOK(reqs[r])'
    BY <1>5 DEF PendingInv, Tick
  <2>1. now' <= reqs[r].startedAt + MaxVerify
    BY <1>5, PendingType, SMTT(30) DEF Tick, TypeOK
  <2>. QED
    BY <1>2, <1>5, <2>1 DEF Tick
<1>6. ASSUME NEW r \in Reqs, NEW slid \in BOOLEAN,
             \/ DenySignature(r) \/ Replay(r) \/ Commit(r) \/ CrashInCommit(r, slid)
      PROVE  PendingInv'
  BY <1>3, <1>6 DEF DenySignature, Replay, Commit, CrashInCommit, TypeOK
<1>7. ASSUME NEW f \in finalizing, NEW crash \in BOOLEAN, FinalizeInsert(f, crash)
      PROVE  PendingInv'
  BY <1>3, <1>7 DEF FinalizeInsert, TypeOK
<1>8. CASE Crash
  BY <1>3, <1>8 DEF Crash, TypeOK
<1>9. ASSUME UNCHANGED << reqs, now >>
      PROVE  PendingInv'
  BY <1>3, <1>9
<1>. QED
  BY <1>4, <1>5, <1>6, <1>7, <1>8, <1>9
  DEF Next, vars, StartCeremony, FinalizeCheck, FinalizeFail, Sign, Deny, Revoke,
      BumpEpoch

\* What an "allowed" entry rests on is never taken away again.
LEMMA EntryStable ==
  ASSUME TypeOK, TypeOK', RowsAge, NoncesKept, signed \subseteq signed', now <= now',
         NEW a \in Accounts, NEW e \in Entry, EntryOK(a, e)
  PROVE  EntryOK(a, e)'
<1>1. /\ now \in Nat /\ now' \in Nat
      /\ e.sid \in Sessions /\ e.ts \in Nat /\ e.startedAt \in Nat
  BY DEF TypeOK, Entry
<1>2. RowAges(e.sid)
  BY <1>1 DEF RowsAge, EntryOK
<1>3. \A t \in sessions'[e.sid].revokedAt : e.startedAt <= t
  BY <1>1, <1>2 DEF RowAges, EntryOK
<1>4. now' <= e.ts + NonceTTL =>
        [account |-> a, nonce |-> e.nonce, at |-> e.ts] \in nonces'
  BY <1>1 DEF EntryOK, NoncesKept
<1>5. \E x \in signed' : /\ x.account = a
                       /\ x.nonce = e.nonce
                       /\ x.created <= e.ts + ClockSkew
  BY DEF EntryOK
<1>. QED
  BY <1>1, <1>2, <1>3, <1>4, <1>5 DEF EntryOK, RowAges

\* The heart of replay protection.  A verification that may commit now cannot
\* belong to an action that was accepted before: either the nonce row is still
\* there, or so much time has passed that the action had expired before the
\* verification could begin.
LEMMA NoSecondAcceptance ==
  ASSUME TypeOK, SignedInv, PendingInv, AuditInv,
         NEW r \in Reqs, reqs[r] # Idle, ~Burned(reqs[r].action),
         NEW i \in Allowed(reqs[r].action.account)
  PROVE  audit[reqs[r].action.account][i].nonce # reqs[r].action.nonce
<1> DEFINE p == reqs[r]
           a == p.action.account
           e == audit[a][i]
<1> SUFFICES ASSUME e.nonce = p.action.nonce
             PROVE  FALSE
  OBVIOUS
<1>1. p \in Pending /\ p.action \in Action /\ p.startedAt \in Nat /\ PendingOK(p)
  BY PendingType DEF PendingInv
<1>2. a \in Accounts /\ i \in 1 .. Len(audit[a])
  BY <1>1 DEF Action, Allowed
<1>3. e \in Entry /\ EntryOK(a, e)
  BY <1>1, <1>2, SMTT(30) DEF AuditInv, TypeOK
<1>4. e.ts \in Nat /\ now \in Nat
  BY <1>3 DEF Entry, TypeOK
<1>5. e.ts + NonceTTL < now
  <2>1. [account |-> a, nonce |-> e.nonce, at |-> e.ts] \notin nonces
    BY DEF Burned
  <2>2. ~(now <= e.ts + NonceTTL)
    BY <1>3, <2>1 DEF EntryOK
  <2>. HIDE DEF e
  <2>. QED
    BY <1>4, <2>2
<1>6. p.action.created <= e.ts + ClockSkew
  BY <1>1, <1>3 DEF EntryOK, PendingOK, SignedInv
<1>7. p.action.created \in Nat /\ p.action.expires \in Nat
  BY <1>1 DEF Action
<1>8. /\ now <= p.startedAt + MaxVerify
      /\ p.startedAt < p.action.expires
      /\ p.action.expires <= p.action.created + ActionWindow
  BY <1>1 DEF PendingOK
<1>. QED
  BY <1>1, <1>4, <1>5, <1>6, <1>7, <1>8

LEMMA AuditUnchanged ==
  ASSUME TypeOK, TypeOK', AuditInv, ReplayFree, RowsAge, NoncesKept,
         signed \subseteq signed', now <= now', audit' = audit
  PROVE  AuditInv' /\ ReplayFree'
<1>1. ASSUME NEW a \in Accounts, NEW i \in Allowed(a)
      PROVE  EntryOK(a, audit[a][i])'
  <2>1. audit[a][i] \in Entry
    BY SMTT(30) DEF TypeOK, Allowed
  <2>2. EntryOK(a, audit[a][i])
    BY DEF AuditInv
  <2>3. EntryOK(a, audit[a][i]) /\ audit'[a][i] = audit[a][i]
    BY <2>2
  <2>. QED
    BY <2>1, <2>3, EntryStable DEF EntryOK
<1>2. \A a \in Accounts : Allowed(a)' = Allowed(a)
  BY DEF Allowed
<1>. QED
  BY <1>1, <1>2 DEF AuditInv, ReplayFree

LEMMA AuditAppend ==
  ASSUME TypeOK, TypeOK', AuditInv, ReplayFree, RowsAge, NoncesKept,
         signed \subseteq signed', now <= now',
         NEW a \in Accounts, NEW e \in Entry,
         audit' = [audit EXCEPT ![a] = Append(@, e)],
         e.decision = "allowed" =>
           /\ EntryOK(a, e)'
           /\ \A i \in Allowed(a) : audit[a][i].nonce # e.nonce
  PROVE  AuditInv' /\ ReplayFree'
<1> DEFINE n == Len(audit[a])
<1>1. audit[a] \in Seq(Entry) /\ n \in Nat
  BY DEF TypeOK
<1>2. /\ audit'[a] = Append(audit[a], e)
      /\ \A b \in Accounts : b # a => audit'[b] = audit[b]
  BY DEF TypeOK
<1>3. /\ Len(audit'[a]) = n + 1
      /\ \A i \in 1 .. n : audit'[a][i] = audit[a][i]
      /\ audit'[a][n + 1] = e
  BY <1>1, <1>2
<1>4. \A i \in Allowed(a)' : i \in Allowed(a) \/ (i = n + 1 /\ e.decision = "allowed")
  BY <1>1, <1>3 DEF Allowed
<1>5. \A b \in Accounts : b # a => Allowed(b)' = Allowed(b)
  BY <1>2 DEF Allowed
<1>6. ASSUME NEW b \in Accounts, NEW i \in Allowed(b)
      PROVE  EntryOK(b, audit[b][i])' /\ audit'[b][i] = audit[b][i]
  <2>1. audit[b] \in Seq(Entry) /\ i \in 1 .. Len(audit[b])
    BY DEF TypeOK, Allowed
  <2>2. PICK d \in Entry : d = audit[b][i]
    BY <2>1
  <2>3. audit'[b][i] = d
    BY <1>2, <1>3, <2>1, <2>2
  <2>4. EntryOK(b, d)
    BY <2>2 DEF AuditInv
  <2>5. EntryOK(b, d)'
    BY <2>4, EntryStable
  <2>. QED
    BY <2>2, <2>3, <2>5
<1>7. AuditInv'
  <2>. SUFFICES ASSUME NEW b \in Accounts, NEW i \in Allowed(b)'
                PROVE  EntryOK(b, audit[b][i])'
    BY DEF AuditInv
  <2>1. CASE i \in Allowed(b)
    BY <1>6, <2>1
  <2>2. CASE i \notin Allowed(b)
    <3>1. b = a /\ i = n + 1 /\ e.decision = "allowed"
      BY <1>4, <1>5, <2>2
    <3>2. audit'[b][i] = e
      BY <1>3, <3>1
    <3>. QED
      BY <3>1, <3>2 DEF EntryOK
  <2>. QED
    BY <2>1, <2>2
<1>8. ReplayFree'
  <2>. SUFFICES ASSUME NEW b \in Accounts, NEW i \in Allowed(b)', NEW j \in Allowed(b)',
                       audit'[b][i].nonce = audit'[b][j].nonce
                PROVE  i = j
    BY DEF ReplayFree
  <2>1. CASE i \in Allowed(b) /\ j \in Allowed(b)
    BY <1>6, <2>1 DEF ReplayFree
  <2>2. CASE b = a /\ i = n + 1 /\ j \in Allowed(a)
    BY <1>3, <1>4, <1>6, <2>2, SMTT(30) DEF Allowed
  <2>3. CASE b = a /\ j = n + 1 /\ i \in Allowed(a)
    BY <1>3, <1>4, <1>6, <2>3 DEF Allowed
  <2>. QED
    BY <1>4, <1>5, <2>1, <2>2, <2>3
<1>. QED
  BY <1>7, <1>8

LEMMA AuditStep ==
  ASSUME TypeOK, SignedInv, RowInv, PendingInv, AuditInv, ReplayFree, [Next]_vars
  PROVE  AuditInv' /\ ReplayFree'
<1>1. /\ TypeOK' /\ RowsAge /\ NoncesKept
      /\ signed \subseteq signed' /\ now <= now'
  BY TypeStep, FrameStep
<1>2. ASSUME NEW r \in Reqs, Commit(r)
      PROVE  AuditInv' /\ ReplayFree'
  <2>1. PICK p \in Pending : p = reqs[r]
    BY <1>2, PendingType DEF Commit
  <2>2. PICK a \in Accounts : a = p.action.account
    BY DEF Pending, Action
  <2>3. /\ p.startedAt \in Nat /\ p.startEpoch \in Nat /\ now \in Nat
        /\ p.action.sid \in Sessions /\ p.action.nonce \in Nonces
        /\ PendingOK(p)
    BY <1>2, <2>1 DEF Commit, PendingInv, TypeOK, Pending, Action
  <2>4. PICK e \in Entry : e = AllowedEntry(p)
    BY <2>3 DEF AllowedEntry, Entry
  <2>5. /\ e.sid = p.action.sid /\ e.nonce = p.action.nonce /\ e.ts = now
        /\ e.startedAt = p.startedAt /\ e.startEpoch = p.startEpoch
    BY <2>4 DEF AllowedEntry
  <2>6. now' = now /\ signed' = signed
        /\ [account |-> a, nonce |-> e.nonce, at |-> e.ts] \in nonces'
    BY <1>2, <2>1, <2>2, <2>5 DEF Commit, Consume
  <2>7. RowAges(e.sid)
    BY <1>1, <2>3, <2>5 DEF RowsAge, PendingOK
  <2>8. \A t \in sessions'[e.sid].revokedAt : e.startedAt <= t
    BY <2>3, <2>5, <2>7 DEF RowAges, PendingOK
  <2>9. p.action.created <= now + ClockSkew /\ p.action \in signed
    BY <2>3 DEF SignedInv, PendingOK
  <2>10. EntryOK(a, e)'
    <3>1. e.startedAt <= e.ts /\ e.ts <= now'
      BY <2>3, <2>5, <2>6 DEF PendingOK
    <3>2. \E x \in signed' : /\ x.account = a
                           /\ x.nonce = e.nonce
                           /\ x.created <= e.ts + ClockSkew
      BY <2>2, <2>5, <2>6, <2>9
    <3>3. sessions'[e.sid] # NoRow /\ sessions'[e.sid].grantEpoch = e.startEpoch
      BY <2>3, <2>5, <2>7 DEF RowAges, PendingOK
    <3>. QED
      BY <2>6, <2>8, <3>1, <3>2, <3>3 DEF EntryOK
  <2>11. \A i \in Allowed(a) : audit[a][i].nonce # e.nonce
    BY <1>2, <2>1, <2>2, <2>5, NoSecondAcceptance DEF Commit
  <2>12. audit' = [audit EXCEPT ![a] = Append(@, e)]
    BY <1>2, <2>1, <2>2, <2>4 DEF Commit
  <2>. QED
    BY <1>1, <2>10, <2>11, <2>12, AuditAppend
<1>3. ASSUME NEW f \in finalizing, NEW crash \in BOOLEAN, FinalizeInsert(f, crash)
      PROVE  AuditInv' /\ ReplayFree'
  <2> DEFINE a == f.token.account
             e == MintEntry(f.token.sid, a)
  <2>1. a \in Accounts /\ f.token.sid \in Sessions
    BY DEF TypeOK, Finalize, Token
  <2>2. e \in Entry /\ e.decision = "grant_minted"
    BY <2>1 DEF MintEntry, Entry, TypeOK
  <2>3. audit' = audit \/ audit' = [audit EXCEPT ![a] = Append(@, e)]
    BY <1>3 DEF FinalizeInsert
  <2>. HIDE DEF e, a
  <2>. QED
    BY <1>1, <2>1, <2>2, <2>3, AuditUnchanged, AuditAppend
<1>4. ASSUME UNCHANGED audit
      PROVE  AuditInv' /\ ReplayFree'
  BY <1>1, <1>4, AuditUnchanged
<1>. QED
  BY <1>2, <1>3, <1>4
  DEF Next, vars, StartCeremony, FinalizeCheck, FinalizeFail, Sign, BeginVerify,
      Deny, DenySignature, Replay, CrashInCommit, Crash, Revoke, BumpEpoch, Tick

-----------------------------------------------------------------------------
(* The theorems.                                                            *)

\* The inductive invariant holds of every reachable state.
THEOREM InvariantHolds == Spec => []IInv
<1>1. Init => IInv
  BY DEF Init, IInv, TypeOK, SignedInv, RowInv, PendingInv, AuditInv, ReplayFree,
         Allowed, Answer
<1>2. IInv /\ [Next]_vars => IInv'
  BY TypeStep, SignedStep, RowStep, PendingStep, AuditStep DEF IInv
<1>. QED
  BY <1>1, <1>2, PTL DEF Spec

\* Type correctness of sessions, nonces, audit log and suspended handlers.
THEOREM TypeCorrect == Spec => []TypeOK
  BY InvariantHolds, PTL DEF IInv

\* An action nonce is accepted at most once, whatever the network, the clocks
\* within their skew, the nonce collection and the crashes do.
THEOREM ActionsNotReplayed == Spec => []ReplayFree
  BY InvariantHolds, PTL DEF IInv

\* No grant signed before the panic button was pressed authorises a verification
\* that begins afterwards.
THEOREM PanicHolds == Spec => []PanicSticks
<1>1. AuditInv => PanicSticks
  BY DEF AuditInv, EntryOK, PanicSticks
<1>2. IInv => PanicSticks
  BY <1>1 DEF IInv
<1>. QED
  BY <1>2, InvariantHolds, PTL

\* No verification that begins after its session's revocation is accepted.
THEOREM RevocationEffective == Spec => []RevocationHolds
<1>1. IInv => RevocationHolds
  BY DEF IInv, AuditInv, EntryOK, RevocationHolds
<1>. QED
  BY <1>1, InvariantHolds, PTL

\* Every accepted action's nonce stays burned for its retention time.
THEOREM NoncesBackAudit == Spec => []AuditBacked
<1>1. IInv => AuditBacked
  BY DEF IInv, AuditInv, EntryOK, AuditBacked
<1>. QED
  BY <1>1, InvariantHolds, PTL

\* A session row is never rewritten, extended or un-revoked.
THEOREM SessionsOnlyAge == Spec => RowsOnlyAge
<1>1. IInv /\ [Next]_vars =>
        [\A s \in Sessions : sessions[s] # NoRow =>
           /\ sessions'[s] # NoRow
           /\ sessions'[s].expires = sessions[s].expires
           /\ sessions'[s].epoch = sessions[s].epoch
           /\ sessions[s].revokedAt \subseteq sessions'[s].revokedAt]_vars
  BY FrameStep DEF IInv, RowsAge, RowAges
<1>. QED
  BY <1>1, InvariantHolds, PTL DEF Spec, RowsOnlyAge

-----------------------------------------------------------------------------
(* What a caller was told is in the log.                                    *)

Audited(x) == \E i \in Allowed(x.account) : audit[x.account][i].nonce = x.nonce

\* The last answer "allowed" went to an action of the audit log.
AnswerInv ==
  answer[2] = "allowed" =>
    \E x \in signed : answer = << x.nonce, "allowed" >> /\ Audited(x)

\* A longer log still holds the entries it held, and the new one.
LEMMA AppendKeepsAllowed ==
  ASSUME TypeOK, NEW a \in Accounts, NEW e \in Entry,
         audit' = [audit EXCEPT ![a] = Append(@, e)]
  PROVE  /\ \A x \in signed : Audited(x) => Audited(x)'
         /\ e.decision = "allowed" =>
              \E i \in Allowed(a)' : audit'[a][i].nonce = e.nonce
<1> DEFINE n == Len(audit[a])
<1>1. audit[a] \in Seq(Entry) /\ n \in Nat
  BY DEF TypeOK
<1>2. /\ audit'[a] = Append(audit[a], e)
      /\ \A b \in Accounts : b # a => audit'[b] = audit[b]
  BY DEF TypeOK
<1>3. /\ Len(audit'[a]) = n + 1
      /\ \A i \in 1 .. n : audit'[a][i] = audit[a][i]
      /\ audit'[a][n + 1] = e
  BY <1>1, <1>2
<1>4. ASSUME NEW x \in signed, Audited(x) PROVE Audited(x)'
  <2>1. x.account \in Accounts
    BY DEF TypeOK, Action
  <2>2. PICK i \in Allowed(x.account) : audit[x.account][i].nonce = x.nonce
    BY <1>4 DEF Audited
  <2>3. i \in Allowed(x.account)' /\ audit'[x.account][i] = audit[x.account][i]
    <3>1. CASE x.account = a
      BY <1>1, <1>3, <2>2, <3>1, SMTT(30) DEF Allowed
    <3>2. CASE x.account # a
      BY <1>2, <2>1, <2>2, <3>2 DEF Allowed
    <3>. QED
      BY <3>1, <3>2
  <2>. QED
    BY <2>2, <2>3 DEF Audited
<1>5. e.decision = "allowed" => n + 1 \in Allowed(a)'
  BY <1>1, <1>3 DEF Allowed
<1>. QED
  BY <1>3, <1>4, <1>5

\* No step answers "allowed" without an entry for the action.
LEMMA AnswerStep ==
  ASSUME IInv, AnswerInv, [Next]_vars
  PROVE  AnswerInv'
<1>. USE DEF IInv
<1>1. signed \subseteq signed'
  BY FrameStep
<1>2. ASSUME answer' = answer, \A x \in signed : Audited(x) => Audited(x)'
      PROVE  AnswerInv'
  BY <1>1, <1>2 DEF AnswerInv
<1>3. ASSUME audit' = audit, answer' = answer PROVE AnswerInv'
  BY <1>2, <1>3 DEF Audited, Allowed
<1>4. ASSUME NEW f \in finalizing, NEW crash \in BOOLEAN, FinalizeInsert(f, crash)
      PROVE  AnswerInv'
  <2>1. f.token.sid \in Sessions /\ f.token.account \in Accounts
        /\ epoch[f.token.account] \in Nat /\ now \in Nat
    BY DEF TypeOK, Finalize, Token
  <2>2. PICK e \in Entry : e = MintEntry(f.token.sid, f.token.account)
    BY <2>1 DEF MintEntry, Entry
  <2>3. answer' = answer
    BY <1>4 DEF FinalizeInsert
  <2>4. \/ audit' = audit
        \/ audit' = [audit EXCEPT ![f.token.account] = Append(@, e)]
    BY <1>4, <2>2 DEF FinalizeInsert
  <2>. QED
    BY <1>2, <1>3, <2>1, <2>3, <2>4, AppendKeepsAllowed
<1>5. ASSUME NEW r \in Reqs, Commit(r) PROVE AnswerInv'
  <2>1. PICK p \in Pending : p = reqs[r]
    BY <1>5, PendingType DEF Commit
  <2>2. PICK a \in Accounts : a = p.action.account
    BY DEF Pending, Action
  <2>3. PICK e \in Entry : e = AllowedEntry(p)
    BY DEF AllowedEntry, Entry, Pending, Action, TypeOK
  <2>4. e.nonce = p.action.nonce /\ e.decision = "allowed"
    BY <2>3 DEF AllowedEntry
  <2>5. PICK x \in signed : x = p.action
    BY <1>5, <2>1 DEF Commit, PendingInv, PendingOK
  <2>6. audit' = [audit EXCEPT ![a] = Append(@, e)] /\ answer' = << x.nonce, "allowed" >>
    BY <1>5, <2>1, <2>2, <2>3, <2>5 DEF Commit
  <2>7. Audited(x)'
    <3>1. \E i \in Allowed(a)' : audit'[a][i].nonce = e.nonce
      BY <2>4, <2>6, AppendKeepsAllowed
    <3>2. x.account = a /\ x.nonce = e.nonce
      BY <2>2, <2>4, <2>5
    <3>. QED
      BY <3>1, <3>2 DEF Audited
  <2>. QED
    BY <1>1, <2>6, <2>7 DEF AnswerInv
<1>6. ASSUME answer'[2] \in {"denied", "error"} PROVE AnswerInv'
  BY <1>6 DEF AnswerInv
<1>7. ASSUME NEW x \in signed, NEW s \in Sessions, Deny(x, s) PROVE AnswerInv'
  BY <1>6, <1>7 DEF Deny
<1>8. ASSUME NEW r \in Reqs, DenySignature(r) \/ Replay(r) PROVE AnswerInv'
  BY <1>6, <1>8 DEF DenySignature, Replay
<1>9. CASE UNCHANGED << audit, answer >>
  BY <1>3, <1>9
<1>. HIDE DEF IInv
<1>. QED
  BY <1>4, <1>5, <1>7, <1>8, <1>9
  DEF Next, vars, StartCeremony, FinalizeCheck, FinalizeFail, Sign, BeginVerify,
      CrashInCommit, Crash, Revoke, BumpEpoch, Tick

\* A caller that was told "allowed" finds the decision in the audit log, across
\* crashes between the statements of the verifier.
THEOREM AllowedAreAudited == Spec => []AllowedIsAudited
<1>1. Init => AnswerInv
  BY DEF Init, AnswerInv
<1>2. IInv /\ AnswerInv /\ [Next]_vars => AnswerInv'
  BY AnswerStep
<1>3. ASSUME IInv, AnswerInv PROVE AllowedIsAudited
  <2>. SUFFICES ASSUME NEW x \in signed, answer = << x.nonce, "allowed" >>
                PROVE  Audited(x)
    BY DEF AllowedIsAudited, Audited
  <2>1. PICK y \in signed : answer = << y.nonce, "allowed" >> /\ Audited(y)
    BY <1>3 DEF AnswerInv
  <2>2. x = y
    BY <1>3, <2>1 DEF IInv, SignedInv
  <2>. QED
    BY <2>1, <2>2
<1>. QED
  BY <1>1, <1>2, <1>3, InvariantHolds, PTL DEF Spec

-----------------------------------------------------------------------------
(* The idle deadline.                                                       *)

\* No idle deadline is further away than the window and the clocks' difference.
IdleInv ==
  \A s \in Sessions : sessions[s] # NoRow =>
    sessions[s].idleExpires <= now + IdleWindow + ClockSkew

IdleAges ==
  \A s \in Sessions : sessions[s] # NoRow =>
    sessions[s].idleExpires <= sessions'[s].idleExpires + MaxVerify + ClockSkew

\* Sliding moves a deadline back by no more than a verification and the skew.
LEMMA SlideIdles ==
  ASSUME IInv, IdleInv, NEW r \in Reqs, reqs[r] # Idle, SlideIdle(reqs[r])
  PROVE  /\ IdleAges
         /\ \A s \in Sessions : sessions'[s] # NoRow =>
              sessions'[s].idleExpires <= now + IdleWindow + ClockSkew
<1>1. PICK p \in Pending : p = reqs[r]
  BY PendingType DEF IInv
<1>2. /\ p.startedAt \in Nat /\ now \in Nat /\ p.startedAt <= now
      /\ now <= p.startedAt + MaxVerify
      /\ p.action.sid \in Sessions /\ sessions[p.action.sid] # NoRow
  BY <1>1 DEF IInv, TypeOK, PendingInv, PendingOK, Pending, Action
<1>3. PICK u \in Sessions : u = p.action.sid
  BY <1>2
<1>4. sessions[u] \in Row /\ sessions[u].idleExpires \in Nat
  BY <1>2, <1>3 DEF IInv, TypeOK, Row
<1>5. sessions'[u] = [sessions[u] EXCEPT !.idleExpires = p.startedAt + IdleWindow]
      /\ \A s \in Sessions : s # u => sessions'[s] = sessions[s]
  BY <1>1, <1>3 DEF SlideIdle, IInv, TypeOK
<1>6. sessions'[u].idleExpires = p.startedAt + IdleWindow
  BY <1>4, <1>5 DEF Row
<1>7. \A s \in Sessions : sessions[s] # NoRow => sessions[s].idleExpires \in Nat
  BY DEF IInv, TypeOK, Row
<1>8. MaxVerify \in Nat /\ ClockSkew \in Nat /\ IdleWindow \in Nat
  OBVIOUS
<1>9. sessions[u].idleExpires <= sessions'[u].idleExpires + MaxVerify + ClockSkew
  <2>1. sessions[u].idleExpires <= now + IdleWindow + ClockSkew
    BY <1>2, <1>3 DEF IdleInv
  <2>. QED
    BY <1>2, <1>4, <1>6, <1>8, <2>1
<1>10. IdleAges
  <2>. SUFFICES ASSUME NEW s \in Sessions, sessions[s] # NoRow, s # u
                PROVE  sessions[s].idleExpires
                         <= sessions'[s].idleExpires + MaxVerify + ClockSkew
    BY <1>9 DEF IdleAges
  <2>. QED
    BY <1>5, <1>7, <1>8
<1>11. sessions'[u].idleExpires <= now + IdleWindow + ClockSkew
  BY <1>2, <1>6, <1>8
<1>12. \A s \in Sessions : sessions'[s] # NoRow =>
         sessions'[s].idleExpires <= now + IdleWindow + ClockSkew
  BY <1>5, <1>11 DEF IdleInv
<1>. QED
  BY <1>10, <1>12

\* Every step keeps the deadlines within reach of now, and of each other.
LEMMA IdleStep ==
  ASSUME IInv, IdleInv, [Next]_vars
  PROVE  IdleInv' /\ IdleAges
<1>1. /\ now \in Nat /\ now' \in Nat /\ now <= now'
      /\ \A s \in Sessions : sessions[s] # NoRow => sessions[s].idleExpires \in Nat
      /\ \A s \in Sessions : sessions'[s] # NoRow => sessions'[s].idleExpires \in Nat
  BY TypeStep, FrameStep DEF IInv, TypeOK, Row
<1>2. ASSUME NEW f \in finalizing, NEW crash \in BOOLEAN, FinalizeInsert(f, crash)
      PROVE  IdleInv' /\ IdleAges
  <2>1. PICK u \in Sessions : u = f.token.sid
    BY DEF IInv, TypeOK, Finalize, Token
  <2>2. PICK clock \in WebClock : sessions' = [sessions EXCEPT ![u] = MintedRow(f, clock)]
    BY <1>2, <2>1 DEF FinalizeInsert
  <2>3. clock \in Nat /\ clock <= now + ClockSkew
    BY WebClockBounds DEF IInv
  <2>4. /\ sessions[u] = NoRow /\ now' = now
        /\ sessions'[u].idleExpires = clock + IdleWindow
        /\ \A s \in Sessions : s # u => sessions'[s] = sessions[s]
    BY <1>2, <2>1, <2>2 DEF FinalizeInsert, IInv, TypeOK, MintedRow
  <2>. QED
    BY <1>1, <2>3, <2>4 DEF IdleInv, IdleAges
<1>3. ASSUME NEW r \in Reqs, NEW slid \in BOOLEAN, Commit(r) \/ CrashInCommit(r, slid)
      PROVE  IdleInv' /\ IdleAges
  <2>1. now' = now /\ reqs[r] # Idle /\ (SlideIdle(reqs[r]) \/ sessions' = sessions)
    BY <1>3 DEF Commit, CrashInCommit
  <2>. QED
    BY <1>1, <2>1, SlideIdles DEF IdleInv, IdleAges
<1>4. ASSUME NEW s \in Sessions, Revoke(s) PROVE IdleInv' /\ IdleAges
  <2>1. sessions[s] \in Row /\ sessions'[s] = [sessions[s] EXCEPT !.revokedAt = {now}]
        /\ \A u \in Sessions : u # s => sessions'[u] = sessions[u]
    BY <1>4 DEF Revoke, IInv, TypeOK
  <2>2. sessions'[s].idleExpires = sessions[s].idleExpires /\ now' = now
    BY <1>4, <2>1 DEF Row, Revoke
  <2>. QED
    BY <1>1, <1>4, <2>1, <2>2 DEF IdleInv, IdleAges, Revoke
<1>5. CASE sessions' = sessions
  BY <1>1, <1>5 DEF IdleInv, IdleAges
<1>. QED
  BY <1>2, <1>3, <1>4, <1>5
  DEF Next, vars, StartCeremony, FinalizeCheck, FinalizeFail, Sign, BeginVerify,
      Deny, DenySignature, Replay, Crash, BumpEpoch, Tick

\* Verifications that finish out of order, and the two clocks, move the idle
\* deadline back by no more than their slack.
THEOREM IdleDeadlineHolds == Spec => IdleNeverCollapses
<1>1. Init => IdleInv
  BY DEF Init, IdleInv
<1>2. IInv /\ IdleInv /\ [Next]_vars => IdleInv' /\ IdleAges
  BY IdleStep
<1>3. IInv /\ IdleInv /\ [Next]_vars =>
        [ \A s \in Sessions : sessions[s] # NoRow =>
            sessions[s].idleExpires
              <= sessions'[s].idleExpires + MaxVerify + ClockSkew ]_vars
  BY <1>2 DEF IdleAges
<1>. QED
  BY <1>1, <1>2, <1>3, InvariantHolds, PTL DEF Spec, IdleNeverCollapses
-----------------------------------------------------------------------------
(* The implementation of OneUseActions.                                     *)

\* A ceremony never carries a generation the account has not reached.
FinalizeInv == \A f \in finalizing : f.token.epoch <= epoch[f.token.account]

LEMMA FinalizeStep ==
  ASSUME TypeOK, FinalizeInv, [Next]_vars
  PROVE  FinalizeInv'
<1>1. \A f \in finalizing : f.token.account \in Accounts /\ f.token.epoch \in Nat
  BY DEF TypeOK, Finalize, Token
<1>2. ASSUME NEW t \in tokens, FinalizeCheck(t)
      PROVE  FinalizeInv'
  <2>1. /\ t.epoch = epoch[t.account] /\ epoch' = epoch
        /\ finalizing' = finalizing \cup { [token |-> t, epoch |-> epoch[t.account]] }
    BY <1>2 DEF FinalizeCheck
  <2>2. t.account \in Accounts /\ epoch[t.account] \in Nat
    BY DEF TypeOK, Token
  <2>. QED
    BY <2>1, <2>2 DEF FinalizeInv
<1>3. ASSUME NEW a \in Accounts, BumpEpoch(a)
      PROVE  FinalizeInv'
  <2>1. \A b \in Accounts : epoch[b] \in Nat /\ epoch'[b] \in Nat /\ epoch[b] <= epoch'[b]
    BY <1>3, SMTT(30) DEF BumpEpoch, TypeOK
  <2>. QED
    BY <1>1, <1>3, <2>1 DEF FinalizeInv, BumpEpoch
<1>4. ASSUME epoch' = epoch, finalizing' \subseteq finalizing
      PROVE  FinalizeInv'
  BY <1>4 DEF FinalizeInv
<1>. QED
  BY <1>2, <1>3, <1>4
  DEF Next, vars, StartCeremony, FinalizeInsert, FinalizeFail, Sign, BeginVerify,
      Deny, DenySignature, Replay, Commit, CrashInCommit, Crash, Revoke, Tick

\* Moving an idle deadline changes neither who gave a session its grant nor
\* whether it is revoked.
LEMMA SlideGrants ==
  ASSUME TypeOK, NEW p \in Pending, SlideIdle(p), sessions[p.action.sid] # NoRow
  PROVE  Grants' = Grants /\ Closed' = Closed
<1>1. PICK u \in Sessions : u = p.action.sid
  BY DEF Pending, Action
<1>2. sessions[u] \in Row /\ p.startedAt + IdleWindow \in Nat
  BY <1>1, SMTT(30) DEF TypeOK, Pending
<1>3. /\ sessions'[u] = [sessions[u] EXCEPT !.idleExpires = p.startedAt + IdleWindow]
      /\ \A s \in Sessions : s # u => sessions'[s] = sessions[s]
  BY <1>1 DEF SlideIdle, TypeOK
<1>4. /\ sessions'[u] \in Row
      /\ sessions'[u].account = sessions[u].account
      /\ sessions'[u].grantEpoch = sessions[u].grantEpoch
      /\ sessions'[u].revokedAt = sessions[u].revokedAt
  BY <1>2, <1>3 DEF Row
<1>5. sessions'[u] # NoRow /\ sessions[u] # NoRow
  BY <1>1, <1>4
<1>6. \A s \in Sessions :
        /\ sessions'[s] = NoRow <=> sessions[s] = NoRow
        /\ sessions[s] # NoRow =>
             /\ sessions'[s].account = sessions[s].account
             /\ sessions'[s].grantEpoch = sessions[s].grantEpoch
             /\ sessions'[s].revokedAt = sessions[s].revokedAt
  BY <1>3, <1>4, <1>5
<1>. QED
  BY <1>6 DEF Grants, Closed

\* An entry of the audit log that does not say "allowed" changes nothing, and one
\* that does is a receipt of its use and of no other.
LEMMA AppendReceipts ==
  ASSUME TypeOK, NEW a \in Accounts, NEW e \in Entry,
         audit' = [audit EXCEPT ![a] = Append(@, e)]
  PROVE  \A u \in Uses :
           Receipts(u)' = IF e.decision = "allowed" /\ UseOf(a, e) = u
                          THEN Receipts(u) \cup {Len(audit[a]) + 1} ELSE Receipts(u)
<1>. DEFINE n == Len(audit[a])
<1>1. audit[a] \in Seq(Entry) /\ n \in Nat
  BY DEF TypeOK
<1>2. /\ audit'[a] = Append(audit[a], e)
      /\ \A b \in Accounts : b # a => audit'[b] = audit[b]
  BY DEF TypeOK
<1>3. /\ Len(audit'[a]) = n + 1
      /\ \A i \in 1 .. n : audit'[a][i] = audit[a][i]
      /\ audit'[a][n + 1] = e
  BY <1>1, <1>2
<1>4. Allowed(a)' = Allowed(a) \cup (IF e.decision = "allowed" THEN {n + 1} ELSE {})
  BY <1>1, <1>3, SMTT(30) DEF Allowed
<1>5. /\ Allowed(a) \subseteq 1 .. n
      /\ \A i \in Allowed(a) : audit'[a][i] = audit[a][i]
  BY <1>3 DEF Allowed
<1>. TAKE u \in Uses
<1>. DEFINE log == audit[u.account]
<1>6. u.account \in Accounts
  BY DEF Uses
<1>7. Receipts(u)' = { i \in Allowed(u.account)' : UseOf(u.account, log'[i]) = u }
  BY DEF Receipts, UseOf
<1>8. CASE u.account # a
  <2>1. UseOf(a, e) # u
    BY <1>8 DEF UseOf
  <2>2. log' = log /\ Allowed(u.account)' = Allowed(u.account)
    BY <1>2, <1>6, <1>8 DEF Allowed
  <2>. QED
    BY <1>7, <2>1, <2>2 DEF Receipts
<1>9. CASE u.account = a
  <2>1. ASSUME NEW i
        PROVE  i \in Receipts(u)' <=>
                 \/ i \in Receipts(u)
                 \/ e.decision = "allowed" /\ UseOf(a, e) = u /\ i = n + 1
    <3>1. CASE i \in Allowed(a)
      <4>1. i # n + 1
        BY <1>1, <1>5, <3>1
      <4>2. i \in Allowed(a)' /\ log'[i] = log[i]
        BY <1>4, <1>5, <1>9, <3>1
      <4>. QED
        BY <1>7, <1>9, <3>1, <4>1, <4>2 DEF Receipts
    <3>2. CASE i \notin Allowed(a)
      <4>1. i \in Allowed(a)' <=> e.decision = "allowed" /\ i = n + 1
        BY <1>4, <3>2
      <4>. QED
        BY <1>3, <1>7, <1>9, <3>2, <4>1 DEF Receipts
    <3>. QED
      BY <3>1, <3>2
  <2>. QED
    BY <2>1
<1>. QED
  BY <1>8, <1>9

\* An entry that does not say "allowed" is no receipt.
LEMMA OtherEntries ==
  ASSUME TypeOK, NEW a \in Accounts, NEW e \in Entry, e.decision # "allowed",
         audit' = [audit EXCEPT ![a] = Append(@, e)]
  PROVE  Accepted' = Accepted
<1>1. \A u \in Uses : Receipts(u)' = Receipts(u)
  BY AppendReceipts
<1>. QED
  BY <1>1 DEF Accepted

\* Only the audit log says what was accepted.
LEMMA AcceptedFrame == ASSUME audit' = audit PROVE Accepted' = Accepted
<1>1. \A u \in Uses : Receipts(u)' = Receipts(u)
  BY DEF Receipts, Allowed, UseOf
<1>. QED
  BY <1>1 DEF Accepted

\* What the mapping makes of the state.
actionVars == << epoch, Grants, Closed, Admitted, Accepted >>

\* finalize: the session gets its one grant, of a generation the account had.
LEMMA MintGives ==
  ASSUME TypeOK, FinalizeInv, NEW f \in finalizing, NEW crash \in BOOLEAN,
         FinalizeInsert(f, crash)
  PROVE  \E s \in Sessions, a \in Accounts : Actions!Give(s, a)
<1>1. PICK s \in Sessions : s = f.token.sid
  BY DEF TypeOK, Finalize, Token
<1>2. PICK a \in Accounts : a = f.token.account
  BY DEF TypeOK, Finalize, Token
<1>3. f.token.epoch \in 0 .. epoch[a] /\ epoch[a] \in Nat
  BY <1>2, SMTT(30) DEF TypeOK, Finalize, Token, FinalizeInv
<1>4. PICK clock \in WebClock : sessions' = [sessions EXCEPT ![s] = MintedRow(f, clock)]
  BY <1>1 DEF FinalizeInsert
<1>5. /\ sessions[s] = NoRow
      /\ sessions'[s] = MintedRow(f, clock)
      /\ \A t \in Sessions : t # s => sessions'[t] = sessions[t]
  BY <1>1, <1>4 DEF FinalizeInsert, TypeOK
<1>6. /\ sessions'[s].account = a /\ sessions'[s].grantEpoch = f.token.epoch
      /\ sessions'[s].revokedAt = {}
  BY <1>2, <1>5 DEF MintedRow
<1>7. sessions'[s] # NoRow
  <2>1. /\ f.token.account \in Accounts
        /\ f.token.epoch \in Nat /\ f.token.issuedAt \in Nat /\ f.epoch \in Nat
    BY DEF TypeOK, Finalize, Token
  <2>2. MintedRow(f, clock) \in Row
    BY <2>1, WebClockBounds DEF MintedRow, Row
  <2>. QED
    BY <1>5, <2>2
<1>8. Grants[s] = {} /\ Closed' = Closed
  BY <1>5, <1>6 DEF Grants, Closed
<1>9. Grants' = [Grants EXCEPT ![s] = { [account |-> a, generation |-> f.token.epoch] }]
  BY <1>5, <1>6, <1>7 DEF Grants
<1>10. Admitted' \in { Admitted, Actions!Dropped(Reqs) }
  <2>1. CASE crash
    BY <2>1 DEF FinalizeInsert, Admitted, Actions!Dropped
  <2>2. CASE ~crash
    BY <2>2 DEF FinalizeInsert, Admitted
  <2>. QED
    BY <2>1, <2>2
<1>11. Accepted' = Accepted
  <2>1. PICK e \in Entry : e = MintEntry(s, a)
    BY <1>1, <1>2, <1>3 DEF MintEntry, Entry, TypeOK
  <2>2. e.decision # "allowed"
    BY <2>1 DEF MintEntry
  <2>3. audit' = audit \/ audit' = [audit EXCEPT ![a] = Append(@, e)]
    BY <1>1, <1>2, <2>1 DEF FinalizeInsert
  <2>. QED
    BY <2>1, <2>2, <2>3, OtherEntries, AcceptedFrame
<1>12. epoch' = epoch
  BY DEF FinalizeInsert
<1>. QED
  BY <1>3, <1>8, <1>9, <1>10, <1>11, <1>12 DEF Actions!Give

\* The checks before the await admit a use.
LEMMA BeginAdmits ==
  ASSUME IInv, NEW r \in Reqs, NEW x \in signed, NEW s \in Sessions,
         BeginVerify(r, x, s)
  PROVE  \E use \in Actions!Use : Actions!Admit(r, use)
<1>. DEFINE use == UseOf(x.account, x)
<1>0. PICK self \in Services : ChecksPass(x, s, self)
  BY DEF BeginVerify
<1>1. x \in Action /\ use \in Actions!Use
  BY DEF IInv, TypeOK, Action, UseOf, Actions!Use
<1>2. /\ x.sid = s /\ x.account = sessions[s].account /\ sessions[s] # NoRow
      /\ sessions[s].revokedAt = {} /\ sessions[s].epoch = epoch[sessions[s].account]
  BY <1>0 DEF ChecksPass, SessionUsable
<1>3. sessions[s].grantEpoch = epoch[x.account]
  BY <1>2 DEF IInv, RowInv
<1>4. use.sid = s /\ use.account = x.account
  BY <1>2 DEF UseOf
<1>5. /\ s \notin Closed
      /\ Grants[s] = { [account |-> x.account, generation |-> epoch[x.account]] }
  BY <1>2, <1>3 DEF Closed, Grants
<1>6. Admitted[r] = {} /\ Admitted' = [Admitted EXCEPT ![r] = {use}]
  <2>1. PICK p \in Pending :
          p = [action |-> x, startedAt |-> now, startEpoch |-> epoch[x.account]]
    BY <1>1 DEF IInv, TypeOK, Pending, Action
  <2>2. reqs[r] = Idle /\ reqs' = [reqs EXCEPT ![r] = p] /\ p.action = x
    BY <2>1 DEF BeginVerify
  <2>3. p # Idle
    OBVIOUS
  <2>. QED
    BY <2>2, <2>3 DEF Admitted, IInv, TypeOK
<1>7. epoch' = epoch /\ Grants' = Grants /\ Closed' = Closed /\ Accepted' = Accepted
  BY AcceptedFrame DEF BeginVerify, Grants, Closed
<1>. HIDE DEF use
<1>. QED
  BY <1>1, <1>4, <1>5, <1>6, <1>7 DEF Actions!Admit

\* What the verifier does after the await ends the verification, and accepts the
\* use unless a nonce row, a crash or the signature stops it.
LEMMA CommitAccepts ==
  ASSUME IInv, NEW r \in Reqs, Commit(r)
  PROVE  Actions!Accept(r)
<1>1. PICK p \in Pending : p = reqs[r]
  BY PendingType DEF Commit, IInv
<1>2. PICK a \in Accounts : a = p.action.account
  BY DEF Pending, Action
<1>3. PICK e \in Entry : e = AllowedEntry(p)
  BY DEF AllowedEntry, Entry, Pending, Action, IInv, TypeOK
<1>4. /\ e.decision = "allowed" /\ e.sid = p.action.sid /\ e.nonce = p.action.nonce
      /\ sessions[p.action.sid] # NoRow
  BY <1>1, <1>3 DEF AllowedEntry, Commit, IInv, PendingInv, PendingOK
<1>5. PICK use : use = UseOf(a, e)
  OBVIOUS
<1>6. use.account = a /\ use.nonce = e.nonce /\ Admitted[r] = {use}
  BY <1>1, <1>2, <1>4, <1>5 DEF Commit, Admitted, UseOf
<1>7. audit' = [audit EXCEPT ![a] = Append(@, e)]
  BY <1>1, <1>2, <1>3 DEF Commit
<1>8. Admitted' = Actions!Dropped({r})
  BY DEF Commit, Admitted, Actions!Dropped, IInv, TypeOK
<1>9. epoch' = epoch /\ Grants' = Grants /\ Closed' = Closed
  BY <1>1, <1>4, SlideGrants DEF Commit, IInv
<1>10. use \in Uses
  BY <1>1, <1>4, <1>5 DEF Uses, UseOf, Pending, Action
<1>11. ASSUME NEW u \in Uses, u.account = a, u.nonce = use.nonce
       PROVE  Receipts(u) = {}
  <2>. SUFFICES ASSUME NEW i \in Allowed(a), UseOf(a, audit[a][i]) = u
                PROVE  FALSE
    BY <1>11 DEF Receipts
  <2>1. audit[a][i].nonce = use.nonce
    BY <1>11 DEF UseOf
  <2>2. audit[a][i].nonce # p.action.nonce
    BY <1>1, <1>2, NoSecondAcceptance DEF IInv, Commit
  <2>. QED
    BY <1>4, <1>6, <2>1, <2>2
<1>12. \A u \in Uses : u.account = a /\ u.nonce = use.nonce => Accepted[u] = 0
  BY <1>11, FS_EmptySet DEF Accepted
<1>13. Accepted' = [Accepted EXCEPT ![use] = @ + 1]
  <2>1. ASSUME NEW u \in Uses, u # use
        PROVE  Accepted'[u] = Accepted[u]
    <3>1. Receipts(u)' = Receipts(u)
      BY <1>5, <1>7, <2>1, AppendReceipts DEF IInv
    <3>. QED
      BY <3>1 DEF Accepted
  <2>2. Accepted'[use] = Accepted[use] + 1
    <3>1. Receipts(use) = {}
      BY <1>6, <1>10, <1>11
    <3>2. Receipts(use)' = {Len(audit[a]) + 1}
      BY <1>4, <1>5, <1>7, <1>10, <3>1, AppendReceipts DEF IInv
    <3>3. Cardinality({}) = 0 /\ Cardinality(Receipts(use)') = 1
      BY <3>2, FS_EmptySet, FS_Singleton
    <3>. QED
      BY <1>10, <3>1, <3>3 DEF Accepted
  <2>3. /\ Accepted = [u \in Uses |-> Accepted[u]]
        /\ Accepted' = [u \in Uses |-> Accepted'[u]]
    BY DEF Accepted
  <2>. HIDE DEF Accepted
  <2>. QED
    BY <1>10, <2>1, <2>2, <2>3
<1>14. Actions!Use = Uses
  BY DEF Actions!Use, Uses
<1>. QED
  BY <1>6, <1>8, <1>9, <1>12, <1>13, <1>14 DEF Actions!Accept

\* A crash or a refusal drops verifications and nothing else.
LEMMA EndsDrop ==
  ASSUME IInv, NEW r \in Reqs, NEW slid \in BOOLEAN,
         DenySignature(r) \/ Replay(r) \/ CrashInCommit(r, slid)
  PROVE  Actions!Drop({r}) \/ Actions!Drop(Reqs)
<1>1. Accepted' = Accepted /\ epoch' = epoch
  BY AcceptedFrame DEF DenySignature, Replay, CrashInCommit
<1>2. Grants' = Grants /\ Closed' = Closed
  <2>1. CASE sessions' = sessions
    BY <2>1 DEF Grants, Closed
  <2>2. CASE CrashInCommit(r, slid)
    <3>1. PICK p \in Pending : p = reqs[r]
      BY <2>2, PendingType DEF CrashInCommit, IInv
    <3>2. sessions[p.action.sid] # NoRow
      BY <2>2, <3>1 DEF CrashInCommit, IInv, PendingInv, PendingOK
    <3>. QED
      BY <2>1, <2>2, <3>1, <3>2, SlideGrants DEF CrashInCommit, IInv
  <2>. QED
    BY <2>1, <2>2 DEF DenySignature, Replay
<1>3. Admitted' = Actions!Dropped({r}) \/ Admitted' = Actions!Dropped(Reqs)
  BY DEF DenySignature, Replay, CrashInCommit, Admitted, Actions!Dropped,
         IInv, TypeOK
<1>. QED
  BY <1>1, <1>2, <1>3 DEF Actions!Drop

\* A revocation closes its session.
LEMMA RevokeCloses ==
  ASSUME TypeOK, NEW s \in Sessions, Revoke(s)
  PROVE  Actions!Close(s)
<1>1. sessions[s] \in Row /\ sessions'[s] = [sessions[s] EXCEPT !.revokedAt = {now}]
      /\ \A u \in Sessions : u # s => sessions'[u] = sessions[u]
  BY DEF Revoke, TypeOK
<1>2. /\ sessions'[s].account = sessions[s].account
      /\ sessions'[s].grantEpoch = sessions[s].grantEpoch
      /\ sessions'[s].revokedAt = {now} /\ sessions'[s] \in Row
  <2>1. now \in Nat
    BY DEF TypeOK
  <2>. QED
    BY <1>1, <2>1 DEF Row
<1>3. sessions'[s] # NoRow /\ sessions[s] # NoRow
  BY <1>1, <1>2
<1>4. Grants' = Grants
  BY <1>1, <1>2, <1>3 DEF Grants
<1>5. Closed' = Closed \cup {s}
  BY <1>1, <1>2, <1>3 DEF Closed
<1>. QED
  BY <1>4, <1>5, AcceptedFrame DEF Actions!Close, Revoke, Admitted

\* The panic button starts a generation.
LEMMA BumpPanics ==
  ASSUME NEW a \in Accounts, BumpEpoch(a)
  PROVE  Actions!Panic(a)
  BY AcceptedFrame DEF BumpEpoch, Actions!Panic, Grants, Closed, Admitted

\* Every step is one of one-use actions, or invisible there.
LEMMA ActionsStep ==
  ASSUME IInv, FinalizeInv, [Next]_vars
  PROVE  [Actions!Next]_actionVars
<1>1. ASSUME UNCHANGED << epoch, sessions, reqs, audit >>
      PROVE  UNCHANGED actionVars
  BY <1>1, AcceptedFrame DEF actionVars, Grants, Closed, Admitted
<1>2. ASSUME NEW f \in finalizing, NEW crash \in BOOLEAN, FinalizeInsert(f, crash)
      PROVE  Actions!Next
  BY <1>2, MintGives DEF IInv, Actions!Next
<1>3. ASSUME NEW r \in Reqs, NEW x \in signed, NEW s \in Sessions, BeginVerify(r, x, s)
      PROVE  Actions!Next
  BY <1>3, BeginAdmits DEF Actions!Next
<1>4. ASSUME NEW r \in Reqs, Commit(r)
      PROVE  Actions!Next
  BY <1>4, CommitAccepts DEF Actions!Next
<1>5. ASSUME NEW r \in Reqs, NEW slid \in BOOLEAN,
             DenySignature(r) \/ Replay(r) \/ CrashInCommit(r, slid)
      PROVE  Actions!Next
  BY <1>5, EndsDrop DEF Actions!Next
<1>6. ASSUME Crash
      PROVE  Actions!Next
  <2>1. Admitted' = Actions!Dropped(Reqs)
    BY <1>6 DEF Crash, Admitted, Actions!Dropped
  <2>2. Actions!Drop(Reqs)
    BY <1>6, <2>1, AcceptedFrame DEF Crash, Actions!Drop, Grants, Closed
  <2>. QED
    BY <2>2 DEF Actions!Next
<1>7. ASSUME NEW s \in Sessions, Revoke(s)
      PROVE  Actions!Next
  BY <1>7, RevokeCloses DEF IInv, Actions!Next
<1>8. ASSUME NEW a \in Accounts, BumpEpoch(a)
      PROVE  Actions!Next
  BY <1>8, BumpPanics DEF Actions!Next
<1>. QED
  BY <1>1, <1>2, <1>3, <1>4, <1>5, <1>6, <1>7, <1>8
  DEF Next, vars, StartCeremony, FinalizeCheck, FinalizeFail, Sign, Deny, Tick

\* Ceremony, verifier and settings, with their clocks, garbage collection and
\* crashes, implement one-use actions.
THEOREM ActionsImplemented == Spec => ImplementsActions
<1>1. Init => Actions!Init /\ FinalizeInv
  <2>. SUFFICES ASSUME Init PROVE Actions!Init /\ FinalizeInv
    OBVIOUS
  <2>1. \A u \in Uses : Receipts(u) = {}
    BY DEF Init, Receipts, Allowed, Uses
  <2>2. Accepted = [u \in Actions!Use |-> 0]
    BY <2>1, FS_EmptySet DEF Accepted, Uses, Actions!Use
  <2>. QED
    BY <2>2 DEF Init, Actions!Init, Grants, Closed, Admitted, FinalizeInv
<1>2. IInv /\ FinalizeInv /\ [Next]_vars => FinalizeInv'
  BY FinalizeStep DEF IInv
<1>3. IInv /\ FinalizeInv /\ [Next]_vars => [Actions!Next]_Actions!vars
  BY ActionsStep DEF Actions!vars, actionVars
<1>. QED
  BY <1>1, <1>2, <1>3, InvariantHolds, PTL DEF Spec, Actions!Spec, ImplementsActions
=============================================================================
