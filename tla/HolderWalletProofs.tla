-------------------------- MODULE HolderWalletProofs --------------------------
(***************************************************************************)
(* Proofs about HolderWallet: the invariant behind its properties, and     *)
(* that it implements CredentialExchange.                                  *)
(***************************************************************************)
EXTENDS HolderWallet, FiniteSetTheorems, TLAPS

\* The wallet's secret is in the vault, and so is any secret about to be one.
VaultInv ==
  /\ wallet # NoWallet => wallet \in vault
  /\ \A c \in Calls : call[c].at \in {"keyed", "rotating"} => call[c].new \in vault

\* What a call holds between its awaits.
CallInv ==
  \A c \in Calls :
    /\ At(c, "gate") /\ call[c].op # "provision" =>
         call[c].hw # NoWallet /\ wallet # NoWallet
    /\ At(c, "rotating") => wallet # NoWallet
    /\ At(c, "processed") => call[c].hw = call[c].request.secret
    /\ call[c].at \in {"taken", "processed"} =>
         call[c].request \in filed /\ call[c].request \notin requests

\* A request is in the hands of one call.
ApartInv ==
  \A c, d \in Calls :
    /\ call[c].at \in {"taken", "processed"} /\ call[d].at \in {"taken", "processed"}
    /\ call[c].request = call[d].request
    => c = d

\* Requests are numbered in the order they are filed.
FiledInv ==
  /\ IsFiniteSet(filed)
  /\ \A r \in filed : r.id <= Cardinality(filed)
  /\ \A q, r \in filed : q.id = r.id => q = r

\* A credential's request is filed, and can be redeemed no more.
CredInv ==
  /\ IsFiniteSet(creds)
  /\ \A k \in creds : \E r \in filed :
       r.id = k.request /\ r.secret = k.secret /\ r \notin Open

IInv ==
  /\ TypeOK /\ VaultInv /\ CallInv /\ ApartInv /\ FiledInv /\ CredInv
  /\ ActiveIsCurrent /\ OneCredentialPerRequest

-----------------------------------------------------------------------------
\* Every action keeps the types.
LEMMA TypeStep == ASSUME IInv, [Next]_vars PROVE TypeOK'
<1>. USE WalletAssumption DEF IInv, TypeOK, Handling, Idle, Secret, CallInv, At
<1>0. CASE UNCHANGED vars
  BY <1>0 DEF vars
<1>1. ASSUME NEW c \in Calls, NEW op \in {"provision", "rotate", "request"}, Begin(c, op)
      PROVE  TypeOK'
  BY <1>1 DEF Begin, At, To, DB, History
<1>2. ASSUME NEW c \in Calls, NEW n \in Nonces, PassProvision(c, n)
      PROVE  TypeOK'
  BY <1>2 DEF PassProvision, At, To, Spend, History
<1>3. ASSUME NEW c \in Calls, NEW n \in Nonces, PassRotate(c, n) PROVE TypeOK'
  BY <1>3 DEF PassRotate, At, To, Spend, History
<1>4. ASSUME NEW c \in Calls, NEW n \in Nonces, PassRequest(c, n) PROVE TypeOK'
  BY <1>4 DEF PassRequest, At, To, Spend, History
<1>5. ASSUME NEW c \in Calls, DispatchProvision(c) PROVE TypeOK'
  BY <1>5 DEF DispatchProvision, At, To, DB, History
<1>6. ASSUME NEW c \in Calls, DispatchRequest(c) PROVE TypeOK'
  BY <1>6 DEF DispatchRequest, At, To, DB, History
<1>7. ASSUME NEW c \in Calls, Refuse(c) PROVE TypeOK'
  BY <1>7 DEF Refuse, At, To, DB, History, Idle
<1>8. ASSUME NEW c \in Calls, PutSecret(c) PROVE TypeOK'
  BY <1>8 DEF PutSecret, At, To, DB, History
<1>9. ASSUME NEW c \in Calls, InsertWallet(c) PROVE TypeOK'
  BY <1>9 DEF InsertWallet, At, To, NewRow, Idle, History
<1>10. ASSUME NEW c \in Calls, Rotate(c) PROVE TypeOK'
  <2>1. Marked(c) \subseteq Credential
    BY DEF Marked, Credential
  <2>2. call[c].new \in Secret /\ wallet \in Secret
    BY <1>10 DEF Rotate
  <2>3. creds' \subseteq Credential /\ wallet' \in Secret /\ unmarked' \subseteq Secret
    BY <1>10, <2>1, <2>2 DEF Rotate
  <2>4. call' \in [Calls -> Handling \cup {Idle}]
    BY <1>10 DEF Rotate, To
  <2>. QED BY <1>10, <2>3, <2>4 DEF Rotate
<1>11. ASSUME NEW c \in Calls, RotateTorn(c) PROVE TypeOK'
  BY <1>11 DEF RotateTorn, At, To, Idle
<1>12. ASSUME NEW c \in Calls, FileRequest(c) PROVE TypeOK'
  <2>1. Cardinality(filed) + 1 \in 1 .. MaxRequests
    BY <1>12, FS_CardinalityType DEF FileRequest, FiledInv
  <2>. QED BY <1>12, <2>1 DEF FileRequest, At, To, Request
<1>13. ASSUME NEW c \in Calls, NEW r \in filed, BeginStore(c, r) PROVE TypeOK'
  BY <1>13 DEF BeginStore, At, To, Take, History
<1>14. ASSUME NEW c \in Calls, Process(c) PROVE TypeOK'
  BY <1>14 DEF Process, At, To, DB, History, Idle
<1>15. ASSUME NEW c \in Calls, InsertCredential(c) PROVE TypeOK'
  <2>1. Cardinality(creds) + 1 \in 1 .. MaxRequests
    BY <1>15, FS_CardinalityType DEF InsertCredential, CredInv
  <2>2. call[c].hw \in Secret /\ call[c].request \in Request
    BY <1>15 DEF InsertCredential
  <2>3. creds' \subseteq Credential
    <3>. DEFINE k == [ id |-> Cardinality(creds) + 1, request |-> call[c].request.id,
                       secret |-> RowSecret(c), status |-> "active",
                       late |-> call[c].hw # wallet ]
    <3>1. k \in Credential
      <4>1. (call[c].hw # wallet) \in BOOLEAN
        OBVIOUS
      <4>2. call[c].request.id \in 1 .. MaxRequests
        BY <2>2 DEF Request
      <4>. QED BY <2>1, <2>2, <4>1, <4>2 DEF RowSecret, Credential
    <3>. QED BY <1>15, <3>1 DEF InsertCredential
  <2>4. call' \in [Calls -> Handling \cup {Idle}]
    BY <1>15 DEF InsertCredential, To
  <2>. QED BY <1>15, <2>3, <2>4 DEF InsertCredential, History
<1>16. CASE Restart
  BY <1>16 DEF Restart, DB, History, Idle
<1>. QED BY <1>0, <1>1, <1>2, <1>3, <1>4, <1>5, <1>6, <1>7, <1>8, <1>9, <1>10,
       <1>11, <1>12, <1>13, <1>14, <1>15, <1>16 DEF Next, Handle

\* The vault only grows, and a secret is put there before it is named.
LEMMA VaultStep == ASSUME IInv, [Next]_vars PROVE VaultInv'
<1>. USE DEF IInv, TypeOK, VaultInv, Handling, Idle
<1>0. CASE UNCHANGED vars
  BY <1>0 DEF vars
<1>1. ASSUME NEW c \in Calls, NEW op \in {"provision", "rotate", "request"}, Begin(c, op)
      PROVE  VaultInv'
  BY <1>1 DEF Begin, At, To, DB, History
<1>2. ASSUME NEW c \in Calls, NEW n \in Nonces, PassProvision(c, n)
      PROVE  VaultInv'
  BY <1>2 DEF PassProvision, At, To, Spend, History
<1>3. ASSUME NEW c \in Calls, NEW n \in Nonces, PassRotate(c, n)
      PROVE  VaultInv'
  BY <1>3 DEF PassRotate, At, To, Spend, History
<1>4. ASSUME NEW c \in Calls, NEW n \in Nonces, PassRequest(c, n)
      PROVE  VaultInv'
  BY <1>4 DEF PassRequest, At, To, Spend, History
<1>5. ASSUME NEW c \in Calls, DispatchProvision(c) PROVE VaultInv'
  BY <1>5 DEF DispatchProvision, At, To, DB, History
<1>6. ASSUME NEW c \in Calls, DispatchRequest(c) PROVE VaultInv'
  BY <1>6 DEF DispatchRequest, At, To, DB, History
<1>7. ASSUME NEW c \in Calls, Refuse(c) PROVE VaultInv'
  BY <1>7 DEF Refuse, At, To, DB, History, Idle
<1>8. ASSUME NEW c \in Calls, PutSecret(c) PROVE VaultInv'
  BY <1>8 DEF PutSecret, At, To, DB, History
<1>9. ASSUME NEW c \in Calls, InsertWallet(c) PROVE VaultInv'
  BY <1>9 DEF InsertWallet, At, To, NewRow, Idle, History
<1>10. ASSUME NEW c \in Calls, Rotate(c) PROVE VaultInv'
  BY <1>10 DEF Rotate, At, To, Marked, Idle
<1>11. ASSUME NEW c \in Calls, RotateTorn(c) PROVE VaultInv'
  BY <1>11 DEF RotateTorn, At, To, Idle
<1>12. ASSUME NEW c \in Calls, FileRequest(c) PROVE VaultInv'
  BY <1>12 DEF FileRequest, At, To, Idle
<1>13. ASSUME NEW c \in Calls, NEW r \in filed, BeginStore(c, r)
       PROVE  VaultInv'
  BY <1>13 DEF BeginStore, At, To, Take, History
<1>14. ASSUME NEW c \in Calls, Process(c) PROVE VaultInv'
  BY <1>14 DEF Process, At, To, DB, History, Idle
<1>15. ASSUME NEW c \in Calls, InsertCredential(c) PROVE VaultInv'
  BY <1>15 DEF InsertCredential, At, To, RowSecret, Idle, History
<1>16. CASE Restart
  BY <1>16 DEF Restart, DB, History, Idle
<1>. QED BY <1>0, <1>1, <1>2, <1>3, <1>4, <1>5, <1>6, <1>7, <1>8, <1>9, <1>10,
       <1>11, <1>12, <1>13, <1>14, <1>15, <1>16 DEF Next, Handle

\* What a call holds stays true while other calls run.
LEMMA CallStep == ASSUME IInv, [Next]_vars PROVE CallInv' /\ ApartInv'
<1>. USE WalletAssumption DEF IInv, TypeOK, CallInv, ApartInv, Handling, Idle, At, Secret
<1>0. CASE UNCHANGED vars
  BY <1>0 DEF vars
<1>1. ASSUME NEW c \in Calls, NEW op \in {"provision", "rotate", "request"}, Begin(c, op)
      PROVE  CallInv' /\ ApartInv'
  BY <1>1 DEF Begin, At, To, DB, History
<1>2. ASSUME NEW c \in Calls, NEW n \in Nonces, PassProvision(c, n)
      PROVE  CallInv' /\ ApartInv'
  BY <1>2 DEF PassProvision, At, To, Spend, History
<1>3. ASSUME NEW c \in Calls, NEW n \in Nonces, PassRotate(c, n)
      PROVE  CallInv' /\ ApartInv'
  BY <1>3 DEF PassRotate, At, To, Spend, History
<1>4. ASSUME NEW c \in Calls, NEW n \in Nonces, PassRequest(c, n)
      PROVE  CallInv' /\ ApartInv'
  BY <1>4 DEF PassRequest, At, To, Spend, History
<1>5. ASSUME NEW c \in Calls, DispatchProvision(c) PROVE CallInv' /\ ApartInv'
  BY <1>5 DEF DispatchProvision, At, To, DB, History
<1>6. ASSUME NEW c \in Calls, DispatchRequest(c) PROVE CallInv' /\ ApartInv'
  BY <1>6 DEF DispatchRequest, At, To, DB, History
<1>7. ASSUME NEW c \in Calls, Refuse(c) PROVE CallInv' /\ ApartInv'
  BY <1>7 DEF Refuse, At, To, DB, History, Idle
<1>8. ASSUME NEW c \in Calls, PutSecret(c) PROVE CallInv' /\ ApartInv'
  BY <1>8 DEF PutSecret, At, To, DB, History
<1>9. ASSUME NEW c \in Calls, InsertWallet(c) PROVE CallInv' /\ ApartInv'
  BY <1>9 DEF InsertWallet, At, To, NewRow, Idle, History
<1>10. ASSUME NEW c \in Calls, Rotate(c) PROVE CallInv' /\ ApartInv'
  BY <1>10 DEF Rotate, At, To, Marked, Idle
<1>11. ASSUME NEW c \in Calls, RotateTorn(c) PROVE CallInv' /\ ApartInv'
  BY <1>11 DEF RotateTorn, At, To, Idle
<1>12. ASSUME NEW c \in Calls, FileRequest(c) PROVE CallInv' /\ ApartInv'
  <2>. DEFINE r == [id |-> Cardinality(filed) + 1, secret |-> call[c].hw]
  <2>1. r \notin filed
    BY FS_CardinalityType DEF FiledInv, Request
  <2>2. filed' = filed \cup {r} /\ requests' = requests \cup {r}
    BY <1>12 DEF FileRequest
  <2>. QED BY <1>12, <2>1, <2>2 DEF FileRequest, At, To
<1>13. ASSUME NEW c \in Calls, NEW r \in filed, BeginStore(c, r)
       PROVE  CallInv' /\ ApartInv'
  BY <1>13 DEF BeginStore, At, To, Take, History
<1>14. ASSUME NEW c \in Calls, Process(c) PROVE CallInv' /\ ApartInv'
  BY <1>14 DEF Process, At, To, DB, History, Idle
<1>15. ASSUME NEW c \in Calls, InsertCredential(c) PROVE CallInv' /\ ApartInv'
  BY <1>15 DEF InsertCredential, At, To, RowSecret, Idle, History
<1>16. CASE Restart
  BY <1>16 DEF Restart, DB, History, Idle
<1>. QED BY <1>0, <1>1, <1>2, <1>3, <1>4, <1>5, <1>6, <1>7, <1>8, <1>9, <1>10,
       <1>11, <1>12, <1>13, <1>14, <1>15, <1>16 DEF Next, Handle

\* Requests stay numbered.
LEMMA FiledStep == ASSUME IInv, [Next]_vars PROVE FiledInv'
<1>. USE DEF IInv, FiledInv
<1>0. CASE UNCHANGED vars
  BY <1>0 DEF vars
<1>1. ASSUME NEW c \in Calls, NEW op \in {"provision", "rotate", "request"}, Begin(c, op)
      PROVE  FiledInv'
  BY <1>1 DEF Begin, At, To, DB, History
<1>2. ASSUME NEW c \in Calls, NEW n \in Nonces, PassProvision(c, n)
      PROVE  FiledInv'
  BY <1>2 DEF PassProvision, At, To, Spend, History
<1>3. ASSUME NEW c \in Calls, NEW n \in Nonces, PassRotate(c, n)
      PROVE  FiledInv'
  BY <1>3 DEF PassRotate, At, To, Spend, History
<1>4. ASSUME NEW c \in Calls, NEW n \in Nonces, PassRequest(c, n)
      PROVE  FiledInv'
  BY <1>4 DEF PassRequest, At, To, Spend, History
<1>5. ASSUME NEW c \in Calls, DispatchProvision(c) PROVE FiledInv'
  BY <1>5 DEF DispatchProvision, At, To, DB, History
<1>6. ASSUME NEW c \in Calls, DispatchRequest(c) PROVE FiledInv'
  BY <1>6 DEF DispatchRequest, At, To, DB, History
<1>7. ASSUME NEW c \in Calls, Refuse(c) PROVE FiledInv'
  BY <1>7 DEF Refuse, At, To, DB, History, Idle
<1>8. ASSUME NEW c \in Calls, PutSecret(c) PROVE FiledInv'
  BY <1>8 DEF PutSecret, At, To, DB, History
<1>9. ASSUME NEW c \in Calls, InsertWallet(c) PROVE FiledInv'
  BY <1>9 DEF InsertWallet, At, To, NewRow, Idle, History
<1>10. ASSUME NEW c \in Calls, Rotate(c) PROVE FiledInv'
  BY <1>10 DEF Rotate, At, To, Marked, Idle
<1>11. ASSUME NEW c \in Calls, RotateTorn(c) PROVE FiledInv'
  BY <1>11 DEF RotateTorn, At, To, Idle
<1>12. ASSUME NEW c \in Calls, FileRequest(c) PROVE FiledInv'
  <2>. DEFINE r == [id |-> Cardinality(filed) + 1, secret |-> call[c].hw]
  <2>1. Cardinality(filed) \in Nat /\ r \notin filed
    BY FS_CardinalityType DEF TypeOK, Request
  <2>2. filed' = filed \cup {r}
    BY <1>12 DEF FileRequest
  <2>3. IsFiniteSet(filed') /\ Cardinality(filed') = Cardinality(filed) + 1
    BY <2>1, <2>2, FS_AddElement
  <2>4. \A q \in filed : q.id \in Nat /\ q.id <= Cardinality(filed)
    BY DEF TypeOK, Request
  <2>5. \A q \in filed' : q.id <= Cardinality(filed')
    BY <2>1, <2>2, <2>3, <2>4
  <2>6. ASSUME NEW p \in filed', NEW q \in filed', p.id = q.id PROVE p = q
    BY <2>1, <2>2, <2>4, <2>6
  <2>. QED BY <2>3, <2>5, <2>6
<1>13. ASSUME NEW c \in Calls, NEW r \in filed, BeginStore(c, r)
       PROVE  FiledInv'
  BY <1>13 DEF BeginStore, At, To, Take, History
<1>14. ASSUME NEW c \in Calls, Process(c) PROVE FiledInv'
  BY <1>14 DEF Process, At, To, DB, History, Idle
<1>15. ASSUME NEW c \in Calls, InsertCredential(c) PROVE FiledInv'
  BY <1>15 DEF InsertCredential, At, To, RowSecret, Idle, History
<1>16. CASE Restart
  BY <1>16 DEF Restart, DB, History, Idle
<1>. QED BY <1>0, <1>1, <1>2, <1>3, <1>4, <1>5, <1>6, <1>7, <1>8, <1>9, <1>10,
       <1>11, <1>12, <1>13, <1>14, <1>15, <1>16 DEF Next, Handle

\* A step that adds no request to Open, and no credential, keeps CredInv.
LEMMA CredKept ==
  ASSUME CredInv, IsFiniteSet(creds'), Open' \subseteq Open, filed \subseteq filed',
         \A k \in creds' : \E l \in creds : l.request = k.request /\ l.secret = k.secret
  PROVE  CredInv'
BY DEF CredInv

\* A request that gave a credential stays closed.
LEMMA CredStep == ASSUME IInv, [Next]_vars PROVE CredInv'
<1>0. CASE UNCHANGED vars
  BY <1>0 DEF vars, IInv, CredInv, Open, InHand
<1>1. ASSUME NEW c \in Calls, NEW op \in {"provision", "rotate", "request"}, Begin(c, op)
      PROVE  CredInv'
  <2>1. Open' \subseteq Open
    BY <1>1 DEF Begin, Open, InHand, At, To, Idle, DB, History
  <2>2. UNCHANGED <<creds, filed>>
    BY <1>1 DEF Begin, DB, History
  <2>. QED BY <2>1, <2>2, CredKept DEF IInv, CredInv
<1>2. ASSUME NEW c \in Calls, NEW n \in Nonces, PassProvision(c, n)
      PROVE  CredInv'
  <2>1. Open' \subseteq Open
    BY <1>2 DEF PassProvision, Open, InHand, At, To, Idle, Spend, History
  <2>2. UNCHANGED <<creds, filed>>
    BY <1>2 DEF PassProvision, Spend, History
  <2>. QED BY <2>1, <2>2, CredKept DEF IInv, CredInv
<1>3. ASSUME NEW c \in Calls, NEW n \in Nonces, PassRotate(c, n) PROVE CredInv'
  <2>1. Open' \subseteq Open
    BY <1>3 DEF PassRotate, Open, InHand, At, To, Idle, Spend, History
  <2>2. UNCHANGED <<creds, filed>>
    BY <1>3 DEF PassRotate, Spend, History
  <2>. QED BY <2>1, <2>2, CredKept DEF IInv, CredInv
<1>4. ASSUME NEW c \in Calls, NEW n \in Nonces, PassRequest(c, n)
      PROVE  CredInv'
  <2>1. Open' \subseteq Open
    BY <1>4 DEF PassRequest, Open, InHand, At, To, Idle, Spend, History
  <2>2. UNCHANGED <<creds, filed>>
    BY <1>4 DEF PassRequest, Spend, History
  <2>. QED BY <2>1, <2>2, CredKept DEF IInv, CredInv
<1>5. ASSUME NEW c \in Calls, DispatchProvision(c) PROVE CredInv'
  <2>1. Open' \subseteq Open
    BY <1>5 DEF DispatchProvision, Open, InHand, At, To, Idle, DB, History
  <2>2. UNCHANGED <<creds, filed>>
    BY <1>5 DEF DispatchProvision, DB, History
  <2>. QED BY <2>1, <2>2, CredKept DEF IInv, CredInv
<1>6. ASSUME NEW c \in Calls, DispatchRequest(c) PROVE CredInv'
  <2>1. Open' \subseteq Open
    BY <1>6 DEF DispatchRequest, Open, InHand, At, To, Idle, DB, History
  <2>2. UNCHANGED <<creds, filed>>
    BY <1>6 DEF DispatchRequest, DB, History
  <2>. QED BY <2>1, <2>2, CredKept DEF IInv, CredInv
<1>7. ASSUME NEW c \in Calls, Refuse(c) PROVE CredInv'
  <2>1. Open' \subseteq Open
    BY <1>7 DEF Refuse, Open, InHand, At, To, Idle, DB, History, Idle
  <2>2. UNCHANGED <<creds, filed>>
    BY <1>7 DEF Refuse, DB, History, Idle
  <2>. QED BY <2>1, <2>2, CredKept DEF IInv, CredInv
<1>8. ASSUME NEW c \in Calls, PutSecret(c) PROVE CredInv'
  <2>1. Open' \subseteq Open
    BY <1>8 DEF PutSecret, Open, InHand, At, To, Idle, DB, History
  <2>2. UNCHANGED <<creds, filed>>
    BY <1>8 DEF PutSecret, DB, History
  <2>. QED BY <2>1, <2>2, CredKept DEF IInv, CredInv
<1>9. ASSUME NEW c \in Calls, InsertWallet(c) PROVE CredInv'
  <2>1. Open' \subseteq Open
    BY <1>9 DEF InsertWallet, Open, InHand, At, To, Idle, NewRow, Idle, History
  <2>2. UNCHANGED <<creds, filed>>
    BY <1>9 DEF InsertWallet, NewRow, Idle, History
  <2>. QED BY <2>1, <2>2, CredKept DEF IInv, CredInv
<1>10. ASSUME NEW c \in Calls, Rotate(c) PROVE CredInv'
  <2>1. Open' \subseteq Open
    BY <1>10 DEF Rotate, Open, InHand, At, To, Idle
  <2>2. IsFiniteSet(creds')
    <3>. DEFINE f == [k \in creds |->
           IF k.secret = call[c].hw /\ k.status = "active" THEN [k EXCEPT !.status = "stale"] ELSE k]
    <3>1. creds' = {f[k] : k \in creds}
      BY <1>10 DEF Rotate, Marked
    <3>2. f \in Surjection(creds, creds')
      BY <3>1 DEF Surjection
    <3>3. IsFiniteSet(creds)
      BY DEF IInv, CredInv
    <3>. QED BY <3>2, <3>3, FS_Surjection
  <2>3. \A k \in creds' : \E l \in creds : l.request = k.request /\ l.secret = k.secret
    BY <1>10 DEF Rotate, Marked, IInv, TypeOK, Credential
  <2>. QED BY <1>10, <2>1, <2>2, <2>3, CredKept DEF Rotate, IInv
<1>11. ASSUME NEW c \in Calls, RotateTorn(c) PROVE CredInv'
  <2>1. Open' \subseteq Open
    BY <1>11 DEF RotateTorn, Open, InHand, At, To, Idle, Idle
  <2>2. UNCHANGED <<creds, filed>>
    BY <1>11 DEF RotateTorn, Idle
  <2>. QED BY <2>1, <2>2, CredKept DEF IInv, CredInv
<1>12. ASSUME NEW c \in Calls, FileRequest(c) PROVE CredInv'
  <2>. DEFINE r == [id |-> Cardinality(filed) + 1, secret |-> call[c].hw]
  <2>1. r \notin filed
    BY FS_CardinalityType DEF IInv, TypeOK, FiledInv, Request
  <2>2. Open' \subseteq Open \cup {r} /\ filed' = filed \cup {r} /\ creds' = creds
    BY <1>12 DEF FileRequest, Open, InHand, At, To, Idle
  <2>. QED BY <2>1, <2>2 DEF IInv, CredInv
<1>13. ASSUME NEW c \in Calls, NEW r \in filed, BeginStore(c, r) PROVE CredInv'
  <2>1. Open' \subseteq Open
    BY <1>13 DEF BeginStore, Open, InHand, At, To, Idle, Take, History
  <2>2. UNCHANGED <<creds, filed>>
    BY <1>13 DEF BeginStore, Take, History
  <2>. QED BY <2>1, <2>2, CredKept DEF IInv, CredInv
<1>14. ASSUME NEW c \in Calls, Process(c) PROVE CredInv'
  <2>1. Open' \subseteq Open
    BY <1>14 DEF Process, Open, InHand, At, To, Idle, DB, History, Idle
  <2>2. UNCHANGED <<creds, filed>>
    BY <1>14 DEF Process, DB, History, Idle
  <2>. QED BY <2>1, <2>2, CredKept DEF IInv, CredInv
<1>15. ASSUME NEW c \in Calls, InsertCredential(c) PROVE CredInv'
  <2>. DEFINE r == call[c].request
              k == [ id |-> Cardinality(creds) + 1, request |-> r.id,
                     secret |-> RowSecret(c), status |-> "active",
                     late |-> call[c].hw # wallet ]
  <2>1. creds' = creds \cup {k} /\ filed' = filed
    BY <1>15 DEF InsertCredential, History
  <2>2. IsFiniteSet(creds')
    BY <2>1, FS_AddElement DEF IInv, CredInv
  <2>3. Open' \subseteq Open \ {r}
    BY <1>15 DEF InsertCredential, Open, InHand, At, To, Idle, IInv, TypeOK, CallInv, ApartInv
  <2>4. r \in filed /\ k.request = r.id /\ k.secret = r.secret
    BY <1>15 DEF InsertCredential, At, RowSecret, IInv, CallInv
  <2>. QED BY <2>1, <2>2, <2>3, <2>4 DEF IInv, CredInv
<1>16. CASE Restart
  <2>1. Open' \subseteq Open /\ UNCHANGED <<creds, filed>>
    BY <1>16 DEF Restart, DB, History, Idle, Open, InHand
  <2>. QED BY <2>1, CredKept DEF IInv, CredInv
<1>. QED BY <1>0, <1>1, <1>2, <1>3, <1>4, <1>5, <1>6, <1>7, <1>8, <1>9, <1>10,
       <1>11, <1>12, <1>13, <1>14, <1>15, <1>16 DEF Next, Handle

\* A second credential for a request would need it open.
LEMMA OneStep == ASSUME IInv, [Next]_vars PROVE OneCredentialPerRequest'
<1>. USE DEF IInv, OneCredentialPerRequest
<1>0. CASE UNCHANGED vars
  BY <1>0 DEF vars
<1>1. ASSUME NEW c \in Calls, NEW op \in {"provision", "rotate", "request"}, Begin(c, op)
      PROVE  OneCredentialPerRequest'
  BY <1>1 DEF Begin, At, To, DB, History
<1>2. ASSUME NEW c \in Calls, NEW n \in Nonces, PassProvision(c, n)
      PROVE  OneCredentialPerRequest'
  BY <1>2 DEF PassProvision, At, To, Spend, History
<1>3. ASSUME NEW c \in Calls, NEW n \in Nonces, PassRotate(c, n)
      PROVE  OneCredentialPerRequest'
  BY <1>3 DEF PassRotate, At, To, Spend, History
<1>4. ASSUME NEW c \in Calls, NEW n \in Nonces, PassRequest(c, n)
      PROVE  OneCredentialPerRequest'
  BY <1>4 DEF PassRequest, At, To, Spend, History
<1>5. ASSUME NEW c \in Calls, DispatchProvision(c)
      PROVE  OneCredentialPerRequest'
  BY <1>5 DEF DispatchProvision, At, To, DB, History
<1>6. ASSUME NEW c \in Calls, DispatchRequest(c) PROVE OneCredentialPerRequest'
  BY <1>6 DEF DispatchRequest, At, To, DB, History
<1>7. ASSUME NEW c \in Calls, Refuse(c) PROVE OneCredentialPerRequest'
  BY <1>7 DEF Refuse, At, To, DB, History, Idle
<1>8. ASSUME NEW c \in Calls, PutSecret(c) PROVE OneCredentialPerRequest'
  BY <1>8 DEF PutSecret, At, To, DB, History
<1>9. ASSUME NEW c \in Calls, InsertWallet(c) PROVE OneCredentialPerRequest'
  BY <1>9 DEF InsertWallet, At, To, NewRow, Idle, History
<1>10. ASSUME NEW c \in Calls, Rotate(c) PROVE OneCredentialPerRequest'
  BY <1>10 DEF Rotate, Marked, TypeOK, Credential
<1>11. ASSUME NEW c \in Calls, RotateTorn(c) PROVE OneCredentialPerRequest'
  BY <1>11 DEF RotateTorn, At, To, Idle
<1>12. ASSUME NEW c \in Calls, FileRequest(c) PROVE OneCredentialPerRequest'
  BY <1>12 DEF FileRequest, At, To, Idle
<1>13. ASSUME NEW c \in Calls, NEW r \in filed, BeginStore(c, r)
       PROVE  OneCredentialPerRequest'
  BY <1>13 DEF BeginStore, At, To, Take, History
<1>14. ASSUME NEW c \in Calls, Process(c) PROVE OneCredentialPerRequest'
  BY <1>14 DEF Process, At, To, DB, History, Idle
<1>15. ASSUME NEW c \in Calls, InsertCredential(c)
       PROVE  OneCredentialPerRequest'
  <2>1. call[c].request \in filed /\ call[c].request \in Open
    BY <1>15 DEF InsertCredential, At, CallInv, Open, InHand
  <2>2. \A k \in creds : k.request # call[c].request.id
    BY <2>1 DEF CredInv, FiledInv
  <2>. QED BY <1>15, <2>2 DEF InsertCredential
<1>16. CASE Restart
  BY <1>16 DEF Restart, DB, History, Idle
<1>. QED BY <1>0, <1>1, <1>2, <1>3, <1>4, <1>5, <1>6, <1>7, <1>8, <1>9, <1>10,
       <1>11, <1>12, <1>13, <1>14, <1>15, <1>16 DEF Next, Handle

\* A secret is replaced with its credentials marked, or is remembered.
LEMMA ActiveStep == ASSUME IInv, [Next]_vars PROVE ActiveIsCurrent'
<1>. USE DEF IInv, ActiveIsCurrent
<1>0. CASE UNCHANGED vars
  BY <1>0 DEF vars
<1>1. ASSUME NEW c \in Calls, NEW op \in {"provision", "rotate", "request"}, Begin(c, op)
      PROVE  ActiveIsCurrent'
  BY <1>1 DEF Begin, At, To, DB, History
<1>2. ASSUME NEW c \in Calls, NEW n \in Nonces, PassProvision(c, n)
      PROVE  ActiveIsCurrent'
  BY <1>2 DEF PassProvision, At, To, Spend, History
<1>3. ASSUME NEW c \in Calls, NEW n \in Nonces, PassRotate(c, n)
      PROVE  ActiveIsCurrent'
  BY <1>3 DEF PassRotate, At, To, Spend, History
<1>4. ASSUME NEW c \in Calls, NEW n \in Nonces, PassRequest(c, n)
      PROVE  ActiveIsCurrent'
  BY <1>4 DEF PassRequest, At, To, Spend, History
<1>5. ASSUME NEW c \in Calls, DispatchProvision(c) PROVE ActiveIsCurrent'
  BY <1>5 DEF DispatchProvision, At, To, DB, History
<1>6. ASSUME NEW c \in Calls, DispatchRequest(c) PROVE ActiveIsCurrent'
  BY <1>6 DEF DispatchRequest, At, To, DB, History
<1>7. ASSUME NEW c \in Calls, Refuse(c) PROVE ActiveIsCurrent'
  BY <1>7 DEF Refuse, At, To, DB, History, Idle
<1>8. ASSUME NEW c \in Calls, PutSecret(c) PROVE ActiveIsCurrent'
  BY <1>8 DEF PutSecret, At, To, DB, History
<1>9. ASSUME NEW c \in Calls, InsertWallet(c) PROVE ActiveIsCurrent'
  <2>1. \A k \in creds : k.secret # NoWallet
    BY WalletAssumption DEF TypeOK, Credential, Secret
  <2>. QED BY <1>9, <2>1 DEF InsertWallet, NewRow, History
<1>10. ASSUME NEW c \in Calls, Rotate(c) PROVE ActiveIsCurrent'
  <2>1. \A k \in creds' : k.status = "active" => k \in creds /\ k.secret # call[c].hw
    BY <1>10 DEF Rotate, Marked, TypeOK, Credential
  <2>. QED BY <1>10, <2>1 DEF Rotate
<1>11. ASSUME NEW c \in Calls, RotateTorn(c) PROVE ActiveIsCurrent'
  BY <1>11 DEF RotateTorn, At, To, Idle
<1>12. ASSUME NEW c \in Calls, FileRequest(c) PROVE ActiveIsCurrent'
  BY <1>12 DEF FileRequest, At, To, Idle
<1>13. ASSUME NEW c \in Calls, NEW r \in filed, BeginStore(c, r)
       PROVE  ActiveIsCurrent'
  BY <1>13 DEF BeginStore, At, To, Take, History
<1>14. ASSUME NEW c \in Calls, Process(c) PROVE ActiveIsCurrent'
  BY <1>14 DEF Process, At, To, DB, History, Idle
<1>15. ASSUME NEW c \in Calls, InsertCredential(c) PROVE ActiveIsCurrent'
  <2>. DEFINE k == [ id |-> Cardinality(creds) + 1, request |-> call[c].request.id,
                     secret |-> RowSecret(c), status |-> "active",
                     late |-> call[c].hw # wallet ]
  <2>1. creds' = creds \cup {k} /\ wallet' = wallet /\ unmarked' = unmarked
    BY <1>15 DEF InsertCredential, History
  <2>2. k.secret = wallet \/ k.late
    <3>1. k.secret = call[c].hw /\ (k.late <=> call[c].hw # wallet)
      BY DEF RowSecret
    <3>. QED BY <3>1
  <2>3. ASSUME NEW l \in creds', l.status = "active"
        PROVE  l.secret = wallet' \/ l.late \/ l.secret \in unmarked'
    <3>1. CASE l \in creds
      BY <2>1, <2>3, <3>1
    <3>2. CASE l = k
      BY <2>1, <2>2, <3>2
    <3>. QED BY <2>1, <3>1, <3>2
  <2>. QED BY <2>3
<1>16. CASE Restart
  BY <1>16 DEF Restart, DB, History, Idle
<1>. QED BY <1>0, <1>1, <1>2, <1>3, <1>4, <1>5, <1>6, <1>7, <1>8, <1>9, <1>10,
       <1>11, <1>12, <1>13, <1>14, <1>15, <1>16 DEF Next, Handle

-----------------------------------------------------------------------------
\* The invariant holds in every state, for any number of calls, nonces,
\* secrets and requests.
THEOREM WalletInvariant == Spec => []IInv
<1>1. Init => IInv
  BY FS_EmptySet, WalletAssumption DEF Init, IInv, TypeOK, VaultInv, CallInv, ApartInv, FiledInv, CredInv,
     ActiveIsCurrent, OneCredentialPerRequest, Idle, At
<1>2. IInv /\ [Next]_vars => IInv'
  BY TypeStep, VaultStep, CallStep, FiledStep, CredStep, OneStep, ActiveStep DEF IInv
<1>. QED BY <1>1, <1>2, PTL DEF Spec

\* An active credential is bound to the wallet's secret, but for the three
\* overlaps ActiveIsCurrent names (api/wallet.ts 121-122).
THEOREM ActiveAreCurrent == Spec => []ActiveIsCurrent
BY WalletInvariant, PTL DEF IInv

\* A request is redeemed once, however its stores are repeated and interleaved
\* (api/credentials.ts 94-96).
THEOREM RequestsAreOneShot == Spec => []OneCredentialPerRequest
BY WalletInvariant, PTL DEF IInv

\* A credential is filed under the secret of its own request.
THEOREM CredentialsBound == Spec => []BoundToItsRequest
<1>1. IInv => BoundToItsRequest
  BY DEF IInv, CredInv, BoundToItsRequest
<1>. QED BY <1>1, WalletInvariant, PTL

\* Provisionings that lose the race leave the wallet alone, and the secret it
\* names is in the vault (api/wallet.ts 72-84).
THEOREM ProvisioningsKeepWallet == Spec => ProvisioningKeepsWallet
<1>. DEFINE Kept == /\ wallet' = NoWallet \/ wallet' \in vault'
                    /\ wallet # NoWallet /\ wallet' # wallet =>
                         \E c \in Calls : At(c, "rotating") /\ wallet' = call[c].new
<1>1. IInv /\ IInv' /\ [Next]_vars => [Kept]_vars
  <2>. SUFFICES ASSUME IInv, IInv', Next PROVE Kept
    OBVIOUS
  <2>1. wallet' = NoWallet \/ wallet' \in vault'
    BY DEF IInv, VaultInv
  <2>2. ASSUME wallet # NoWallet, wallet' # wallet
        PROVE  \E c \in Calls : At(c, "rotating") /\ wallet' = call[c].new
    BY <2>2 DEF Next, Handle, Restart, Begin, PassProvision, PassRotate, PassRequest,
       DispatchProvision, DispatchRequest, Refuse, PutSecret, InsertWallet, NewRow, Rotate,
       RotateTorn, FileRequest, BeginStore, Process, InsertCredential, DB
  <2>. QED BY <2>1, <2>2
<1>. QED BY <1>1, WalletInvariant, PTL DEF Spec, ProvisioningKeepsWallet

\* Every step files or redeems a request, or loses some.
LEMMA ExchangeStep == ASSUME IInv, [Next]_vars PROVE [Exchange!Next]_<<filed, Open, Held>>
<1>0. CASE UNCHANGED vars
  BY <1>0 DEF vars, Open, InHand, Held
<1>1. ASSUME NEW c \in Calls, NEW op \in {"provision", "rotate", "request"}, Begin(c, op)
      PROVE  [Exchange!Next]_<<filed, Open, Held>>
  <2>1. Open' \subseteq Open /\ UNCHANGED <<filed, Held>>
    BY <1>1 DEF Begin, Open, InHand, At, To, Idle, Held, DB, History
  <2>. QED BY <2>1 DEF Exchange!Next, Exchange!Lose
<1>2. ASSUME NEW c \in Calls, NEW n \in Nonces, PassProvision(c, n)
      PROVE  [Exchange!Next]_<<filed, Open, Held>>
  <2>1. Open' \subseteq Open /\ UNCHANGED <<filed, Held>>
    BY <1>2 DEF PassProvision, Open, InHand, At, To, Idle, Held, Spend, History
  <2>. QED BY <2>1 DEF Exchange!Next, Exchange!Lose
<1>3. ASSUME NEW c \in Calls, NEW n \in Nonces, PassRotate(c, n)
      PROVE  [Exchange!Next]_<<filed, Open, Held>>
  <2>1. Open' \subseteq Open /\ UNCHANGED <<filed, Held>>
    BY <1>3 DEF PassRotate, Open, InHand, At, To, Idle, Held, Spend, History
  <2>. QED BY <2>1 DEF Exchange!Next, Exchange!Lose
<1>4. ASSUME NEW c \in Calls, NEW n \in Nonces, PassRequest(c, n)
      PROVE  [Exchange!Next]_<<filed, Open, Held>>
  <2>1. Open' \subseteq Open /\ UNCHANGED <<filed, Held>>
    BY <1>4 DEF PassRequest, Open, InHand, At, To, Idle, Held, Spend, History
  <2>. QED BY <2>1 DEF Exchange!Next, Exchange!Lose
<1>5. ASSUME NEW c \in Calls, DispatchProvision(c)
      PROVE  [Exchange!Next]_<<filed, Open, Held>>
  <2>1. Open' \subseteq Open /\ UNCHANGED <<filed, Held>>
    BY <1>5 DEF DispatchProvision, Open, InHand, At, To, Idle, Held, DB, History
  <2>. QED BY <2>1 DEF Exchange!Next, Exchange!Lose
<1>6. ASSUME NEW c \in Calls, DispatchRequest(c)
      PROVE  [Exchange!Next]_<<filed, Open, Held>>
  <2>1. Open' \subseteq Open /\ UNCHANGED <<filed, Held>>
    BY <1>6 DEF DispatchRequest, Open, InHand, At, To, Idle, Held, DB, History
  <2>. QED BY <2>1 DEF Exchange!Next, Exchange!Lose
<1>7. ASSUME NEW c \in Calls, Refuse(c)
      PROVE  [Exchange!Next]_<<filed, Open, Held>>
  <2>1. Open' \subseteq Open /\ UNCHANGED <<filed, Held>>
    BY <1>7 DEF Refuse, Open, InHand, At, To, Idle, Held, DB, History, Idle
  <2>. QED BY <2>1 DEF Exchange!Next, Exchange!Lose
<1>8. ASSUME NEW c \in Calls, PutSecret(c)
      PROVE  [Exchange!Next]_<<filed, Open, Held>>
  <2>1. Open' \subseteq Open /\ UNCHANGED <<filed, Held>>
    BY <1>8 DEF PutSecret, Open, InHand, At, To, Idle, Held, DB, History
  <2>. QED BY <2>1 DEF Exchange!Next, Exchange!Lose
<1>9. ASSUME NEW c \in Calls, InsertWallet(c)
      PROVE  [Exchange!Next]_<<filed, Open, Held>>
  <2>1. Open' \subseteq Open /\ UNCHANGED <<filed, Held>>
    BY <1>9 DEF InsertWallet, Open, InHand, At, To, Idle, Held, NewRow, Idle, History
  <2>. QED BY <2>1 DEF Exchange!Next, Exchange!Lose
<1>10. ASSUME NEW c \in Calls, Rotate(c)
       PROVE  [Exchange!Next]_<<filed, Open, Held>>
  <2>1. Open' \subseteq Open /\ filed' = filed
    BY <1>10 DEF Rotate, Open, InHand, At, To, Idle
  <2>2. Held' = Held
    <3>1. \A k \in creds' : \E l \in creds : l.request = k.request /\ l.secret = k.secret
      BY <1>10 DEF Rotate, Marked, IInv, TypeOK, Credential
    <3>2. \A k \in creds : \E l \in creds' : l.request = k.request /\ l.secret = k.secret
      <4>. SUFFICES ASSUME NEW k \in creds
                    PROVE  \E l \in creds' : l.request = k.request /\ l.secret = k.secret
        OBVIOUS
      <4>. DEFINE m == IF k.secret = call[c].hw /\ k.status = "active"
                        THEN [k EXCEPT !.status = "stale"] ELSE k
      <4>1. m \in creds'
        BY <1>10 DEF Rotate, Marked
      <4>2. m.request = k.request /\ m.secret = k.secret
        BY DEF IInv, TypeOK, Credential
      <4>. QED BY <4>1, <4>2
    <3>. QED BY <3>1, <3>2 DEF Held
  <2>. QED BY <2>1, <2>2 DEF Exchange!Next, Exchange!Lose
<1>11. ASSUME NEW c \in Calls, RotateTorn(c)
       PROVE  [Exchange!Next]_<<filed, Open, Held>>
  <2>1. Open' \subseteq Open /\ UNCHANGED <<filed, Held>>
    BY <1>11 DEF RotateTorn, Open, InHand, At, To, Idle, Held, Idle
  <2>. QED BY <2>1 DEF Exchange!Next, Exchange!Lose
<1>12. ASSUME NEW c \in Calls, FileRequest(c)
       PROVE  [Exchange!Next]_<<filed, Open, Held>>
  <2>. DEFINE r == [id |-> Cardinality(filed) + 1, secret |-> call[c].hw]
  <2>1. filed' = filed \cup {r} /\ creds' = creds /\ requests' = requests \cup {r}
    BY <1>12 DEF FileRequest
  <2>2. r \in Request
    BY <1>12, <2>1, TypeStep DEF IInv, TypeOK
  <2>3. \A q \in filed : q.id # r.id
    BY FS_CardinalityType DEF IInv, TypeOK, FiledInv, Request
  <2>4. \A d \in Calls : InHand(d)' = InHand(d)
    BY <1>12 DEF FileRequest, InHand, At, To, Idle, IInv, TypeOK
  <2>5. Open' = Open \cup {r}
    BY <2>1, <2>4 DEF Open
  <2>. QED BY <2>1, <2>2, <2>3, <2>5 DEF Held, Exchange!Next, Exchange!File, Exchange!Fresh
<1>13. ASSUME NEW c \in Calls, NEW r \in filed, BeginStore(c, r)
       PROVE  [Exchange!Next]_<<filed, Open, Held>>
  <2>1. Open' \subseteq Open /\ UNCHANGED <<filed, Held>>
    BY <1>13 DEF BeginStore, Open, InHand, At, To, Idle, Held, Take, History
  <2>. QED BY <2>1 DEF Exchange!Next, Exchange!Lose
<1>14. ASSUME NEW c \in Calls, Process(c)
       PROVE  [Exchange!Next]_<<filed, Open, Held>>
  <2>1. Open' \subseteq Open /\ UNCHANGED <<filed, Held>>
    BY <1>14 DEF Process, Open, InHand, At, To, Idle, Held, DB, History, Idle
  <2>. QED BY <2>1 DEF Exchange!Next, Exchange!Lose
<1>15. ASSUME NEW c \in Calls, InsertCredential(c)
       PROVE  [Exchange!Next]_<<filed, Open, Held>>
  <2>. DEFINE r == call[c].request
              k == [ id |-> Cardinality(creds) + 1, request |-> r.id,
                     secret |-> RowSecret(c), status |-> "active",
                     late |-> call[c].hw # wallet ]
  <2>1. creds' = creds \cup {k} /\ UNCHANGED <<filed, requests>>
    BY <1>15 DEF InsertCredential, History
  <2>2. r \in Request /\ r \in Open /\ r \notin requests
    BY <1>15 DEF InsertCredential, At, IInv, TypeOK, CallInv, Handling, Idle, Open, InHand
  <2>3. k.request = r.id /\ k.secret = r.secret
    BY <1>15 DEF InsertCredential, At, RowSecret, IInv, CallInv
  <2>4. Held' = Held \cup {[request |-> r.id, secret |-> r.secret]}
    BY <2>1, <2>3 DEF Held
  <2>5. InHand(c)' = {} /\ InHand(c) = {r}
    BY <1>15 DEF InsertCredential, InHand, At, To, Idle, IInv, TypeOK
  <2>6. \A d \in Calls \ {c} : InHand(d)' = InHand(d) /\ r \notin InHand(d)
    BY <1>15 DEF InsertCredential, InHand, At, To, Idle, IInv, TypeOK, ApartInv
  <2>7. Open' = Open \ {r}
    BY <2>1, <2>2, <2>5, <2>6 DEF Open
  <2>. QED BY <2>1, <2>2, <2>4, <2>7 DEF Exchange!Next, Exchange!Redeem
<1>16. CASE Restart
  <2>1. Open' \subseteq Open /\ UNCHANGED <<filed, Held>>
    BY <1>16 DEF Restart, DB, History, Idle, Open, InHand, Held
  <2>. QED BY <2>1 DEF Exchange!Next, Exchange!Lose
<1>. QED BY <1>0, <1>1, <1>2, <1>3, <1>4, <1>5, <1>6, <1>7, <1>8, <1>9, <1>10,
       <1>11, <1>12, <1>13, <1>14, <1>15, <1>16 DEF Next, Handle

\* Requests and stores, with their races and crashes, implement the one-shot
\* exchange of CredentialExchange (api/credentials.ts 32-155).
THEOREM ExchangeImplemented == Spec => ImplementsExchange
<1>1. Init => Exchange!Init
  BY DEF Init, Exchange!Init, Open, InHand, Held, Idle
<1>2. IInv /\ [Next]_vars => [Exchange!Next]_Exchange!vars
  BY ExchangeStep DEF Exchange!vars
<1>. QED BY <1>1, <1>2, WalletInvariant, PTL DEF Spec, Exchange!Spec,
       ImplementsExchange
==============================================================================
