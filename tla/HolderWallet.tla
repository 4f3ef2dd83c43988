---------------------------- MODULE HolderWallet ----------------------------
(***************************************************************************)
(* The holder wallet of one (principal, context) in person-mcp: creation,  *)
(* rotation of its link secret, credential requests and the storing of     *)
(* issued credentials (apps/person-mcp/src/ssi: api/wallet.ts,             *)
(* api/credentials.ts, auth/verify-wallet-action.ts, storage/), and the    *)
(* dispatched variants of auth/dispatch-routes.ts.                         *)
(*                                                                         *)
(* Handlers run on one event loop and give way at every await; each action *)
(* is the code between two of them. The vault and the tables are SQLite    *)
(* files whose statements commit one by one. AnonCreds is external: a      *)
(* credential can be processed with the secret its request was made with.  *)
(***************************************************************************)
EXTENDS Integers, FiniteSets

CONSTANTS Calls,       \* calls being handled at one time
          Nonces,      \* nonces of signed wallet actions
          NoWallet,    \* the pair has no row in holder_wallets
          MaxSecrets,  \* bound on the link secrets made
          MaxRequests  \* bound on the credential requests filed

ASSUME WalletAssumption ==
  /\ MaxSecrets \in Nat /\ MaxRequests \in Nat
  /\ NoWallet \notin Nat

VARIABLES
  wallet,    \* holder_wallets.link_secret_id of the pair, or NoWallet
  vault,     \* the link secrets in the pair's vault profile
  requests,  \* its credential requests: the blinding metadata, by requestId
  creds,     \* credential_metadata
  used,      \* action_nonces
  call,      \* the calls being handled
  made,      \* the link secrets made so far
  filed,     \* history: every request filed, with its secret
  unmarked   \* history: secrets replaced by a rotation that marked another

vars == <<wallet, vault, requests, creds, used, call, made, filed, unmarked>>

Secret == 1 .. MaxSecrets
Request == [id : 1 .. MaxRequests, secret : Secret]
\* late (history): the secret had been replaced when the row was inserted.
Credential == [ id : 1 .. MaxRequests, request : 1 .. MaxRequests, secret : Secret,
                status : {"active", "stale"}, late : BOOLEAN ]
Idle == [at |-> "idle"]
Handling ==
       [at : {"gate"}, op : {"provision", "rotate", "request"}, hw : Secret \cup {NoWallet}]
  \cup [at : {"profile"}]
  \cup [at : {"keyed"}, new : Secret]
  \cup [at : {"rotating"}, hw : Secret, new : Secret]
  \cup [at : {"asking"}, hw : Secret]
  \cup [at : {"taken", "processed"}, hw : Secret, request : Request]

TypeOK ==
  /\ wallet \in Secret \cup {NoWallet}
  /\ vault \subseteq Secret
  /\ requests \subseteq filed /\ filed \subseteq Request
  /\ creds \subseteq Credential
  /\ used \subseteq Nonces
  /\ call \in [Calls -> Handling \cup {Idle}]
  /\ made \in 0 .. MaxSecrets
  /\ unmarked \subseteq Secret

Init ==
  /\ wallet = NoWallet /\ vault = {} /\ requests = {} /\ creds = {} /\ used = {}
  /\ call = [c \in Calls |-> Idle]
  /\ made = 0 /\ filed = {} /\ unmarked = {}

To(c, r) == call' = [call EXCEPT ![c] = r]
At(c, step) == call[c].at = step
DB == <<wallet, requests, creds, used>>
History == <<filed, unmarked>>

-----------------------------------------------------------------------------
(* The gate.                                                               *)

\* A signed call looks its wallet up, then waits for the signature check.
\* Provisioning goes on only while there is no wallet; the rest need one.
Begin(c, op) ==
  /\ At(c, "idle")
  /\ (op = "provision") = (wallet = NoWallet)
  /\ To(c, [at |-> "gate", op |-> op, hw |-> wallet])
  /\ UNCHANGED <<DB, vault, made, History>>

\* The signature holds: the nonce is inserted, unless the table has it.
Spend(n) == n \notin used /\ used' = used \cup {n}

\* gateProvisionAction, then createProfile.
PassProvision(c, n) ==
  /\ At(c, "gate") /\ call[c].op = "provision"
  /\ Spend(n)
  /\ To(c, [at |-> "profile"])
  /\ UNCHANGED <<wallet, vault, requests, creds, made, History>>

\* gateExistingWalletAction, then the new secret goes into the vault.
PassRotate(c, n) ==
  /\ At(c, "gate") /\ call[c].op = "rotate"
  /\ made < MaxSecrets
  /\ Spend(n)
  /\ made' = made + 1
  /\ vault' = vault \cup {made'}
  /\ To(c, [at |-> "rotating", hw |-> call[c].hw, new |-> made'])
  /\ UNCHANGED <<wallet, requests, creds, History>>

PassRequest(c, n) ==
  /\ At(c, "gate") /\ call[c].op = "request"
  /\ Spend(n)
  /\ To(c, [at |-> "asking", hw |-> call[c].hw])
  /\ UNCHANGED <<wallet, vault, requests, creds, made, History>>

\* A dispatched call was verified before it looks the wallet up.
DispatchProvision(c) ==
  /\ At(c, "idle") /\ wallet = NoWallet
  /\ To(c, [at |-> "profile"])
  /\ UNCHANGED <<DB, vault, made, History>>

DispatchRequest(c) ==
  /\ At(c, "idle") /\ wallet # NoWallet
  /\ To(c, [at |-> "asking", hw |-> wallet])
  /\ UNCHANGED <<DB, vault, made, History>>

\* A bad signature, a used nonce, or a credential definition that does not
\* load. What a store took is not put back.
Refuse(c) ==
  /\ call[c].at \in {"gate", "asking", "taken"}
  /\ To(c, Idle)
  /\ UNCHANGED <<DB, vault, made, History>>

-----------------------------------------------------------------------------
(* The wallet.                                                             *)

\* putLinkSecret of the provisioning.
PutSecret(c) ==
  /\ At(c, "profile") /\ made < MaxSecrets
  /\ made' = made + 1
  /\ vault' = vault \cup {made'}
  /\ To(c, [at |-> "keyed", new |-> made'])
  /\ UNCHANGED <<DB, History>>

\* Mutation: INSERT OR REPLACE.
NewRowReplacing(c) == wallet' = call[c].new

\* UNIQUE (person_principal, wallet_context): the later insert throws.
NewRow(c) == wallet' = IF wallet = NoWallet THEN call[c].new ELSE wallet

InsertWallet(c) ==
  /\ At(c, "keyed")
  /\ NewRow(c)
  /\ To(c, Idle)
  /\ UNCHANGED <<vault, requests, creds, used, made, History>>

\* Mutation: the mark is for the new secret.
MarkedNew(c) ==
  {IF k.secret = call[c].new /\ k.status = "active" THEN [k EXCEPT !.status = "stale"]
                                                    ELSE k : k \in creds}

\* markCredentialsStaleForLinkSecret, for the secret read at the gate.
Marked(c) ==
  {IF k.secret = call[c].hw /\ k.status = "active" THEN [k EXCEPT !.status = "stale"]
                                                   ELSE k : k \in creds}

\* updateHolderLinkSecret and the mark, with no await between them.
Rotate(c) ==
  /\ At(c, "rotating")
  /\ wallet' = call[c].new
  /\ creds' = Marked(c)
  /\ unmarked' = unmarked \cup ({wallet} \ {call[c].hw})
  /\ To(c, Idle)
  /\ UNCHANGED <<vault, requests, used, made, filed>>

\* The process dies between the two statements.
RotateTorn(c) ==
  /\ At(c, "rotating")
  /\ wallet' = call[c].new
  /\ unmarked' = unmarked \cup {wallet}
  /\ call' = [d \in Calls |-> Idle]
  /\ UNCHANGED <<vault, requests, creds, used, made, filed>>

-----------------------------------------------------------------------------
(* Credentials.                                                            *)

\* The request is made with the secret read at the gate, and filed.
FileRequest(c) ==
  /\ At(c, "asking") /\ Cardinality(filed) < MaxRequests
  /\ LET r == [id |-> Cardinality(filed) + 1, secret |-> call[c].hw]
     IN  requests' = requests \cup {r} /\ filed' = filed \cup {r}
  /\ To(c, Idle)
  /\ UNCHANGED <<wallet, vault, creds, used, made, unmarked>>

\* Mutation: the request is read and left in the vault.
TakeKeeping(r) == r \in requests /\ UNCHANGED requests

\* takeCredentialRequestMeta: read and removed in one turn.
Take(r) == r \in requests /\ requests' = requests \ {r}

\* /credentials/store: look the wallet up and take the request.
BeginStore(c, r) ==
  /\ At(c, "idle") /\ wallet # NoWallet
  /\ Take(r)
  /\ To(c, [at |-> "taken", hw |-> wallet, request |-> r])
  /\ UNCHANGED <<wallet, vault, creds, used, made, History>>

\* The credential is processed with the secret of the wallet as looked up,
\* which must be the request's, and put into the vault.
Process(c) ==
  /\ At(c, "taken")
  /\ To(c, IF call[c].hw = call[c].request.secret
             THEN [call[c] EXCEPT !.at = "processed"] ELSE Idle)
  /\ UNCHANGED <<DB, vault, made, History>>

\* Mutation: the row is given the wallet's secret of this moment.
RowSecretNow(c) == wallet

\* The row is given the secret of the wallet as it was looked up.
RowSecret(c) == call[c].hw

InsertCredential(c) ==
  /\ At(c, "processed") /\ Cardinality(creds) < MaxRequests
  /\ creds' = creds \cup
       {[ id |-> Cardinality(creds) + 1, request |-> call[c].request.id,
          secret |-> RowSecret(c), status |-> "active", late |-> call[c].hw # wallet ]}
  /\ To(c, Idle)
  /\ UNCHANGED <<wallet, vault, requests, used, made, History>>

-----------------------------------------------------------------------------
\* The process dies: tables and vault stay.
Restart ==
  /\ call' = [c \in Calls |-> Idle]
  /\ UNCHANGED <<DB, vault, made, History>>

Handle(c) ==
  \/ \E op \in {"provision", "rotate", "request"} : Begin(c, op)
  \/ \E n \in Nonces : PassProvision(c, n) \/ PassRotate(c, n) \/ PassRequest(c, n)
  \/ DispatchProvision(c) \/ DispatchRequest(c) \/ Refuse(c)
  \/ PutSecret(c) \/ InsertWallet(c) \/ Rotate(c) \/ RotateTorn(c)
  \/ FileRequest(c)
  \/ \E r \in filed : BeginStore(c, r)
  \/ Process(c) \/ InsertCredential(c)

Next == (\E c \in Calls : Handle(c)) \/ Restart

Spec == Init /\ [][Next]_vars

-----------------------------------------------------------------------------
(* Properties.                                                             *)

\* A credential shown as active is bound to the wallet's secret, unless its
\* secret was replaced while it was being stored, by a rotation that had
\* looked the wallet up before another one, or by one cut off by a crash: the
\* three ways in which "every credential bound to the old secret" is not
\* marked stale (api/wallet.ts 121-122).
ActiveIsCurrent ==
  \A k \in creds :
    k.status = "active" => k.secret = wallet \/ k.late \/ k.secret \in unmarked

\* One request gives at most one credential, however often and however
\* concurrently it is stored (api/credentials.ts 94-96, "one-shot").
OneCredentialPerRequest ==
  \A k, l \in creds : k.request = l.request => k = l

\* A credential is filed under the secret its request was made with, though
\* request and store are separate calls and rotations come between them.
BoundToItsRequest ==
  \A k \in creds : \E r \in filed : r.id = k.request /\ r.secret = k.secret

\* A wallet keeps its secret through provisionings that raced its own: only a
\* rotation replaces it, and the secret it names is always in the vault.
ProvisioningKeepsWallet ==
  [][/\ wallet' = NoWallet \/ wallet' \in vault'
     /\ wallet # NoWallet /\ wallet' # wallet =>
          \E c \in Calls : At(c, "rotating") /\ wallet' = call[c].new]_vars

-----------------------------------------------------------------------------
(* The exchange this implements: a request is open while it is in the      *)
(* vault, or in the hands of a store that has not given it up.             *)

InHand(c) == IF call[c].at \in {"taken", "processed"} THEN {call[c].request} ELSE {}

Open == requests \cup UNION {InHand(c) : c \in Calls}

Held == {[request |-> k.request, secret |-> k.secret] : k \in creds}

Exchange == INSTANCE CredentialExchange WITH
  Requests <- Request, filed <- filed, open <- Open, held <- Held

\* Request, store, their races and crashes implement the one-shot exchange:
\* every step files, redeems or loses requests of CredentialExchange.
ImplementsExchange == Exchange!Spec
=============================================================================
