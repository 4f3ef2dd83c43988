---------------------------- MODULE AgentAccount ----------------------------
(***************************************************************************)
(* The signer set of an AgentAccount contract: owners (ECDSA addresses) and *)
(* passkeys (WebAuthn credentials), each with the counter the contract keeps *)
(* beside its mapping.  Every operation is a guard, the negation of its     *)
(* reverts, and a function from the account's storage to its new storage.   *)
(***************************************************************************)
EXTENDS Integers, FiniteSets

CONSTANTS Owners, Passkeys

\* keys are the digests with a stored public key, registered those with the
\* flag; ownerCount and count are the contract's own counters; linked says
\* whether _delegationManager is the DelegationManager of this model.
Account ==
  [ owners : SUBSET Owners, ownerCount : Nat,
    keys : SUBSET Passkeys, registered : SUBSET Passkeys, count : Nat,
    linked : BOOLEAN ]

NoServer == {}  \* address(0) as server signer

\* initialize(initialOwner, serverSigner, dm); server has at most one element.
Initialized(owner, server, linked) ==
  [ owners |-> {owner} \cup server,
    ownerCount |-> IF server = NoServer \/ server = {owner} THEN 1 ELSE 2,
    keys |-> {}, registered |-> {}, count |-> 0, linked |-> linked ]

CanAddOwner(acct, o) == o \notin acct.owners
AddOwner(acct, o) ==
  [acct EXCEPT !.owners = @ \cup {o}, !.ownerCount = @ + 1]

CanRemoveOwner(acct, o) ==
  /\ o \in acct.owners
  /\ ~(acct.ownerCount = 1 /\ acct.count = 0)
RemoveOwner(acct, o) ==
  [acct EXCEPT !.owners = @ \ {o}, !.ownerCount = @ - 1]

CanAddPasskey(acct, k) == k \notin acct.registered
AddPasskey(acct, k) ==
  [acct EXCEPT !.keys = @ \cup {k}, !.registered = @ \cup {k}, !.count = @ + 1]

\* Mutation: the last signer is not protected.
CanRemovePasskeyLoose(acct, k) == k \in acct.registered

CanRemovePasskey(acct, k) ==
  /\ k \in acct.registered
  /\ acct.ownerCount + acct.count # 1

RemovePasskey(acct, k) ==
  [acct EXCEPT !.keys = @ \ {k}, !.registered = @ \ {k}, !.count = @ - 1]

SetDelegationManager(acct, linked) == [acct EXCEPT !.linked = linked]

\* _validateSig: an owner's ECDSA signature, or an assertion for a stored key.
IsSigner(acct, signer) == signer \in acct.owners \cup acct.keys

\* The calls an account may make to itself (onlySelf), and what they do.
SelfCall ==
  [ op : {"addOwner", "removeOwner"}, arg : Owners ] \cup
  [ op : {"addPasskey", "removePasskey"}, arg : Passkeys ]

Allows(acct, call) ==
  CASE call.op = "addOwner"      -> CanAddOwner(acct, call.arg)
    [] call.op = "removeOwner"   -> CanRemoveOwner(acct, call.arg)
    [] call.op = "addPasskey"    -> CanAddPasskey(acct, call.arg)
    [] call.op = "removePasskey" -> CanRemovePasskey(acct, call.arg)

After(acct, call) ==
  CASE call.op = "addOwner"      -> AddOwner(acct, call.arg)
    [] call.op = "removeOwner"   -> RemoveOwner(acct, call.arg)
    [] call.op = "addPasskey"    -> AddPasskey(acct, call.arg)
    [] call.op = "removePasskey" -> RemovePasskey(acct, call.arg)

-----------------------------------------------------------------------------
\* The counters agree with the mappings, a public key is stored exactly for the
\* registered credentials, and somebody can still sign: "a passkey-only account
\* is allowed, but a zero-signer account is not".
SignersSound(acct) ==
  /\ acct.ownerCount = Cardinality(acct.owners)
  /\ acct.count = Cardinality(acct.registered)
  /\ acct.keys = acct.registered
  /\ acct.owners \cup acct.keys # {}
=============================================================================
