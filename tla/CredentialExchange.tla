------------------------- MODULE CredentialExchange -------------------------
(***************************************************************************)
(* What the holder's half of a credential exchange promises: a request is  *)
(* filed once, stays open, and is then either redeemed for one credential, *)
(* under the secret it was filed with, or lost. It never opens again       *)
(* (apps/person-mcp/src/ssi/api/credentials.ts).                           *)
(***************************************************************************)
CONSTANT Requests \* requests that may be filed, each with an id and a secret

VARIABLES
  filed, \* every request filed so far
  open,  \* those that can still be redeemed
  held   \* the credentials, as the id and the secret of their request

vars == <<filed, open, held>>

Init == filed = {} /\ open = {} /\ held = {}

Fresh(r) == \A q \in filed : q.id # r.id

File(r) ==
  /\ Fresh(r)
  /\ filed' = filed \cup {r}
  /\ open' = open \cup {r}
  /\ UNCHANGED held

Redeem(r) ==
  /\ r \in open
  /\ open' = open \ {r}
  /\ held' = held \cup {[request |-> r.id, secret |-> r.secret]}
  /\ UNCHANGED filed

Lose ==
  /\ open' \subseteq open
  /\ UNCHANGED <<filed, held>>

Next == (\E r \in Requests : File(r) \/ Redeem(r)) \/ Lose

Spec == Init /\ [][Next]_vars
=============================================================================
