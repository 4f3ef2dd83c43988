---------------------------- MODULE OneUseActions ----------------------------
(***************************************************************************)
(* What delegated session signing promises the account holder: an action is *)
(* accepted once, for the account that gave the session its grant, and only *)
(* after it was admitted while the session was open and its grant of the    *)
(* account's present generation. There are no clocks, nonce tables, logs or *)
(* tokens here (apps/person-mcp/src/auth/verify-delegated-action.ts).       *)
(***************************************************************************)
EXTENDS Naturals

CONSTANTS Accounts, Sessions, Nonces,
          Reqs \* verifications in flight

VARIABLES
  generation, \* generation[a]: grows with the panic button
  grant,      \* grant[s]: empty, or the one grant of the session
  closed,     \* the sessions revoked
  admitted,   \* admitted[r]: empty, or the use being decided
  accepted    \* accepted[u]: how often the use was accepted

vars == << generation, grant, closed, admitted, accepted >>

Use == [account : Accounts, sid : Sessions, nonce : Nonces]

Init ==
  /\ generation = [a \in Accounts |-> 0]
  /\ grant = [s \in Sessions |-> {}]
  /\ closed = {}
  /\ admitted = [r \in Reqs |-> {}]
  /\ accepted = [u \in Use |-> 0]

\* The verifications of R end without an answer, or with a refusal.
Dropped(R) == [r \in Reqs |-> IF r \in R THEN {} ELSE admitted[r]]

Drop(R) ==
  /\ admitted' = Dropped(R)
  /\ UNCHANGED << generation, grant, closed, accepted >>

\* A session gets its grant, perhaps one that was outdated in the meantime.
Give(s, a) ==
  /\ grant[s] = {}
  /\ \E g \in 0 .. generation[a] :
       grant' = [grant EXCEPT ![s] = { [account |-> a, generation |-> g] }]
  /\ admitted' \in { admitted, Dropped(Reqs) }
  /\ UNCHANGED << generation, closed, accepted >>

Close(s) ==
  /\ closed' = closed \cup {s}
  /\ UNCHANGED << generation, grant, admitted, accepted >>

Panic(a) ==
  /\ generation' = [generation EXCEPT ![a] = @ + 1]
  /\ UNCHANGED << grant, closed, admitted, accepted >>

Admit(r, use) ==
  /\ admitted[r] = {}
  /\ use.sid \notin closed
  /\ grant[use.sid] =
       { [account |-> use.account, generation |-> generation[use.account]] }
  /\ admitted' = [admitted EXCEPT ![r] = {use}]
  /\ UNCHANGED << generation, grant, closed, accepted >>

Accept(r) ==
  \E use \in admitted[r] :
    /\ \A u \in Use : u.account = use.account /\ u.nonce = use.nonce => accepted[u] = 0
    /\ accepted' = [accepted EXCEPT ![use] = @ + 1]
    /\ admitted' = Dropped({r})
    /\ UNCHANGED << generation, grant, closed >>

Next ==
  \/ \E s \in Sessions : Close(s) \/ \E a \in Accounts : Give(s, a)
  \/ \E a \in Accounts : Panic(a)
  \/ \E r \in Reqs : Drop({r}) \/ Accept(r) \/ \E use \in Use : Admit(r, use)
  \/ Drop(Reqs)

Spec == Init /\ [][Next]_vars
=============================================================================
