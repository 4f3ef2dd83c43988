--------------------------- MODULE DelegatedTokens ---------------------------
(***************************************************************************)
(* What delegation tokens promise the accounts they speak for: a key acts   *)
(* under a delegation that its own account gave to that very key, a token   *)
(* is asked for only while the key holds one, is minted once for what was   *)
(* asked, speaks for that account, is admitted only while its delegation is *)
(* not withdrawn, and is good for a limited number of uses. There are no    *)
(* challenges, rows, packages, clocks or chain calls here (apps/a2a-agent   *)
(* and person-mcp's verify-delegation).                                     *)
(***************************************************************************)
EXTENDS Naturals

CONSTANTS
  Accounts, Keys, Tokens,
  Delegation, \* records with a delegator, an account, and a delegate, a key
  Reqs,       \* requests for tokens, and uses being decided
  Limit       \* uses a token is good for

VARIABLES
  holder,    \* holder[k]: empty, or the account the key was made for
  grant,     \* grant[k]: empty, or the delegation the key acts under
  asked,     \* asked[r]: empty, or the delegation and owner of the token to come
  minted,    \* minted[t]: empty, or the delegation of the token and its owner
  withdrawn, \* delegations withdrawn
  admitted,  \* admitted[r]: empty, or the token whose use is being decided
  uses       \* uses[t]: how often the token was accepted

vars == << holder, grant, asked, minted, withdrawn, admitted, uses >>

Init ==
  /\ holder = [k \in Keys |-> {}]
  /\ grant = [k \in Keys |-> {}]
  /\ asked = [r \in Reqs |-> {}]
  /\ minted = [t \in Tokens |-> {}]
  /\ withdrawn = {}
  /\ admitted = [r \in Reqs |-> {}]
  /\ uses = [t \in Tokens |-> 0]

Make(k, a) ==
  /\ holder[k] = {}
  /\ holder' = [holder EXCEPT ![k] = {a}]
  /\ UNCHANGED << grant, asked, minted, withdrawn, admitted, uses >>

\* Of delegations given at the same time the last counts, also after a release.
Give(k, d) ==
  /\ d.delegate = k
  /\ holder[k] = {d.delegator}
  /\ grant' = [grant EXCEPT ![k] = {d}]
  /\ UNCHANGED << holder, asked, minted, withdrawn, admitted, uses >>

Release(k) ==
  /\ grant' = [grant EXCEPT ![k] = {}]
  /\ UNCHANGED << holder, asked, minted, withdrawn, admitted, uses >>

Ask(r, k) ==
  /\ \E d \in grant[k] :
       asked' = [asked EXCEPT ![r] = { [delegation |-> d, owner |-> d.delegator] }]
  /\ UNCHANGED << holder, grant, minted, withdrawn, admitted, uses >>

\* The key may have been released since.
Mint(r, t) ==
  /\ minted[t] = {} /\ asked[r] # {}
  /\ minted' = [minted EXCEPT ![t] = asked[r]]
  /\ asked' = [asked EXCEPT ![r] = {}]
  /\ UNCHANGED << holder, grant, withdrawn, admitted, uses >>

Withdraw(d) ==
  /\ withdrawn' = withdrawn \cup {d}
  /\ UNCHANGED << holder, grant, asked, minted, admitted, uses >>

Admit(r, t) ==
  /\ \E m \in minted[t] : m.delegation \notin withdrawn
  /\ admitted' = [admitted EXCEPT ![r] = {t}]
  /\ UNCHANGED << holder, grant, asked, minted, withdrawn, uses >>

Without(f, R) == [r \in Reqs |-> IF r \in R THEN {} ELSE f[r]]

\* The requests of R are refused, or nobody hears of them again.
Drop(R) ==
  /\ asked' = Without(asked, R) /\ admitted' = Without(admitted, R)
  /\ UNCHANGED << holder, grant, minted, withdrawn, uses >>

Accept(r) ==
  /\ \E t \in admitted[r] : uses[t] < Limit /\ uses' = [uses EXCEPT ![t] = @ + 1]
  /\ admitted' = Without(admitted, {r})
  /\ UNCHANGED << holder, grant, asked, minted, withdrawn >>

Next ==
  \/ \E k \in Keys, a \in Accounts : Make(k, a)
  \/ \E k \in Keys, d \in Delegation : Give(k, d)
  \/ \E k \in Keys : Release(k) \/ \E r \in Reqs : Ask(r, k)
  \/ \E d \in Delegation : Withdraw(d)
  \/ \E r \in Reqs : Accept(r) \/ \E t \in Tokens : Mint(r, t) \/ Admit(r, t)
  \/ \E R \in SUBSET Reqs : Drop(R)

Spec == Init /\ [][Next]_vars
=============================================================================
