---------------------------- MODULE MCRedemption ----------------------------
(***************************************************************************)
(* TLC instances of Redemption: an agent account, two addresses without     *)
(* code, and a delegation for each way through redeemDelegation.            *)
(***************************************************************************)
EXTENDS Redemption, TLC

CONSTANTS acct, g1, g2, o1, o2, k1

NoCaveats == [ delegator |-> acct, delegate |-> g1, authority |-> Root,
               signer |-> o1, calls |-> {Other}, caveats |-> << >> ]

Limit(key, max, window) ==
  [kind |-> "rate", scopeKey |-> key, max |-> max, window |-> window]
Guard(guardians, threshold, delay) ==
  [kind |-> "recovery", guardians |-> guardians, threshold |-> threshold, delay |-> delay]

RemoveOwner1 == [op |-> "removeOwner", arg |-> o1]
AddPasskey1 == [op |-> "addPasskey", arg |-> k1]
MCCalls == { Other, RemoveOwner1, AddPasskey1, [op |-> "addOwner", arg |-> o2],
             [op |-> "removePasskey", arg |-> k1] }

\* Two recoveries of the same call with different delays, one of them open to
\* anyone and rate-limited as well, signed by different keys, one delay beyond
\* the width the enforcer keeps; a rate-limited delegation, and a redelegation of
\* it by an address without code to the account.
MCDelegation ==
  [ h \in {"fast", "slow", "root", "leaf"} |->
    CASE h = "fast" -> [ NoCaveats EXCEPT
           !.delegate = Open, !.calls = {AddPasskey1},
           !.caveats = << Limit("burst", 1, 2), Guard({g1, g2}, 2, 1) >> ]
      [] h = "slow" -> [ NoCaveats EXCEPT
           !.signer = o2, !.calls = {AddPasskey1},
           !.caveats = << Guard({g1}, 1, 6) >> ]
      [] h = "root" -> [ NoCaveats EXCEPT !.caveats = << Limit("burst", 2, 2) >> ]
      [] h = "leaf" -> [ NoCaveats EXCEPT
           !.delegator = g1, !.signer = g1, !.delegate = acct, !.authority = "root" ] ]

MCChains == { << "fast" >>, << "slow" >>, << "slow", "fast" >>,
              << "root" >>, << "leaf", "root" >> }

\* A stranger's terms for the bucket of root.
MCHookTerms == [ h \in {"fast", "slow", "root", "leaf"} |->
                 IF h = "root" THEN { Limit("burst", 2, 1) } ELSE {} ]

\* Bounds of the run: one revocation, and four calls counted by a bucket.
Bounded ==
  /\ revoked \subseteq {"fast"}
  /\ \A h \in Hashes, key \in ScopeKeys : Len(store.buckets[h][key].times) <= 4
=============================================================================
