-------------------------- MODULE GuardedRecovery --------------------------
(***************************************************************************)
(* What guardian recovery promises an account owner: an intent runs at most *)
(* once, and only when one policy of the owner's, with its own guardians,   *)
(* threshold and delay, has both been backed by that many of them and left  *)
(* the intent open to cancellation for that long.  An intent that stands    *)
(* proposed may also be spent by anybody without running, and then never    *)
(* runs (enforcers/RecoveryEnforcer.sol).                                   *)
(***************************************************************************)
EXTENDS Naturals, FiniteSets

CONSTANTS
  Intents,
  Guardians,
  Policies   \* Policies[i]: the recovery policies that cover the intent

VARIABLES
  now,
  pending,   \* pending[i]: since when the intent is pending, 0 when it is not
  endorsed,  \* who has signed which intent
  spent,     \* the intents that cannot run any more
  runs       \* runs[i]: how often the intent has run

vars == << now, pending, endorsed, spent, runs >>

Init ==
  /\ now \in Nat \ {0}
  /\ pending = [i \in Intents |-> 0]
  /\ endorsed = {}
  /\ spent = {}
  /\ runs = [i \in Intents |-> 0]

\* A second proposal does not restart the time the owner has had.
Propose(i) ==
  /\ pending[i] = 0
  /\ pending' = [pending EXCEPT ![i] = now]
  /\ UNCHANGED << now, endorsed, spent, runs >>

Cancel(i) ==
  /\ pending' = [pending EXCEPT ![i] = 0]
  /\ UNCHANGED << now, endorsed, spent, runs >>

Endorse(g, i) ==
  /\ endorsed' = endorsed \cup { << g, i >> }
  /\ UNCHANGED << now, pending, spent, runs >>

Spend(i) ==
  /\ pending[i] # 0
  /\ spent' = spent \cup {i}
  /\ UNCHANGED << now, pending, endorsed, runs >>

Ripe(i, policy) == pending[i] # 0 /\ now >= pending[i] + policy.delay

Backed(i, policy) ==
  /\ policy.threshold > 0
  /\ Cardinality({ g \in policy.guardians : << g, i >> \in endorsed })
       >= policy.threshold

\* One transaction may carry recoveries of several accounts.
Run(S) ==
  /\ S \cap spent = {}
  /\ \A i \in S : \E policy \in Policies[i] : Ripe(i, policy) /\ Backed(i, policy)
  /\ spent' = spent \cup S
  /\ runs' = [i \in Intents |-> IF i \in S THEN runs[i] + 1 ELSE runs[i]]
  /\ UNCHANGED << now, pending, endorsed >>

Tick ==
  /\ now' = now + 1
  /\ UNCHANGED << pending, endorsed, spent, runs >>

Next ==
  \/ \E i \in Intents : Propose(i) \/ Cancel(i) \/ Spend(i)
  \/ \E g \in Guardians, i \in Intents : Endorse(g, i)
  \/ \E S \in SUBSET Intents : Run(S)
  \/ Tick

Spec == Init /\ [][Next]_vars
=============================================================================
