---------------------------- MODULE OwnerCouncil ----------------------------
(***************************************************************************)
(* What AgentControl promises the owners of an agent: a council whose       *)
(* members, one vote each, pass a proposal when as many of them as the      *)
(* quorum has voted for it. Here members, ballots and what has passed are   *)
(* sets; there is no array, counter or index (contracts/src/AgentControl.sol). *)
(***************************************************************************)
EXTENDS Integers, Sequences, FiniteSets

CONSTANT Users

VARIABLES
  members,
  seats,     \* how many members the council waits for before it votes
  quorum,
  forming,   \* it still waits for them
  ballots,   \* ballots[p]: who has voted for p
  passed     \* the proposals passed

vars == << members, seats, quorum, forming, ballots, passed >>

Init ==
  /\ members = {}
  /\ seats = 0
  /\ quorum = 0
  /\ forming = FALSE
  /\ ballots = << >>
  /\ passed = {}

Found(user) ==
  /\ members = {}
  /\ members' = {user}
  /\ seats' \in Nat
  /\ quorum' \in Nat \ {0}
  /\ forming' = (seats' > 1)
  /\ UNCHANGED << ballots, passed >>

Join(user) ==
  /\ members # {}
  /\ user \notin members
  /\ members' = members \cup {user}
  /\ forming' = (forming /\ Cardinality(members') < seats)
  /\ UNCHANGED << seats, quorum, ballots, passed >>

\* The last member stays, and the quorum never outgrows the members that were
\* enough for it.
Leave(user) ==
  /\ user \in members
  /\ members # {user}
  /\ members' = members \ {user}
  /\ quorum' = IF quorum > Cardinality(members') THEN Cardinality(members') ELSE quorum
  /\ UNCHANGED << seats, forming, ballots, passed >>

SetQuorum ==
  /\ members # {}
  /\ quorum' \in 1 .. Cardinality(members)
  /\ UNCHANGED << members, seats, forming, ballots, passed >>

\* p passes with the votes it has now, if they are enough.
Count(p) ==
  passed' = IF Cardinality(ballots'[p]) >= quorum THEN passed \cup {p} ELSE passed

Open(user) ==
  /\ user \in members
  /\ ~forming
  /\ ballots' = Append(ballots, {user})
  /\ Count(Len(ballots'))
  /\ UNCHANGED << members, seats, quorum, forming >>

Vote(user, p) ==
  /\ user \in members
  /\ ~forming
  /\ p \notin passed
  /\ user \notin ballots[p]
  /\ ballots' = [ballots EXCEPT ![p] = @ \cup {user}]
  /\ Count(p)
  /\ UNCHANGED << members, seats, quorum, forming >>

Next ==
  \/ \E user \in Users : Found(user) \/ Join(user) \/ Leave(user) \/ Open(user)
  \/ \E user \in Users, p \in DOMAIN ballots : Vote(user, p)
  \/ SetQuorum

Spec == Init /\ [][Next]_vars
=============================================================================
