---------------------------- MODULE AgentControl ----------------------------
(***************************************************************************)
(* The AgentControl contract: the owners of an agent, the quorum, and the   *)
(* proposals the owners approve.  The storage of different agents is        *)
(* disjoint, so the module is about one agent.                              *)
(*                                                                          *)
(* A transaction is atomic and a reverted one changes nothing, so each      *)
(* action is one successful call by msg.sender, named sender.  What a       *)
(* proposal is for (its class and data) decides nothing here and is left    *)
(* out.                                                                     *)
(***************************************************************************)
EXTENDS Integers, Sequences, FiniteSets

CONSTANTS
  Users,         \* addresses
  Sizes,         \* the values callers pass for minOwners and quorum
  MaxProposals   \* bound on the length of _proposals

ASSUME SizesAssumption == Sizes \subseteq Nat /\ MaxProposals \in Nat

VARIABLES
  initialized,   \* _initialized
  config,        \* _configs
  owners,        \* _owners, an array
  isOwner,       \* the users whose _isOwner is set
  proposals,     \* _proposals, indexed from 1
  votes          \* votes[p]: the users whose vote on p is set

vars == << initialized, config, owners, isOwner, proposals, votes >>

Config == [minOwners : Nat, quorum : Nat, isBootstrap : BOOLEAN]
Proposal == [proposer : Users, status : {"pending", "executed"}, approvalCount : Nat]

TypeOK ==
  /\ initialized \in BOOLEAN
  /\ config \in Config
  /\ owners \in Seq(Users)
  /\ isOwner \subseteq Users
  /\ proposals \in Seq(Proposal)
  /\ votes \in Seq(SUBSET Users)
  /\ Len(votes) = Len(proposals)

Init ==
  /\ initialized = FALSE
  /\ config = [minOwners |-> 0, quorum |-> 0, isBootstrap |-> FALSE]
  /\ owners = << >>
  /\ isOwner = {}
  /\ proposals = << >>
  /\ votes = << >>

-----------------------------------------------------------------------------

\* The first caller owns the agent; nothing compares quorum with minOwners.
InitializeAgent(sender, minOwners, quorum) ==
  /\ ~initialized
  /\ quorum # 0
  /\ initialized' = TRUE
  /\ config' = [minOwners |-> minOwners, quorum |-> quorum, isBootstrap |-> minOwners > 1]
  /\ owners' = Append(owners, sender)
  /\ isOwner' = isOwner \cup {sender}
  /\ UNCHANGED << proposals, votes >>

\* _requireOwner.
Owns(sender) == initialized /\ sender \in isOwner

\* Mutation: bootstrap ends one owner late.
AddOwnerLate(sender, newOwner) ==
  /\ Owns(sender)
  /\ newOwner \notin isOwner
  /\ owners' = Append(owners, newOwner)
  /\ isOwner' = isOwner \cup {newOwner}
  /\ config' = [config EXCEPT !.isBootstrap = @ /\ Len(owners) < config.minOwners]
  /\ UNCHANGED << initialized, proposals, votes >>

AddOwner(sender, newOwner) ==
  /\ Owns(sender)
  /\ newOwner \notin isOwner
  /\ owners' = Append(owners, newOwner)
  /\ isOwner' = isOwner \cup {newOwner}
  /\ config' = [config EXCEPT !.isBootstrap = @ /\ Len(owners) + 1 < config.minOwners]
  /\ UNCHANGED << initialized, proposals, votes >>

\* Mutation: the last owner is popped, whoever it is.
PopLast(s, owner) == SubSeq(s, 1, Len(s) - 1)

\* The array with its last element moved over the removed one.
SwapAndPop(s, owner) ==
  LET k == CHOOSE k \in DOMAIN s : s[k] = owner
  IN  SubSeq([s EXCEPT ![k] = s[Len(s)]], 1, Len(s) - 1)

\* Mutation: the quorum is left as it was.
Unclamped(quorum, size) == quorum

Clamped(quorum, size) == IF quorum > size THEN size ELSE quorum

RemoveOwner(sender, owner) ==
  /\ Owns(sender)
  /\ owner \in isOwner
  /\ Len(owners) > 1
  /\ isOwner' = isOwner \ {owner}
  /\ owners' = SwapAndPop(owners, owner)
  /\ config' = [config EXCEPT !.quorum = Clamped(@, Len(owners) - 1)]
  /\ UNCHANGED << initialized, proposals, votes >>

SetQuorum(sender, quorum) ==
  /\ Owns(sender)
  /\ quorum \in 1 .. Len(owners)
  /\ config' = [config EXCEPT !.quorum = quorum]
  /\ UNCHANGED << initialized, owners, isOwner, proposals, votes >>

\* Mutation: one approval too few is enough.
DecidedEarly(count) == IF count + 1 >= config.quorum THEN "executed" ELSE "pending"

\* The status of a proposal that has just been approved for the count-th time.
Decided(count) == IF count >= config.quorum THEN "executed" ELSE "pending"

CreateProposal(sender) ==
  /\ Owns(sender)
  /\ ~config.isBootstrap
  /\ Len(proposals) < MaxProposals
  /\ proposals' = Append(proposals,
       [proposer |-> sender, status |-> Decided(1), approvalCount |-> 1])
  /\ votes' = Append(votes, {sender})
  /\ UNCHANGED << initialized, config, owners, isOwner >>

\* Mutation: AlreadyVoted is not checked.
MayVoteAgain(sender, p) ==
  Owns(sender) /\ p \in DOMAIN proposals /\ proposals[p].status = "pending"

MayVote(sender, p) ==
  /\ Owns(sender)
  /\ p \in DOMAIN proposals
  /\ proposals[p].status = "pending"
  /\ sender \notin votes[p]

ApproveProposal(sender, p) ==
  /\ MayVote(sender, p)
  /\ votes' = [votes EXCEPT ![p] = @ \cup {sender}]
  /\ proposals' = [proposals EXCEPT
       ![p].approvalCount = @ + 1,
       ![p].status = Decided(proposals[p].approvalCount + 1)]
  /\ UNCHANGED << initialized, config, owners, isOwner >>

Next ==
  \E sender \in Users :
    \/ \E minOwners, quorum \in Sizes : InitializeAgent(sender, minOwners, quorum)
    \/ \E user \in Users : AddOwner(sender, user) \/ RemoveOwner(sender, user)
    \/ \E quorum \in Sizes : SetQuorum(sender, quorum)
    \/ CreateProposal(sender)
    \/ \E p \in 1 .. MaxProposals : ApproveProposal(sender, p)

Spec == Init /\ [][Next]_vars

-----------------------------------------------------------------------------
(* Properties.                                                              *)

\* The array and the mapping name the same owners, the array without
\* duplicates, and an initialized agent always has one.
OwnersAgree ==
  /\ isOwner = { owners[k] : k \in DOMAIN owners }
  /\ \A k, l \in DOMAIN owners : owners[k] = owners[l] => k = l
  /\ initialized <=> owners # << >>

\* Approvals are distinct users: changes of the owners, of the quorum and of a
\* user's ownership between votes never let a user count twice.
VotesCounted ==
  \A p \in DOMAIN proposals :
    /\ proposals[p].approvalCount = Cardinality(votes[p])
    /\ proposals[p].proposer \in votes[p]

\* The inductive invariant.
IInv ==
  /\ TypeOK
  /\ OwnersAgree
  /\ VotesCounted
  /\ \A p \in DOMAIN votes : IsFiniteSet(votes[p])
  /\ initialized => config.quorum # 0
  /\ proposals # << >> => initialized /\ ~config.isBootstrap

DecisionStep ==
  \A p \in DOMAIN proposals' :
    LET was == IF p \in DOMAIN proposals THEN proposals[p].status ELSE "pending"
        before == IF p \in DOMAIN votes THEN votes[p] ELSE {} IN
    /\ was = "executed" => proposals'[p] = proposals[p]
    /\ proposals'[p].status # was =>
         /\ ~config.isBootstrap
         /\ \E voter \in isOwner \ before : votes'[p] = before \cup {voter}
         /\ Cardinality(votes'[p]) >= config.quorum

\* A proposal is executed by a step of the owner whose approval completes the
\* quorum in force at that moment, after bootstrap, and stays executed.
DecidedByQuorum == [][DecisionStep]_vars

\* Only initializeAgent can put the quorum out of the owners' reach: once they
\* are as many as it asks for, no removal or change of quorum undoes that.
QuorumAttainable ==
  [][initialized /\ config.quorum <= Len(owners)
       => config'.quorum \in 1 .. Len(owners')]_vars

\* "approvals needed to execute" are enough to execute: a proposal that has them
\* is executed, or some owner can still take it there.
QuorumDecides ==
  \A p \in DOMAIN proposals :
    proposals[p].approvalCount >= config.quorum =>
      proposals[p].status = "executed" \/ isOwner \ votes[p] # {}

-----------------------------------------------------------------------------
(* The council the contract promises.                                       *)

Executed == { p \in DOMAIN proposals : proposals[p].status = "executed" }

Council == INSTANCE OwnerCouncil WITH
  members <- isOwner, seats <- config.minOwners, quorum <- config.quorum,
  forming <- config.isBootstrap, ballots <- votes, passed <- Executed

\* The owner array with its swap and pop, the lengths compared with quorum and
\* minOwners, and the approval counters implement a council of sets: they never
\* count an owner or a vote twice, nor miss one.
ImplementsCouncil == Council!Spec
=============================================================================
