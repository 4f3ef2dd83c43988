-------------------------- MODULE RelationshipFlows --------------------------
(***************************************************************************)
(* The server actions of the web application that write relationship edges *)
(* and assertions on chain (apps/web/src/lib/contracts.ts and the actions  *)
(* that call it). An action is a series of transactions with reads between *)
(* them.  A transaction is sent if the node's gas estimate finds that it   *)
(* would succeed now; it is mined later, when it may revert, and the action *)
(* goes on all the same.  An action that gives up leaves its transaction    *)
(* behind.  Other actions, and anyone with a key of their own, write the   *)
(* same edge in between.                                                   *)
(***************************************************************************)
EXTENDS AgentRelationship

CONSTANTS Edges,    \* triples (subject, object, type)
          Flows,    \* calls of server actions
          MaxCalls, \* bound on calls of actions and transactions of others
          InitialRoles, \* the lists of roles the others create an edge with
          NoRole    \* the role of an action that grants none

ASSUME OthersAssumption ==
  Deployer \notin Others /\ InitialRoles \subseteq Seq(Roles)

VARIABLES
  edges,    \* AgentRelationship
  claims,   \* AgentAssertion: types asserted by the deployer, per edge
  flow,     \* the server actions
  pool,     \* the deployer's transactions not yet mined, in nonce order
  late,     \* writes whose action the lock's cap ended before they were sent
  direct,   \* number of transactions others sent
  settled,  \* history: edges rejected with no confirmation under way
  removed,  \* history: roles a party took away, per edge
  reverted, \* history: actions whose createEdge or addRole was mined reverting
  doubled   \* history: edges created with a role given twice

chainVars == <<edges, claims>>
history == <<settled, removed, reverted, doubled>>
vars == <<chainVars, flow, pool, late, direct, history>>

WritePC == {"create", "claim", "grant", "confirm", "activate", "accept", "reject"}
PC == WritePC \cup {"idle", "look", "announce", "ok", "failed"}
Op == {"assert", "confirm", "reject"}
\* A server action before its call and after.
Idle == [pc : {"idle"}, at : {"idle"}]
Begun == [ pc : PC \ {"idle"}, at : PC, op : Op, edge : Edges,
           role : Roles \cup {NoRole}, owns : BOOLEAN ]
Write == [flow : Flows, step : WritePC]
\* seen is the edge the gas was estimated on.
Tx == [flow : Flows, step : WritePC, seen : Edge \cup {NoEdge}]

TypeOK ==
  /\ edges \in [Edges -> Edge \cup {NoEdge}]
  /\ claims \in [Edges -> SUBSET {"self", "object"}]
  /\ flow \in [Flows -> Idle \cup Begun]
  /\ pool \in Seq(Tx) /\ late \subseteq Write
  /\ settled \subseteq Edges /\ doubled \subseteq Edges
  /\ removed \in [Edges -> SUBSET Roles]
  /\ reverted \subseteq Flows

Init ==
  /\ edges = [e \in Edges |-> NoEdge]
  /\ claims = [e \in Edges |-> {}]
  /\ flow = [f \in Flows |-> [pc |-> "idle", at |-> "idle"]]
  /\ pool = << >> /\ late = {}
  /\ direct = 0
  /\ settled = {} /\ reverted = {} /\ doubled = {}
  /\ removed = [e \in Edges |-> {}]

-----------------------------------------------------------------------------
(* Server actions.                                                         *)

Active(f) == flow[f].pc \notin {"idle", "ok", "failed"}
\* f goes on to pc; what a finished action did last matters if it failed.
At(f, pc) ==
  [flow EXCEPT ![f].at = IF pc = "ok" THEN "idle" ELSE flow[f].pc,
               ![f].pc = pc]

\* The bound on calls: of the actions begun, and of everyone else.
MoreCalls ==
  direct + Cardinality({ f \in Flows : flow[f].pc # "idle" }) < MaxCalls

\* Does f, once begun, go on to set the edge to ACTIVE?
Confirms(op, owns) == op = "confirm" \/ (op = "assert" /\ owns)

\* assertRelationship, confirmRelationshipAction, rejectRelationshipAction.
\* owns: the user also owns the object, so the edge is confirmed at once.
Begin(f, op, e, r, owns) ==
  /\ flow[f].pc = "idle" /\ MoreCalls
  /\ op # "assert" => ~owns /\ r = NoRole
  /\ op = "assert" => r # NoRole
  /\ flow' = [flow EXCEPT ![f] =
       [ pc |-> CASE op = "assert" -> "look" [] OTHER -> op,
         at |-> "idle", op |-> op, edge |-> e, role |-> r, owns |-> owns ]]
  /\ settled' = IF Confirms(op, owns) THEN settled \ {e} ELSE settled
  /\ UNCHANGED <<chainVars, pool, late, direct, removed, reverted, doubled>>

\* Mutation: an edge that exists is taken to have the role.
LookOnce(f) ==
  /\ flow[f].pc = "look"
  /\ flow' = At(f, IF edges[flow[f].edge].exists THEN "announce" ELSE "create")
  /\ UNCHANGED <<chainVars, pool, late, direct, history>>

\* createRelationship asks whether the edge and its role exist.
Look(f) ==
  LET e == edges[flow[f].edge]
  IN  /\ flow[f].pc = "look"
      /\ flow' = At(f, IF ~e.exists THEN "create"
                       ELSE IF flow[f].role \in e.held THEN "announce" ELSE "grant")
      /\ UNCHANGED <<chainVars, pool, late, direct, history>>

\* scheduleKbSync (KnowledgeSync!Announce); then the action answers, or goes
\* on to confirm.
Announce(f) ==
  /\ flow[f].pc = "announce"
  /\ LET again == flow[f].op = "assert" /\ flow[f].owns
                  /\ flow[f].at \in {"look", "grant", "claim"}
     IN  flow' = At(f, IF again THEN "confirm" ELSE "ok")
  /\ UNCHANGED <<chainVars, pool, late, direct, history>>

\* A failed confirmation of a fresh edge is not reported; everything else is.
Failure(f) ==
  IF flow[f].op = "assert" /\ flow[f].pc \in {"confirm", "activate", "accept"}
    THEN "ok" ELSE "failed"

-----------------------------------------------------------------------------
(* Transactions of the deployer.                                           *)

\* The status each confirming or rejecting step writes by setEdgeStatus, and
\* the assertion each asserting step makes.
Sets == [confirm |-> "CONFIRMED", activate |-> "ACTIVE", reject |-> "REJECTED"]
Asserts == [claim |-> "self", accept |-> "object"]

\* Would the transaction of a step succeed now?
Succeeds(f, step) ==
  LET edge == edges[flow[f].edge]
  IN  CASE step = "create" -> CanCreate(edge)
        [] step = "grant" -> CanAddRole(edge, Deployer, flow[f].role)
        [] step \in DOMAIN Sets -> CanSetStatus(edge, Deployer)
        [] step \in DOMAIN Asserts -> edge.exists

Becomes(e, edge) == edges' = [edges EXCEPT ![e] = edge] /\ UNCHANGED claims

Effect(f, step) ==
  LET e == flow[f].edge
      r == flow[f].role
  IN  \/ step = "create" /\ Becomes(e, Created(Deployer, <<r>>))
      \/ step = "grant" /\ Becomes(e, AddRole(edges[e], r))
      \/ step \in DOMAIN Sets /\ Becomes(e, SetStatus(edges[e], Sets[step]))
      \/ /\ step \in DOMAIN Asserts
         /\ claims' = [claims EXCEPT ![e] = @ \cup {Asserts[step]}]
         /\ UNCHANGED edges

Sent(f) == \E k \in DOMAIN pool : pool[k].flow = f
Writing(f) == flow[f].pc \in WritePC /\ ~Sent(f)

\* The node refuses to estimate what would revert; what it estimates is sent.
Send(f, step) ==
  /\ Succeeds(f, step)
  /\ pool' = Append(pool, [flow |-> f, step |-> step, seen |-> edges[flow[f].edge]])
  /\ UNCHANGED <<chainVars, flow, direct, history>>

Submit(f) == Writing(f) /\ Send(f, flow[f].pc) /\ UNCHANGED late

\* withDeployerLock gave up on the write, which goes on without its action.
SubmitLate(w) == w \in late /\ Send(w.flow, w.step) /\ late' = late \ {w}

\* The transaction is refused or its answer lost, a read fails, the receipt does
\* not come, or the cap of the lock ends an action whose write goes on.
GiveUp(f) ==
  /\ flow[f].pc \in WritePC \cup {"look"}
  /\ flow' = At(f, Failure(f))
  /\ \/ UNCHANGED late
     \/ Writing(f) /\ late' = late \cup {[flow |-> f, step |-> flow[f].pc]}
  /\ UNCHANGED <<chainVars, pool, direct, history>>

\* f has asked for the write of a step, which is not yet mined.
Pending(f, step) ==
  \E w \in late \cup ToSet(pool) : w.flow = f /\ w.step = step

\* A confirmation of e that has begun, or that an action left behind.
ConfirmsEdge(g, e) ==
  /\ flow[g].pc # "idle" /\ flow[g].edge = e
  /\ \/ Active(g) /\ Confirms(flow[g].op, flow[g].owns)
     \/ Pending(g, "confirm") \/ Pending(g, "activate")

\* History: a rejection was mined with no confirmation under way.
Settle(f, step) ==
  settled' = IF step = "reject" /\ ~\E g \in Flows : ConfirmsEdge(g, flow[f].edge)
               THEN settled \cup {flow[f].edge} ELSE settled

\* Mutation: a new edge is announced before its self-assertion.
FollowsUnclaimed(pc) ==
  CASE pc = "confirm" -> "activate"
    [] pc = "activate" -> "accept"
    [] OTHER -> "announce"

\* The step after a transaction was mined.
Follows(pc) ==
  CASE pc = "create" -> "claim"
    [] pc = "confirm" -> "activate"
    [] pc = "activate" -> "accept"
    [] OTHER -> "announce"

\* waitForTransactionReceipt resolves, with whatever status.
Resolved(t) ==
  IF flow[t.flow].pc = t.step THEN At(t.flow, Follows(t.step)) ELSE flow

Mined(t) ==
  /\ Succeeds(t.flow, t.step)
  /\ Effect(t.flow, t.step)
  /\ Settle(t.flow, t.step)
  /\ flow' = Resolved(t)
  /\ UNCHANGED <<direct, late, removed, reverted, doubled>>

\* The edge is not what it was for the estimate: the transaction reverts, or the
\* gas does not suffice.  Creations and assertions only get cheaper.
MinedReverting(t) ==
  /\ \/ ~Succeeds(t.flow, t.step)
     \/ t.step \in {"grant"} \cup DOMAIN Sets /\ edges[flow[t.flow].edge] # t.seen
  /\ flow' = Resolved(t)
  /\ reverted' = IF t.step \in {"create", "grant"}
                   THEN reverted \cup {t.flow} ELSE reverted
  /\ UNCHANGED <<chainVars, direct, late, settled, removed, doubled>>

Mine ==
  /\ pool # << >>
  /\ Mined(Head(pool)) \/ MinedReverting(Head(pool))
  /\ pool' = Tail(pool)

\* The node drops a transaction, and the wait for its receipt times out.
Drop(k) ==
  /\ pool' = RemoveAt(pool, k)
  /\ LET t == pool[k]
     IN  flow' = IF flow[t.flow].pc = t.step THEN At(t.flow, Failure(t.flow)) ELSE flow
  /\ UNCHANGED <<chainVars, late, direct, history>>

-----------------------------------------------------------------------------
(* Everyone else, and the end of the process.                              *)

\* The transactions of AgentRelationship, from any caller.
PartyTx(e, caller) ==
  \/ /\ \E r \in Roles :
          \/ /\ CanAddRole(edges[e], caller, r)
             /\ Becomes(e, AddRole(edges[e], r)) /\ UNCHANGED removed
          \/ /\ CanRemoveRole(edges[e], caller, r)
             /\ Becomes(e, RemoveRole(edges[e], r))
             /\ removed' = [removed EXCEPT ![e] = @ \cup {r}]
     /\ UNCHANGED doubled
  \/ /\ \E s \in Status :
          /\ \/ CanSetStatus(edges[e], caller)
             \/ s \in {"CONFIRMED", "REJECTED"} /\ CanAnswer(edges[e], caller)
             \/ s = "ACTIVE" /\ CanActivate(edges[e], caller)
          /\ Becomes(e, SetStatus(edges[e], s))
     /\ UNCHANGED <<removed, doubled>>
  \/ /\ CanCreate(edges[e])
     /\ \E roles \in InitialRoles :
          /\ Becomes(e, Created(caller, roles))
          /\ doubled' = IF IsInjective(roles) THEN doubled ELSE doubled \cup {e}
     /\ UNCHANGED removed

PartyActs(e, caller) ==
  /\ MoreCalls
  /\ direct' = direct + 1
  /\ PartyTx(e, caller)
  /\ settled' = settled \ {e}
  /\ UNCHANGED <<flow, pool, late, reverted>>

\* The transactions sent outlive the process.
Restart ==
  /\ flow' = [f \in Flows |->
       IF Active(f) THEN [flow[f] EXCEPT !.pc = "failed", !.at = flow[f].pc] ELSE flow[f]]
  /\ late' = {}
  /\ UNCHANGED <<chainVars, pool, direct, history>>

Next ==
  \/ \E f \in Flows :
       \/ \E op \in Op, e \in Edges, r \in Roles \cup {NoRole}, owns \in BOOLEAN :
            Begin(f, op, e, r, owns)
       \/ Look(f) \/ Submit(f) \/ GiveUp(f) \/ Announce(f)
  \/ \E w \in late : SubmitLate(w)
  \/ Mine
  \/ \E k \in DOMAIN pool : Drop(k)
  \/ \E e \in Edges, c \in Others : PartyActs(e, c)
  \/ Restart

Spec == Init /\ [][Next]_vars

-----------------------------------------------------------------------------
(* Properties.                                                             *)

\* The list of an edge's roles and the mapping agree (AgentRelationship.sol
\* 129-132), however the flows and the parties add and remove them, unless the
\* edge was created with a role given twice, which createEdge does not refuse:
\* then the list has every role of the mapping, and may have more.
RolesAgree ==
  \A e \in Edges :
    IF e \in doubled THEN edges[e].held \subseteq ToSet(edges[e].listed)
    ELSE RolesConsistent(edges[e])

\* A relationship reported as asserted has its role, though the edge may have
\* been created meanwhile by someone else, or a party took the role away, or the
\* action's own createEdge or addRole was mined and reverted: the receipt's
\* status is not looked at.
RolesGranted ==
  \A f \in Flows :
    flow[f].pc = "ok" /\ flow[f].op = "assert" =>
      \/ flow[f].role \in edges[flow[f].edge].held
      \/ flow[f].role \in removed[flow[f].edge]
      \/ f \in reverted

\* An edge of the deployer that an action reported has the subject's
\* assertion, unless the action that created it is at, or failed at, the
\* transaction that asserts: a retry takes the other branch and repairs
\* nothing.
SelfClaimed ==
  \A f \in Flows :
    LET e == flow[f].edge
    IN  flow[f].pc = "ok" /\ flow[f].op = "assert" /\ edges[e].createdBy = Deployer =>
          \/ "self" \in claims[e]
          \/ \E g \in Flows \ reverted :
               /\ flow[g].pc # "idle" /\ flow[g].edge = e
               /\ \/ flow[g].pc = "claim"
                  \/ flow[g].pc = "failed" /\ flow[g].at \in {"create", "claim"}

\* A rejection stands, unless a confirmation was under way when it was mined
\* or began later, or a party intervenes: new roles do not revive the edge.
RejectionStands ==
  \A e \in settled : edges[e].status = "REJECTED"

-----------------------------------------------------------------------------
(* The inductive invariant behind the properties.                          *)

\* An action has one write at a time.
OneWrite ==
  /\ \A j, k \in DOMAIN pool : pool[j].flow = pool[k].flow => j = k
  /\ \A v, w \in late : v.flow = w.flow => v = w
  /\ \A w \in late : ~Sent(w.flow)

\* An action is only at the steps of its kind.
StepInv(f) ==
  /\ flow[f].pc \in {"idle", "look", "create"} => f \notin reverted
  /\ flow[f].pc # "idle" =>
       /\ flow[f].op = "assert" => flow[f].role \in Roles
       /\ flow[f].pc \in {"look", "create", "grant", "claim"} => flow[f].op = "assert"
       /\ flow[f].pc = "reject" => flow[f].op = "reject"
       /\ flow[f].pc \in {"confirm", "activate", "accept"} =>
            Confirms(flow[f].op, flow[f].owns)
       /\ flow[f].pc = "grant" => edges[flow[f].edge].exists

\* A write was asked for by the step its action is at, or gave up at.
WriteInv(f) ==
  /\ \A w \in late : w.flow = f => flow[f].pc \in {"ok", "failed"}
  /\ \A step \in WritePC : Pending(f, step) =>
       /\ flow[f].pc \in {step, "ok", "failed"}
       /\ step \in {"create", "grant", "claim"} => flow[f].op = "assert"
       /\ step \in {"grant", "claim"} => edges[flow[f].edge].exists
       /\ step = "create" =>
            /\ f \notin reverted /\ flow[f].pc # "ok"
            /\ flow[f].pc = "failed" => flow[f].at = "create"

\* An action that asserts and is past the edge's role has it granted.
GrantInv(f) ==
  flow[f].pc \in {"announce", "claim", "confirm", "activate", "accept", "ok"}
    /\ flow[f].op = "assert" =>
      /\ edges[flow[f].edge].exists
      /\ flow[f].role \in edges[flow[f].edge].held \cup removed[flow[f].edge]
           \/ f \in reverted

\* An edge of the deployer is claimed, or its creator is at the claim or failed.
ClaimOpen(g, e) ==
  /\ g \notin reverted /\ flow[g].pc # "idle" /\ flow[g].edge = e
  /\ \/ flow[g].pc = "claim"
     \/ flow[g].pc = "failed" /\ flow[g].at \in {"create", "claim"}
  /\ \A step \in WritePC : Pending(g, step) => step = "claim"
ClaimInv(e) ==
  edges[e].exists /\ edges[e].createdBy = Deployer =>
    "self" \in claims[e] \/ \E g \in Flows : ClaimOpen(g, e)

RolesHold(edge, twice) ==
  IF twice THEN edge.exists /\ edge.held \subseteq ToSet(edge.listed)
  ELSE RolesConsistent(edge)
RolesInv(e) == RolesHold(edges[e], e \in doubled)

\* A settled edge has no confirmation under way.
RejectInv ==
  \A e \in settled :
    /\ edges[e].exists /\ edges[e].status = "REJECTED"
    /\ \A g \in Flows : ~ConfirmsEdge(g, e)

IInv ==
  /\ TypeOK /\ OneWrite
  /\ \A f \in Flows : StepInv(f) /\ WriteInv(f) /\ GrantInv(f)
  /\ \A e \in Edges : ClaimInv(e) /\ RolesInv(e)
  /\ RejectInv
=============================================================================
