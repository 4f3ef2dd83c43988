-------------------------- MODULE AgentRelationship --------------------------
(***************************************************************************)
(* One edge of the AgentRelationship contract: its status and its roles,   *)
(* which the contract keeps twice (an array to list them, a mapping to ask *)
(* for one), and the assertions AgentAssertion holds about it.             *)
(* Every operation is a guard, the negation of its reverts, and a function *)
(* from the edge to the edge.                                              *)
(***************************************************************************)
EXTENDS Integers, SequencesExt

CONSTANTS Roles,
          Deployer, \* the key the web application signs with
          Subject, Object, \* the two agents of an edge
          ObjectOwner, \* an owner of the object's account
          Stranger \* anyone else

\* Who sends transactions with a key other than the deployer's.
Others == {Subject, Object, ObjectOwner, Stranger}

Status == {"NONE", "PROPOSED", "CONFIRMED", "ACTIVE", "SUSPENDED", "REVOKED",
           "REJECTED"}

NoEdge == [exists |-> FALSE]

Edge == [ exists : {TRUE}, status : Status, createdBy : Others \cup {Deployer},
          listed : Seq(Roles), held : SUBSET Roles ]

\* createEdge: reverts if the triple has an edge; any caller, any roles.
CanCreate(e) == ~e.exists
Created(creator, roles) ==
  [ exists |-> TRUE, status |-> "PROPOSED", createdBy |-> creator,
    listed |-> roles, held |-> ToSet(roles) ]

\* _requireAuth and _requireObjectAuth.
IsParty(e, caller) == caller \in {Subject, Object, e.createdBy}
IsObjectSide(caller) == caller \in {Object, ObjectOwner}

\* Mutation: RoleAlreadyExists is not checked.
CanAddAnyRole(e, caller, r) == e.exists /\ IsParty(e, caller)

CanAddRole(e, caller, r) == e.exists /\ IsParty(e, caller) /\ r \notin e.held
\* Mutation: a new role reopens the edge.
AddRoleReopening(e, r) ==
  [e EXCEPT !.listed = Append(@, r), !.held = @ \cup {r}, !.status = "PROPOSED"]

AddRole(e, r) ==
  [e EXCEPT !.listed = Append(@, r), !.held = @ \cup {r}]

\* The first occurrence is overwritten with the last element, which is popped.
Without(s, r) ==
  LET k == CHOOSE k \in DOMAIN s : s[k] = r /\ \A j \in DOMAIN s : s[j] = r => k <= j
  IN  IF \E j \in DOMAIN s : s[j] = r
        THEN Front([s EXCEPT ![k] = s[Len(s)]]) ELSE s

CanRemoveRole(e, caller, r) == e.exists /\ IsParty(e, caller) /\ r \in e.held
RemoveRole(e, r) ==
  [e EXCEPT !.listed = Without(@, r), !.held = @ \ {r}]

\* Any status from any other, for any party.
CanSetStatus(e, caller) == e.exists /\ IsParty(e, caller)
SetStatus(e, s) == [e EXCEPT !.status = s]

\* confirmEdge, rejectEdge and activateEdge.
CanAnswer(e, caller) == e.exists /\ e.status = "PROPOSED" /\ IsObjectSide(caller)
CanActivate(e, caller) == e.exists /\ e.status = "CONFIRMED" /\ IsParty(e, caller)

\* The array lists exactly the roles of the mapping, each once.
RolesConsistent(e) ==
  e.exists => /\ ToSet(e.listed) = e.held
              /\ IsInjective(e.listed)
=============================================================================
