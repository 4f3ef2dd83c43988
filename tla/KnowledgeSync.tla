---------------------------- MODULE KnowledgeSync ----------------------------
(***************************************************************************)
(* The knowledge base as a mirror of the chain: the debounced sync of      *)
(* apps/web/src/lib/ontology/kb-write-through.ts, the sync itself          *)
(* (graphdb-sync.ts), and the callers that run the same sync without the   *)
(* debounce lock (boot seeding, POST /api/ontology-sync).                  *)
(*                                                                         *)
(* The graph is made of parts (agents, edges) which a sync reads one after *)
(* the other while actions go on writing; a PUT then replaces the whole    *)
(* graph. A part's content is the number of its last write.                *)
(***************************************************************************)
EXTENDS Integers, FiniteSets

CONSTANTS Parts,
          Actions,    \* server actions: they write, then call scheduleKbSync
          Direct,     \* syncs that do not go through scheduleKbSync
          Locked,     \* the sync that does
          MaxVersion, \* bound on the writes to one part
          MaxStray,   \* bound on the uploads given up and still under way
          Missing     \* a part the graph does not have

ASSUME SyncAssumption ==
  /\ MaxVersion \in Nat /\ MaxStray \in Nat
  /\ Missing \notin Nat
  /\ Locked \notin Direct

VARIABLES
  chain,   \* the content of each part on chain
  action,  \* the server actions
  timer,   \* lock.timer is set
  pending, \* lock.pending
  sync,    \* the running syncs; lock.inflight is sync[Locked]
  stray,   \* uploads whose sync has given up, and which GraphDB may yet apply
  kb,      \* the data graph of GraphDB
  owed,    \* history: a write was announced and no locked sync began since
  excuse   \* history: why the graph may be behind, since a locked sync began

lockVars == <<timer, pending>>
syncVars == <<sync, stray>>
vars == <<chain, action, timer, pending, sync, stray, kb, owed, excuse>>

Syncs == Direct \cup {Locked}
Version == 0 .. MaxVersion
Graph == [Parts -> Version \cup {Missing}]

Off == [phase |-> "off"]
Landed == [phase |-> "landed"]
\* old (history): the locked sync began since; gap (history): a read failed.
Reading == [ phase : {"read"}, todo : SUBSET Parts, got : Graph,
             old : BOOLEAN, gap : BOOLEAN ]

TypeOK ==
  /\ chain \in [Parts -> Version]
  /\ action \in [Actions -> {"idle", "wrote", "answered"}]
  /\ timer \in BOOLEAN /\ pending \in BOOLEAN /\ owed \in BOOLEAN
  /\ sync \in [Syncs -> Reading \cup {Off, Landed}]
  /\ stray \subseteq Reading
  /\ kb \in Graph
  /\ excuse \subseteq {"failed", "lost", "overtaken", "silent", "restart"}

Init ==
  /\ chain = [p \in Parts |-> 0]
  /\ action = [a \in Actions |-> "idle"]
  /\ timer = FALSE /\ pending = FALSE
  /\ sync = [s \in Syncs |-> Off]
  /\ stray = {}
  /\ kb = chain
  /\ owed = FALSE
  /\ excuse = {}

-----------------------------------------------------------------------------
(* Server actions.                                                         *)

\* One of the action's transactions is mined.
Write(a, p) ==
  /\ action[a] # "answered"
  /\ chain[p] < MaxVersion
  /\ chain' = [chain EXCEPT ![p] = @ + 1]
  /\ action' = [action EXCEPT ![a] = "wrote"]
  /\ UNCHANGED <<lockVars, syncVars, kb, owed, excuse>>

\* A later step fails, and the action answers without a sync.
GiveUp(a) ==
  /\ action[a] = "wrote"
  /\ action' = [action EXCEPT ![a] = "answered"]
  /\ excuse' = excuse \cup {"silent"}
  /\ UNCHANGED <<chain, lockVars, syncVars, kb, owed>>

InFlight == sync[Locked] # Off

\* Mutation: a call during a sync is dropped.
ScheduleIdle ==
  /\ timer' = (timer \/ ~InFlight)
  /\ UNCHANGED pending

\* scheduleKbSync: remember the call, or (re)arm the timer.
Schedule ==
  \/ InFlight /\ pending' = TRUE /\ UNCHANGED timer
  \/ ~InFlight /\ timer' = TRUE /\ UNCHANGED pending

\* The action announces what it wrote and answers.
Announce(a) ==
  /\ action[a] = "wrote"
  /\ action' = [action EXCEPT ![a] = "answered"]
  /\ Schedule
  /\ owed' = TRUE
  /\ UNCHANGED <<chain, syncVars, kb, excuse>>

-----------------------------------------------------------------------------
(* Syncs.                                                                  *)

Started == [ phase |-> "read", todo |-> Parts,
             got |-> [p \in Parts |-> Missing], old |-> FALSE, gap |-> FALSE ]

\* The timer fires: the locked sync begins.
Fire ==
  /\ timer
  /\ timer' = FALSE
  /\ sync' = [s \in Syncs |->
                 IF s = Locked THEN Started
                 ELSE IF sync[s].phase = "read" THEN [sync[s] EXCEPT !.old = TRUE]
                 ELSE sync[s]]
  /\ stray' = { [put EXCEPT !.old = TRUE] : put \in stray }
  /\ owed' = FALSE
  /\ excuse' = {}
  /\ UNCHANGED <<chain, action, pending, kb>>

\* Boot seeding or POST /api/ontology-sync begins a sync of its own.
StartDirect(s) ==
  /\ sync[s] = Off
  /\ sync' = [sync EXCEPT ![s] = Started]
  /\ UNCHANGED <<chain, action, lockVars, stray, kb, owed, excuse>>

Read(s, p) ==
  /\ sync[s].phase = "read" /\ p \in sync[s].todo
  /\ sync' = [sync EXCEPT ![s].todo = @ \ {p}, ![s].got[p] = chain[p]]
  /\ UNCHANGED <<chain, action, lockVars, stray, kb, owed, excuse>>

\* A read fails: the error is swallowed, and what it concerned is left out,
\* one edge or all that was still to be read.
ReadFails(s) ==
  /\ sync[s].phase = "read"
  /\ \E lost \in SUBSET sync[s].todo :
       /\ lost # {}
       /\ sync' = [sync EXCEPT ![s].todo = @ \ lost, ![s].gap = TRUE]
  /\ UNCHANGED <<chain, action, lockVars, stray, kb, owed, excuse>>

HasRead(s) == sync[s].phase = "read" /\ sync[s].todo = {}

\* Why a graph that was read may be behind the chain once it is uploaded.
Flaws(put) ==
  (IF put.gap THEN {"lost"} ELSE {}) \cup (IF put.old THEN {"overtaken"} ELSE {})

\* The PUT replaces the graph by what was read.
Land(s) ==
  /\ HasRead(s)
  /\ kb' = sync[s].got
  /\ sync' = [sync EXCEPT ![s] = Landed]
  /\ excuse' = excuse \cup Flaws(sync[s])
  /\ UNCHANGED <<chain, action, lockVars, stray, owed>>

\* GraphDB gets round to an upload whose sync has given up.
LandLate(put) ==
  /\ kb' = put.got
  /\ stray' = stray \ {put}
  /\ excuse' = excuse \cup Flaws(put)
  /\ UNCHANGED <<chain, action, lockVars, sync, owed>>

\* Mutation: pending is cleared and nothing is armed.
FinishForgetting(s) ==
  \/ s = Locked /\ pending' = FALSE /\ UNCHANGED timer
  \/ s # Locked /\ UNCHANGED lockVars

\* The finally of the locked sync: calls made meanwhile arm the timer again.
Finish(s) ==
  \/ s = Locked /\ pending' = FALSE /\ timer' = (timer \/ pending)
  \/ s # Locked /\ UNCHANGED lockVars

Answer(s) ==
  /\ sync[s] = Landed
  /\ sync' = [sync EXCEPT ![s] = Off]
  /\ Finish(s)
  /\ UNCHANGED <<chain, action, stray, kb, owed, excuse>>

\* An upload the client has given up is refused, or applied later.
Abandoned(puts) ==
  \/ UNCHANGED stray
  \/ /\ Cardinality(stray \cup puts) <= MaxStray
     /\ stray' = stray \cup puts

\* The upload is refused, it times out, or its answer is lost.
UploadFails(s) ==
  /\ \/ HasRead(s) /\ Abandoned({sync[s]})
     \/ sync[s] = Landed /\ UNCHANGED stray
  /\ sync' = [sync EXCEPT ![s] = Off]
  /\ Finish(s)
  /\ excuse' = IF s = Locked THEN excuse \cup {"failed"} ELSE excuse
  /\ UNCHANGED <<chain, action, kb, owed>>

\* The process dies: lock, actions and syncs with it, but not what they sent.
Restart ==
  /\ action' = [a \in Actions |-> IF action[a] = "wrote" THEN "answered" ELSE action[a]]
  /\ timer' = FALSE /\ pending' = FALSE /\ owed' = FALSE
  /\ sync' = [s \in Syncs |-> Off]
  /\ \E sent \in SUBSET { s \in Syncs : HasRead(s) } : Abandoned({ sync[s] : s \in sent })
  /\ excuse' = excuse \cup {"restart"}
  /\ UNCHANGED <<chain, kb>>

SyncStep(s) ==
  \/ \E p \in Parts : Read(s, p)
  \/ ReadFails(s) \/ Land(s) \/ Answer(s) \/ UploadFails(s)

Next ==
  \/ \E a \in Actions : (\E p \in Parts : Write(a, p)) \/ GiveUp(a) \/ Announce(a)
  \/ Fire
  \/ \E s \in Direct : StartDirect(s)
  \/ \E s \in Syncs : SyncStep(s)
  \/ \E put \in stray : LandLate(put)
  \/ Restart

Spec == Init /\ [][Next]_vars

(* The timer fires, and a locked sync ends: chain reads and uploads have   *)
(* timeouts of their own. Actions and direct syncs owe nothing.            *)
Fairness == WF_vars(Fire) /\ WF_vars(SyncStep(Locked))

FairSpec == Spec /\ Fairness

-----------------------------------------------------------------------------
(* Properties.                                                             *)

Quiet ==
  /\ ~timer /\ \A s \in Syncs : sync[s] = Off
  /\ \A a \in Actions : action[a] # "wrote"

\* When all is quiet, a graph that differs from the chain has a reason: a
\* failed or incomplete sync, an older one that landed later, a write nobody
\* announced or a restart. The debounce itself loses no announced write,
\* whenever it falls into a sync's reads (kb-write-through.ts 13-15).
StaleForAReason == Quiet /\ excuse = {} => kb = chain

\* Every announced write is followed by a sync that begins later, unless the
\* process is restarted first: also when the call came while another sync was
\* running, and although that sync may fail.
OwedSyncRuns == owed ~> ~owed
=============================================================================
