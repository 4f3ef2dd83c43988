-------------------------- MODULE KnowledgeSyncProofs --------------------------
(***************************************************************************)
(* Proofs about KnowledgeSync: why a quiet graph equals the chain unless   *)
(* there is a reason.                                                      *)
(***************************************************************************)
EXTENDS KnowledgeSync, TLAPS

\* lock.pending is only set while lock.inflight is.
PendingInv == pending => InFlight

\* A locked sync is going to begin, or a write is going to be announced.
Due == timer \/ pending \/ \E a \in Actions : action[a] = "wrote"

\* What s has read so far is what the chain has.
Fresh(s) == \A p \in Parts : p \in sync[s].todo \/ sync[s].got[p] = chain[p]

\* While nothing is due and there is no reason, syncs that began after the
\* locked one hold the chain's content, also when they gave up their upload, and
\* so does the graph once the locked sync ended.
FreshInv ==
  excuse = {} /\ ~Due =>
    /\ \A s \in Syncs : sync[s].phase = "read" /\ ~sync[s].old /\ ~sync[s].gap => Fresh(s)
    /\ \A put \in stray : ~put.old /\ ~put.gap => put.got = chain
    /\ sync[Locked].phase # "read" => kb = chain

IInv == TypeOK /\ PendingInv /\ FreshInv

-----------------------------------------------------------------------------
\* What is left under way was read by a sync.
LEMMA StrayTypes ==
  ASSUME TypeOK, NEW puts, puts \subseteq Reading, Abandoned(puts)
  PROVE  stray' \subseteq Reading
BY DEF TypeOK, Abandoned

LEMMA ReadingTypes ==
  ASSUME TypeOK, NEW s \in Syncs, HasRead(s)
  PROVE  sync[s] \in Reading
BY DEF TypeOK, HasRead, Off, Landed

\* Every action keeps the types.
LEMMA TypeStep == ASSUME IInv, [Next]_vars PROVE TypeOK'
<1>. USE SyncAssumption DEF IInv, TypeOK, Reading, Off, Landed, Syncs, Graph, Version
<1>0. CASE UNCHANGED vars
  BY <1>0 DEF vars, lockVars, syncVars
<1>1. ASSUME NEW a \in Actions, NEW p \in Parts, Write(a, p) PROVE TypeOK'
  BY <1>1 DEF Write, lockVars, syncVars
<1>2. ASSUME NEW a \in Actions, GiveUp(a) PROVE TypeOK'
  BY <1>2 DEF GiveUp, lockVars, syncVars
<1>3. ASSUME NEW a \in Actions, Announce(a) PROVE TypeOK'
  BY <1>3 DEF Announce, Schedule, InFlight, lockVars, syncVars
<1>4. CASE Fire
  <2>1. Started \in Reading
    BY DEF Started
  <2>2. ASSUME NEW s \in Syncs, sync[s].phase = "read"
        PROVE  [sync[s] EXCEPT !.old = TRUE] \in Reading
    <3>1. sync[s] \in Reading
      BY <2>2
    <3>. QED
      BY <3>1
  <2>3. \A s \in Syncs : sync'[s] \in Reading \cup {Off, Landed}
    BY <1>4, <2>1, <2>2 DEF Fire
  <2>4. sync' \in [Syncs -> Reading \cup {Off, Landed}]
    BY <1>4, <2>3 DEF Fire
  <2>5. ASSUME NEW put \in stray PROVE [put EXCEPT !.old = TRUE] \in Reading
    <3>1. put \in Reading
      OBVIOUS
    <3>. QED
      BY <3>1
  <2>6. stray' \subseteq Reading
    BY <1>4, <2>5 DEF Fire
  <2>. QED
    BY <1>4, <2>4, <2>6 DEF Fire, lockVars
<1>5. ASSUME NEW s \in Direct, StartDirect(s) PROVE TypeOK'
  BY <1>5 DEF StartDirect, Started, lockVars, syncVars
<1>6. ASSUME NEW s \in Syncs, NEW p \in Parts, Read(s, p) PROVE TypeOK'
  BY <1>6 DEF Read, lockVars, syncVars
<1>7. ASSUME NEW s \in Syncs, ReadFails(s) PROVE TypeOK'
  <2>1. PICK lost \in SUBSET sync[s].todo :
               sync' = [sync EXCEPT ![s].todo = @ \ lost, ![s].gap = TRUE]
    BY <1>7 DEF ReadFails
  <2>2. sync[s] \in Reading
    BY <1>7 DEF ReadFails
  <2>3. [sync[s] EXCEPT !.todo = @ \ lost, !.gap = TRUE] \in Reading
    BY <2>2
  <2>4. sync' = [sync EXCEPT ![s] = [sync[s] EXCEPT !.todo = @ \ lost, !.gap = TRUE]]
    BY <2>1
  <2>. QED BY <1>7, <2>3, <2>4 DEF ReadFails, lockVars, syncVars
<1>8. ASSUME NEW s \in Syncs, Land(s) PROVE TypeOK'
  BY <1>8 DEF Land, HasRead, Flaws, lockVars, syncVars
<1>9. ASSUME NEW s \in Syncs, Answer(s) PROVE TypeOK'
  BY <1>9 DEF Answer, Finish, lockVars, syncVars
<1>10. ASSUME NEW s \in Syncs, UploadFails(s) PROVE TypeOK'
  <2>1. stray' \subseteq Reading
    <3>1. CASE HasRead(s) /\ Abandoned({sync[s]})
      <4>1. {sync[s]} \subseteq Reading
        BY <3>1, ReadingTypes
      <4>. QED
        BY <3>1, <4>1, StrayTypes
    <3>2. CASE UNCHANGED stray
      BY <3>2
    <3>. QED
      BY <1>10, <3>1, <3>2 DEF UploadFails
  <2>. QED
    BY <1>10, <2>1 DEF UploadFails, Finish, lockVars
<1>11. CASE Restart
  <2>1. stray' \subseteq Reading
    <3>1. PICK sent \in SUBSET { s \in Syncs : HasRead(s) } :
                 Abandoned({ sync[s] : s \in sent })
      BY <1>11 DEF Restart
    <3>2. { sync[s] : s \in sent } \subseteq Reading
      BY <3>1, ReadingTypes
    <3>. QED
      BY <3>1, <3>2, StrayTypes
  <2>. QED
    BY <1>11, <2>1 DEF Restart, lockVars
<1>12. ASSUME NEW put \in stray, LandLate(put) PROVE TypeOK'
  BY <1>12 DEF LandLate, Flaws, lockVars
<1>. QED BY <1>0, <1>1, <1>2, <1>3, <1>4, <1>5, <1>6, <1>7, <1>8, <1>9, <1>10,
       <1>11, <1>12 DEF Next, SyncStep

\* A call is only remembered while a sync is there to arm the timer again.
LEMMA PendingStep == ASSUME IInv, [Next]_vars PROVE PendingInv'
<1>. USE SyncAssumption DEF IInv, TypeOK, PendingInv, InFlight, Reading, Off, Landed, Syncs
<1>0. CASE UNCHANGED vars
  BY <1>0 DEF vars, lockVars, syncVars
<1>1. ASSUME NEW a \in Actions, NEW p \in Parts, Write(a, p) PROVE PendingInv'
  BY <1>1 DEF Write, lockVars, syncVars
<1>2. ASSUME NEW a \in Actions, GiveUp(a) PROVE PendingInv'
  BY <1>2 DEF GiveUp, lockVars, syncVars
<1>3. ASSUME NEW a \in Actions, Announce(a) PROVE PendingInv'
  BY <1>3 DEF Announce, Schedule, InFlight, lockVars, syncVars
<1>4. CASE Fire
  BY <1>4 DEF Fire, Started, lockVars, syncVars
<1>5. ASSUME NEW s \in Direct, StartDirect(s) PROVE PendingInv'
  BY <1>5 DEF StartDirect, Started, lockVars, syncVars
<1>6. ASSUME NEW s \in Syncs, NEW p \in Parts, Read(s, p) PROVE PendingInv'
  BY <1>6 DEF Read, lockVars, syncVars
<1>7. ASSUME NEW s \in Syncs, ReadFails(s) PROVE PendingInv'
  BY <1>7 DEF ReadFails, lockVars, syncVars
<1>8. ASSUME NEW s \in Syncs, Land(s) PROVE PendingInv'
  BY <1>8 DEF Land, HasRead, Flaws, lockVars, syncVars
<1>9. ASSUME NEW s \in Syncs, Answer(s) PROVE PendingInv'
  BY <1>9 DEF Answer, Finish, lockVars, syncVars
<1>10. ASSUME NEW s \in Syncs, UploadFails(s) PROVE PendingInv'
  BY <1>10 DEF UploadFails, Abandoned, Finish, HasRead, lockVars, syncVars
<1>11. CASE Restart
  BY <1>11 DEF Restart, lockVars, Abandoned
<1>12. ASSUME NEW put \in stray, LandLate(put) PROVE PendingInv'
  BY <1>12 DEF LandLate, Flaws, lockVars
<1>. QED BY <1>0, <1>1, <1>2, <1>3, <1>4, <1>5, <1>6, <1>7, <1>8, <1>9, <1>10,
       <1>11, <1>12 DEF Next, SyncStep

\* What was read stays the chain's content, or there is a reason or a sync due.
LEMMA FreshStep == ASSUME IInv, [Next]_vars PROVE FreshInv'
<1>. USE SyncAssumption DEF IInv, TypeOK, PendingInv, FreshInv, Fresh, Due, InFlight, Reading, Off, Landed, Syncs, Graph
<1>0. CASE UNCHANGED vars
  BY <1>0 DEF vars, lockVars, syncVars
<1>1. ASSUME NEW a \in Actions, NEW p \in Parts, Write(a, p) PROVE FreshInv'
  BY <1>1 DEF Write, lockVars, syncVars
<1>2. ASSUME NEW a \in Actions, GiveUp(a) PROVE FreshInv'
  BY <1>2 DEF GiveUp, lockVars, syncVars
<1>3. ASSUME NEW a \in Actions, Announce(a) PROVE FreshInv'
  BY <1>3 DEF Announce, Schedule, InFlight, lockVars, syncVars
<1>4. CASE Fire
  BY <1>4 DEF Fire, Started, lockVars, syncVars
<1>5. ASSUME NEW s \in Direct, StartDirect(s) PROVE FreshInv'
  BY <1>5 DEF StartDirect, Started, lockVars, syncVars
<1>6. ASSUME NEW s \in Syncs, NEW p \in Parts, Read(s, p) PROVE FreshInv'
  BY <1>6 DEF Read, lockVars, syncVars
<1>7. ASSUME NEW s \in Syncs, ReadFails(s) PROVE FreshInv'
  BY <1>7 DEF ReadFails, lockVars, syncVars
<1>8. ASSUME NEW s \in Syncs, Land(s) PROVE FreshInv'
  BY <1>8 DEF Land, HasRead, Flaws, lockVars, syncVars
<1>9. ASSUME NEW s \in Syncs, Answer(s) PROVE FreshInv'
  BY <1>9 DEF Answer, Finish, lockVars, syncVars
<1>10. ASSUME NEW s \in Syncs, UploadFails(s) PROVE FreshInv'
  BY <1>10 DEF UploadFails, Abandoned, Finish, HasRead, lockVars, syncVars
<1>11. CASE Restart
  BY <1>11 DEF Restart, lockVars, Abandoned
<1>12. ASSUME NEW put \in stray, LandLate(put) PROVE FreshInv'
  BY <1>12 DEF LandLate, Flaws, lockVars
<1>. QED BY <1>0, <1>1, <1>2, <1>3, <1>4, <1>5, <1>6, <1>7, <1>8, <1>9, <1>10,
       <1>11, <1>12 DEF Next, SyncStep

-----------------------------------------------------------------------------
\* The invariant holds in every state, for any number of parts, actions and
\* direct syncs.
THEOREM SyncInvariant == Spec => []IInv
<1>1. Init => IInv
  <2>. SUFFICES ASSUME Init PROVE IInv
    OBVIOUS
  <2>1. TypeOK
    <3>1. 0 \in Version
      BY SyncAssumption DEF Version
    <3>2. chain \in [Parts -> Version] /\ kb \in Graph
      BY <3>1 DEF Init, Graph
    <3>3. sync \in [Syncs -> Reading \cup {Off, Landed}]
      BY DEF Init
    <3>. QED BY <3>2, <3>3 DEF Init, TypeOK
  <2>2. PendingInv
    BY DEF Init, PendingInv
  <2>3. FreshInv
    BY DEF Init, FreshInv, Off, Syncs
  <2>. QED BY <2>1, <2>2, <2>3 DEF IInv
<1>2. IInv /\ [Next]_vars => IInv'
  BY TypeStep, PendingStep, FreshStep DEF IInv
<1>. QED BY <1>1, <1>2, PTL DEF Spec

\* The debounce loses no announced write (kb-write-through.ts 13-15): a quiet
\* graph that differs from the chain has one of the named reasons.
THEOREM StaleHasReason == Spec => []StaleForAReason
<1>1. IInv => StaleForAReason
  <2>. SUFFICES ASSUME IInv, Quiet, excuse = {} PROVE kb = chain
    BY DEF StaleForAReason
  <2>1. ~Due
    BY DEF Quiet, Due, IInv, PendingInv, InFlight, Syncs
  <2>2. sync[Locked].phase # "read"
    BY DEF Quiet, Syncs, Off
  <2>. QED BY <2>1, <2>2 DEF IInv, FreshInv
<1>. QED BY <1>1, SyncInvariant, PTL
===============================================================================
