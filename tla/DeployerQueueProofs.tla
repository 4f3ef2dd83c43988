------------------------- MODULE DeployerQueueProofs -------------------------
(***************************************************************************)
(* Proofs about the deployer queue, for any writes, outsiders, cap and     *)
(* bound on the nonces.                                                    *)
(***************************************************************************)
EXTENDS DeployerQueue, TLAPS

(* A write's transaction follows its function: nothing is sent before a    *)
(* nonce is held, and a transaction the node took has filled its nonce.    *)
PhaseInv ==
  /\ \A w \in Writes : caller[w] \in {"idle", "waiting"} => fn[w] = "none"
  /\ \A w \in Writes : fn[w] \in {"none", "fetching", "counted"} => tx[w] = "unsent"
  /\ \A s \in Senders : tx[s] = "taken" => Used(nonce[s])

(* What the node counted for w stays below the nonces that are free.       *)
GapInv ==
  /\ \A w \in Writes : fn[w] = "counted" =>
       \A m \in Nonces : m < nonce[w] => Used(m)
  /\ NoOrphanGap

(* Tickets are dense and distinct, and whoever acquired in turn has only   *)
(* answered writes before it.                                              *)
OrderInv ==
  /\ \A w \in Writes : caller[w] # "idle" => ticket[w] \in 1 .. seq
  /\ \A v, w \in Writes : caller[v] # "idle" /\ caller[w] # "idle"
                          /\ ticket[v] = ticket[w] => v = w
  /\ \A k \in 1 .. seq : \E v \in Writes : caller[v] # "idle" /\ ticket[v] = k
  /\ "overtaken" \notin faults =>
       \A v, w \in Writes :
         caller[w] \in {"running", "ok", "failed"} /\ caller[v] # "idle"
         /\ ticket[v] < ticket[w] => Answered(v)

(* A function outlives its caller only when a run reached its cap.         *)
LiveInv ==
  "hung" \notin faults =>
    \A w \in Writes : /\ Live(w) => caller[w] = "running"
                      /\ caller[w] = "running" => timer[w] > 0

(* Undisturbed, the nonces in use are an initial segment, and the counter  *)
(* and the one function that is alive agree on where it ends.              *)
SegmentInv ==
  faults = {} =>
    /\ \A o \in Outsiders : tx[o] = "unsent"
    /\ \A w \in Writes : tx[w] = "wire" => fn[w] = "holding"
    /\ \A m, n \in Nonces : m < n /\ Used(n) => Used(m)
    /\ \A w \in Writes : fn[w] \in {"fetching", "counted"} => cached = Null
    /\ \A w \in Writes :
         fn[w] = "counted" \/ (fn[w] = "holding" /\ tx[w] \in {"unsent", "wire"})
           => IsPending(nonce[w])
    /\ \A w \in Writes : fn[w] = "holding" => cached = nonce[w] + 1
    /\ \A w \in Writes : fn[w] = "holding" /\ tx[w] = "taken" =>
         \A m \in Nonces : Used(m) <=> m <= nonce[w]
    /\ cached # Null /\ (\A w \in Writes : fn[w] # "holding") =>
         \A m \in Nonces : Used(m) <=> m < cached
    /\ \A w \in Writes : tx[w] = "taken" => pool[nonce[w]] = w
    /\ \A w \in Writes : caller[w] = "ok" => tx[w] = "taken"

IInv == TypeOK /\ PhaseInv /\ GapInv /\ OrderInv /\ LiveInv /\ SegmentInv

-----------------------------------------------------------------------------
\* Every step keeps the types.
LEMMA TypeStep ==
  ASSUME TypeOK, [Next]_vars
  PROVE  TypeOK'
<1>. USE QueueAssumption DEF TypeOK, lockVars, Senders, Nonces, FaultKind
<1>1. ASSUME NEW w \in Writes, Enqueue(w) PROVE TypeOK'
  BY <1>1 DEF Enqueue
<1>2. ASSUME NEW w \in Writes, Acquire(w) PROVE TypeOK'
  <2>1. /\ caller' \in [Writes -> {"idle", "waiting", "running", "ok", "failed"}]
        /\ timer' \in [Writes -> 0 .. Cap]
        /\ faults' \subseteq FaultKind
        /\ seq' \in Nat /\ ticket' \in [Writes -> Nat]
        /\ tx' = tx /\ pool' = pool
    BY <1>2 DEF Acquire
  <2>2. CASE cached = Null
    BY <1>2, <2>1, <2>2 DEF Acquire, TakeNonce
  <2>3. CASE cached # Null
    <3>1. cached \in Nonces /\ cached' = cached + 1
          /\ fn' = [fn EXCEPT ![w] = "holding"] /\ nonce' = [nonce EXCEPT ![w] = cached]
      BY <1>2, <2>3 DEF Acquire, TakeNonce
    <3>2. nonce' \in [Senders -> Nonces] /\ cached' \in 0 .. MaxNonce + 1
      BY <3>1
    <3>. QED
      BY <2>1, <3>1, <3>2
  <2>. QED
    BY <2>2, <2>3
<1>3. ASSUME NEW w \in Writes, RunExpires(w) PROVE TypeOK'
  BY <1>3 DEF RunExpires
<1>4. ASSUME NEW w \in Writes, Count(w) PROVE TypeOK'
  BY <1>4 DEF Count
<1>5. ASSUME NEW w \in Writes, Fetched(w) PROVE TypeOK'
  BY <1>5 DEF Fetched
<1>6. ASSUME NEW w \in Writes, FetchFails(w) PROVE TypeOK'
  BY <1>6 DEF FetchFails, Ends
<1>7. ASSUME NEW w \in Writes, Broadcast(w) PROVE TypeOK'
  BY <1>7 DEF Broadcast
<1>8. ASSUME NEW w \in Writes, Returns(w) PROVE TypeOK'
  BY <1>8 DEF Returns, Ends
<1>9. ASSUME NEW w \in Writes, Throws(w) PROVE TypeOK'
  BY <1>9 DEF Throws, Ends
<1>10. ASSUME NEW s \in Senders, NodeTakes(s) PROVE TypeOK'
  BY <1>10 DEF NodeTakes
<1>11. ASSUME NEW s \in Senders, NodeRefuses(s) PROVE TypeOK'
  BY <1>11 DEF NodeRefuses
<1>12. ASSUME NEW o \in Outsiders, OutsideSend(o) PROVE TypeOK'
  BY <1>12 DEF OutsideSend
<1>13. CASE Tick
  <2>1. timer' \in [Writes -> 0 .. Cap]
    BY <1>13 DEF Tick, Due, Timed
  <2>2. faults' \subseteq FaultKind
    BY <1>13 DEF Tick
  <2>. QED
    BY <1>13, <2>1, <2>2 DEF Tick
<1>14. CASE Restart
  BY <1>14 DEF Restart
<1>15. CASE UNCHANGED vars
  BY <1>15 DEF vars
<1>. QED
  BY <1>1, <1>2, <1>3, <1>4, <1>5, <1>6, <1>7, <1>8, <1>9, <1>10, <1>11, <1>12,
     <1>13, <1>14, <1>15 DEF Next

\* A transaction goes where the function that owns it has come to.
LEMMA PhaseStep ==
  ASSUME TypeOK, PhaseInv, [Next]_vars
  PROVE  PhaseInv'
<1>. USE QueueAssumption DEF TypeOK, PhaseInv, Used, lockVars, Senders
<1>1. ASSUME NEW w \in Writes, Enqueue(w) PROVE PhaseInv'
  BY <1>1 DEF Enqueue
<1>2. ASSUME NEW w \in Writes, Acquire(w) PROVE PhaseInv'
  BY <1>2 DEF Acquire, TakeNonce
<1>3. ASSUME NEW w \in Writes, RunExpires(w) PROVE PhaseInv'
  BY <1>3 DEF RunExpires
<1>4. ASSUME NEW w \in Writes, Count(w) PROVE PhaseInv'
  BY <1>4 DEF Count
<1>5. ASSUME NEW w \in Writes, Fetched(w) PROVE PhaseInv'
  BY <1>5 DEF Fetched
<1>6. ASSUME NEW w \in Writes, FetchFails(w) PROVE PhaseInv'
  BY <1>6 DEF FetchFails, Ends
<1>7. ASSUME NEW w \in Writes, Broadcast(w) PROVE PhaseInv'
  BY <1>7 DEF Broadcast
<1>8. ASSUME NEW w \in Writes, Returns(w) PROVE PhaseInv'
  BY <1>8 DEF Returns, Ends
<1>9. ASSUME NEW w \in Writes, Throws(w) PROVE PhaseInv'
  BY <1>9 DEF Throws, Ends
<1>10. ASSUME NEW s \in Senders, NodeTakes(s) PROVE PhaseInv'
  BY <1>10 DEF NodeTakes
<1>11. ASSUME NEW s \in Senders, NodeRefuses(s) PROVE PhaseInv'
  BY <1>11 DEF NodeRefuses
<1>12. ASSUME NEW o \in Outsiders, OutsideSend(o) PROVE PhaseInv'
  BY <1>12 DEF OutsideSend
<1>13. CASE Tick
  BY <1>13 DEF Tick
<1>14. CASE Restart
  BY <1>14 DEF Restart, Live, Timed
<1>15. CASE UNCHANGED vars
  BY <1>15 DEF vars
<1>. QED
  BY <1>1, <1>2, <1>3, <1>4, <1>5, <1>6, <1>7, <1>8, <1>9, <1>10, <1>11, <1>12,
     <1>13, <1>14, <1>15 DEF Next

\* No step advances the counter past a free nonce that nobody holds.
LEMMA GapStep ==
  ASSUME TypeOK, PhaseInv, GapInv, [Next]_vars
  PROVE  GapInv'
<1>. USE QueueAssumption DEF TypeOK, PhaseInv, GapInv, NoOrphanGap, Used, lockVars, Senders, Nonces
<1>1. ASSUME NEW w \in Writes, Enqueue(w) PROVE GapInv'
  BY <1>1 DEF Enqueue
<1>2. ASSUME NEW w \in Writes, Acquire(w) PROVE GapInv'
  <2>1. fn[w] = "none" /\ pool' = pool
    BY <1>2 DEF Acquire
  <2>2. CASE cached = Null
    BY <1>2, <2>1, <2>2 DEF Acquire, TakeNonce
  <2>3. CASE cached # Null
    <3>1. cached \in Nonces /\ cached' = cached + 1
          /\ fn' = [fn EXCEPT ![w] = "holding"] /\ nonce' = [nonce EXCEPT ![w] = cached]
      BY <1>2, <2>3 DEF Acquire, TakeNonce
    <3>2. ASSUME NEW m \in Nonces, m < cached', ~Used(m)'
          PROVE  \E v \in Writes : fn'[v] = "holding" /\ nonce'[v] = m
      <4>1. CASE m = cached
        BY <3>1, <4>1
      <4>2. CASE m < cached
        BY <2>1, <2>3, <3>1, <3>2, <4>2
      <4>. QED
        BY <3>1, <3>2, <4>1, <4>2
    <3>. QED
      BY <2>1, <3>1, <3>2
  <2>. QED
    BY <2>2, <2>3
<1>3. ASSUME NEW w \in Writes, RunExpires(w) PROVE GapInv'
  BY <1>3 DEF RunExpires
<1>4. ASSUME NEW w \in Writes, Count(w) PROVE GapInv'
  BY <1>4 DEF Count, IsPending
<1>5. ASSUME NEW w \in Writes, Fetched(w) PROVE GapInv'
  BY <1>5 DEF Fetched
<1>6. ASSUME NEW w \in Writes, FetchFails(w) PROVE GapInv'
  BY <1>6 DEF FetchFails, Ends
<1>7. ASSUME NEW w \in Writes, Broadcast(w) PROVE GapInv'
  BY <1>7 DEF Broadcast
<1>8. ASSUME NEW w \in Writes, Returns(w) PROVE GapInv'
  BY <1>8 DEF Returns, Ends
<1>9. ASSUME NEW w \in Writes, Throws(w) PROVE GapInv'
  BY <1>9 DEF Throws, Ends
<1>10. ASSUME NEW s \in Senders, NodeTakes(s) PROVE GapInv'
  BY <1>10 DEF NodeTakes
<1>11. ASSUME NEW s \in Senders, NodeRefuses(s) PROVE GapInv'
  BY <1>11 DEF NodeRefuses
<1>12. ASSUME NEW o \in Outsiders, OutsideSend(o) PROVE GapInv'
  BY <1>12 DEF OutsideSend
<1>13. CASE Tick
  BY <1>13 DEF Tick
<1>14. CASE Restart
  BY <1>14 DEF Restart, Live, Timed
<1>15. CASE UNCHANGED vars
  BY <1>15 DEF vars
<1>. QED
  BY <1>1, <1>2, <1>3, <1>4, <1>5, <1>6, <1>7, <1>8, <1>9, <1>10, <1>11, <1>12,
     <1>13, <1>14, <1>15 DEF Next

\* Tickets are handed out once, and a release reaches the next ticket only.
LEMMA OrderStep ==
  ASSUME TypeOK, OrderInv, [Next]_vars
  PROVE  OrderInv'
<1>. USE QueueAssumption DEF TypeOK, OrderInv, Answered, lockVars
<1>1. ASSUME NEW w \in Writes, Enqueue(w) PROVE OrderInv'
  <2>1. /\ caller[w] = "idle" /\ caller' = [caller EXCEPT ![w] = "waiting"]
        /\ seq' = seq + 1 /\ ticket' = [ticket EXCEPT ![w] = seq + 1]
        /\ UNCHANGED faults
    BY <1>1 DEF Enqueue
  <2>2. \A v \in Writes : caller[v] # "idle" => ticket[v] \in 1 .. seq /\ ticket'[v] = ticket[v]
    BY <2>1
  <2>3. \A k \in 1 .. seq' : \E v \in Writes : caller'[v] # "idle" /\ ticket'[v] = k
    <3>1. \A k \in 1 .. seq : \E v \in Writes : caller'[v] # "idle" /\ ticket'[v] = k
      BY <2>1, <2>2
    <3>2. caller'[w] # "idle" /\ ticket'[w] = seq + 1
      BY <2>1
    <3>3. \A k \in 1 .. seq' : k \in 1 .. seq \/ k = seq + 1
      BY <2>1
    <3>. QED
      BY <3>1, <3>2, <3>3
  <2>4. \A v \in Writes : caller'[v] # "idle" => ticket'[v] \in 1 .. seq'
    BY <2>1, <2>2
  <2>5. \A u, v \in Writes : caller'[u] # "idle" /\ caller'[v] # "idle"
                             /\ ticket'[u] = ticket'[v] => u = v
    BY <2>1, <2>2
  <2>6. "overtaken" \notin faults' =>
          \A u, v \in Writes :
            caller'[v] \in {"running", "ok", "failed"} /\ caller'[u] # "idle"
            /\ ticket'[u] < ticket'[v] => Answered(u)'
    BY <2>1, <2>2
  <2>. QED
    BY <2>3, <2>4, <2>5, <2>6
<1>2. ASSUME NEW w \in Writes, Acquire(w) PROVE OrderInv'
  <2>. DEFINE Before(v) == caller[v] # "idle" /\ ticket[v] < ticket[w]
  <2>1. /\ caller[w] = "waiting" /\ caller' = [caller EXCEPT ![w] = "running"]
        /\ UNCHANGED <<seq, ticket>>
        /\ "overtaken" \notin faults' => "overtaken" \notin faults /\ Released(w)
    BY <1>2 DEF Acquire
  <2>2. ASSUME "overtaken" \notin faults', NEW v \in Writes, Before(v)
        PROVE  Answered(v)
    <3>1. Released(w) /\ "overtaken" \notin faults
      BY <2>1, <2>2
    <3>2. ticket[v] \in 1 .. seq /\ ticket[w] \in 1 .. seq
      BY <2>1, <2>2
    <3>3. PICK p \in Writes : caller[p] # "idle" /\ ticket[p] = ticket[w] - 1
      <4>1. ticket[w] - 1 \in 1 .. seq
        BY <2>2, <3>2
      <4>. QED
        BY <4>1
    <3>4. Answered(p)
      BY <3>1, <3>3 DEF Released
    <3>5. CASE v = p
      BY <3>4, <3>5
    <3>6. CASE v # p
      <4>1. ticket[v] < ticket[p]
        BY <2>2, <3>2, <3>3, <3>6
      <4>. QED
        BY <2>2, <3>1, <3>3, <3>4, <4>1
    <3>. QED
      BY <3>5, <3>6
  <2>. QED
    BY <2>1, <2>2
<1>3. ASSUME NEW w \in Writes, RunExpires(w) PROVE OrderInv'
  BY <1>3 DEF RunExpires
<1>4. ASSUME NEW w \in Writes, Count(w) PROVE OrderInv'
  BY <1>4 DEF Count, IsPending
<1>5. ASSUME NEW w \in Writes, Fetched(w) PROVE OrderInv'
  BY <1>5 DEF Fetched
<1>6. ASSUME NEW w \in Writes, FetchFails(w) PROVE OrderInv'
  BY <1>6 DEF FetchFails, Ends
<1>7. ASSUME NEW w \in Writes, Broadcast(w) PROVE OrderInv'
  BY <1>7 DEF Broadcast
<1>8. ASSUME NEW w \in Writes, Returns(w) PROVE OrderInv'
  BY <1>8 DEF Returns, Ends
<1>9. ASSUME NEW w \in Writes, Throws(w) PROVE OrderInv'
  BY <1>9 DEF Throws, Ends
<1>10. ASSUME NEW s \in Senders, NodeTakes(s) PROVE OrderInv'
  BY <1>10 DEF NodeTakes
<1>11. ASSUME NEW s \in Senders, NodeRefuses(s) PROVE OrderInv'
  BY <1>11 DEF NodeRefuses
<1>12. ASSUME NEW o \in Outsiders, OutsideSend(o) PROVE OrderInv'
  BY <1>12 DEF OutsideSend, IsPending
<1>13. CASE Tick
  BY <1>13 DEF Tick, Due, Timed
<1>14. CASE Restart
  BY <1>14 DEF Restart, Live, Timed
<1>15. CASE UNCHANGED vars
  BY <1>15 DEF vars
<1>. QED
  BY <1>1, <1>2, <1>3, <1>4, <1>5, <1>6, <1>7, <1>8, <1>9, <1>10, <1>11, <1>12,
     <1>13, <1>14, <1>15 DEF Next

\* A function ends with its caller's run, or its run has reached the cap.
LEMMA LiveStep ==
  ASSUME TypeOK, PhaseInv, LiveInv, [Next]_vars
  PROVE  LiveInv'
<1>. USE QueueAssumption DEF TypeOK, PhaseInv, LiveInv, Live, lockVars
<1>1. ASSUME NEW w \in Writes, Enqueue(w) PROVE LiveInv'
  BY <1>1 DEF Enqueue
<1>2. ASSUME NEW w \in Writes, Acquire(w) PROVE LiveInv'
  BY <1>2 DEF Acquire, TakeNonce
<1>3. ASSUME NEW w \in Writes, RunExpires(w) PROVE LiveInv'
  BY <1>3 DEF RunExpires
<1>4. ASSUME NEW w \in Writes, Count(w) PROVE LiveInv'
  BY <1>4 DEF Count, IsPending
<1>5. ASSUME NEW w \in Writes, Fetched(w) PROVE LiveInv'
  BY <1>5 DEF Fetched
<1>6. ASSUME NEW w \in Writes, FetchFails(w) PROVE LiveInv'
  BY <1>6 DEF FetchFails, Ends
<1>7. ASSUME NEW w \in Writes, Broadcast(w) PROVE LiveInv'
  BY <1>7 DEF Broadcast
<1>8. ASSUME NEW w \in Writes, Returns(w) PROVE LiveInv'
  BY <1>8 DEF Returns, Ends
<1>9. ASSUME NEW w \in Writes, Throws(w) PROVE LiveInv'
  BY <1>9 DEF Throws, Ends
<1>10. ASSUME NEW s \in Senders, NodeTakes(s) PROVE LiveInv'
  BY <1>10 DEF NodeTakes
<1>11. ASSUME NEW s \in Senders, NodeRefuses(s) PROVE LiveInv'
  BY <1>11 DEF NodeRefuses
<1>12. ASSUME NEW o \in Outsiders, OutsideSend(o) PROVE LiveInv'
  BY <1>12 DEF OutsideSend, IsPending
<1>13. CASE Tick
  BY <1>13 DEF Tick, Due, Timed
<1>14. CASE Restart
  BY <1>14 DEF Restart, Live, Timed
<1>15. CASE UNCHANGED vars
  BY <1>15 DEF vars
<1>. QED
  BY <1>1, <1>2, <1>3, <1>4, <1>5, <1>6, <1>7, <1>8, <1>9, <1>10, <1>11, <1>12,
     <1>13, <1>14, <1>15 DEF Next

(* One function at a time, before and while the next write acquires.       *)
LEMMA Alone ==
  ASSUME TypeOK, OrderInv, LiveInv, "overtaken" \notin faults, "hung" \notin faults
  PROVE  /\ \A v, w \in Writes : Live(v) /\ Live(w) => v = w
         /\ \A v, w \in Writes : caller[w] = "waiting" /\ Released(w) => ~Live(v)
<1>1. ASSUME NEW v \in Writes, NEW w \in Writes, Live(v), Live(w) PROVE v = w
  <2>1. caller[v] = "running" /\ caller[w] = "running"
    BY <1>1 DEF LiveInv
  <2>2. ticket[v] \in 1 .. seq /\ ticket[w] \in 1 .. seq /\ seq \in Nat
    BY <2>1 DEF OrderInv, TypeOK
  <2>3. ~(ticket[v] < ticket[w]) /\ ~(ticket[w] < ticket[v])
    BY <2>1 DEF OrderInv, Answered
  <2>. QED
    BY <2>1, <2>2, <2>3 DEF OrderInv
<1>2. ASSUME NEW v \in Writes, NEW w \in Writes, caller[w] = "waiting", Released(w), Live(v)
      PROVE  FALSE
  <2>1. caller[v] = "running"
    BY <1>2 DEF LiveInv
  <2>2. ticket[v] \in 1 .. seq /\ ticket[w] \in 1 .. seq /\ seq \in Nat /\ v # w
    BY <1>2, <2>1 DEF OrderInv, TypeOK
  <2>3. ticket[v] < ticket[w]
    BY <1>2, <2>1, <2>2 DEF OrderInv, Answered
  <2>4. PICK p \in Writes : caller[p] # "idle" /\ ticket[p] = ticket[w] - 1
    <3>1. ticket[w] - 1 \in 1 .. seq
      BY <2>2, <2>3
    <3>. QED
      BY <3>1 DEF OrderInv
  <2>5. Answered(p)
    BY <1>2, <2>4 DEF Released
  <2>6. v # p
    BY <2>1, <2>5 DEF Answered
  <2>7. ticket[v] < ticket[p]
    BY <2>1, <2>2, <2>3, <2>4, <2>6 DEF OrderInv
  <2>. QED
    BY <2>1, <2>4, <2>5, <2>7 DEF OrderInv, Answered
<1>. QED
  BY <1>1, <1>2

\* Undisturbed, every step keeps the nonces in use an initial segment.
LEMMA SegmentStep ==
  ASSUME TypeOK, PhaseInv, OrderInv, LiveInv, SegmentInv, [Next]_vars
  PROVE  SegmentInv'
<1>0. /\ faults = {} => \A v, w \in Writes : Live(v) /\ Live(w) => v = w
      /\ faults = {} => \A v, w \in Writes : caller[w] = "waiting" /\ Released(w) => ~Live(v)
  BY Alone
<1>. USE <1>0, QueueAssumption DEF TypeOK, PhaseInv, SegmentInv, Live, Used,
         IsPending, lockVars, Senders, Nonces
<1>1. ASSUME NEW w \in Writes, Enqueue(w) PROVE SegmentInv'
  BY <1>1 DEF Enqueue
<1>2. ASSUME NEW w \in Writes, Acquire(w) PROVE SegmentInv'
  <2>. SUFFICES ASSUME faults' = {} PROVE SegmentInv'
    OBVIOUS
  <2>1. /\ faults = {} /\ Released(w) /\ caller[w] = "waiting"
        /\ caller' = [caller EXCEPT ![w] = "running"]
        /\ UNCHANGED <<tx, pool>>
    BY <1>2 DEF Acquire
  <2>2. fn[w] = "none" /\ tx[w] = "unsent" /\ \A v \in Writes : ~Live(v)
    BY <2>1
  <2>3. \A v \in Writes : tx[v] # "wire" /\ fn[v] \notin {"fetching", "counted", "holding"}
    BY <2>1, <2>2
  <2>4. CASE cached = Null
    <3>1. fn' = [fn EXCEPT ![w] = "fetching"] /\ UNCHANGED <<cached, nonce>>
      BY <1>2, <2>4 DEF Acquire, TakeNonce
    <3>. QED
      BY <2>1, <2>2, <2>3, <2>4, <3>1
  <2>5. CASE cached # Null
    <3>1. cached \in Nonces /\ cached' = cached + 1
          /\ fn' = [fn EXCEPT ![w] = "holding"] /\ nonce' = [nonce EXCEPT ![w] = cached]
      BY <1>2, <2>5 DEF Acquire, TakeNonce
    <3>2. \A m \in Nonces : Used(m) <=> m < cached
      BY <2>1, <2>3, <2>5
    <3>. QED
      BY <2>1, <2>2, <2>3, <3>1, <3>2
  <2>. QED
    BY <2>4, <2>5
<1>3. ASSUME NEW w \in Writes, RunExpires(w) PROVE SegmentInv'
  BY <1>3 DEF RunExpires
<1>4. ASSUME NEW w \in Writes, Count(w) PROVE SegmentInv'
  BY <1>4 DEF Count, IsPending
<1>5. ASSUME NEW w \in Writes, Fetched(w) PROVE SegmentInv'
  BY <1>5 DEF Fetched
<1>6. ASSUME NEW w \in Writes, FetchFails(w) PROVE SegmentInv'
  BY <1>6 DEF FetchFails, Ends
<1>7. ASSUME NEW w \in Writes, Broadcast(w) PROVE SegmentInv'
  BY <1>7 DEF Broadcast
<1>8. ASSUME NEW w \in Writes, Returns(w) PROVE SegmentInv'
  BY <1>8 DEF Returns, Ends
<1>9. ASSUME NEW w \in Writes, Throws(w) PROVE SegmentInv'
  <2>. SUFFICES ASSUME faults' = {} PROVE SegmentInv'
    OBVIOUS
  <2>1. /\ faults = {} /\ tx[w] # "wire" /\ cached' = Null /\ fn[w] = "holding"
        /\ fn' = [fn EXCEPT ![w] = "over"]
        /\ tx' = [tx EXCEPT ![w] = IF @ = "unsent" THEN "dropped" ELSE @]
        /\ UNCHANGED <<nonce, pool>>
        /\ caller' = IF caller[w] = "running" THEN [caller EXCEPT ![w] = "failed"] ELSE caller
    BY <1>9 DEF Throws, Ends
  <2>2. \A v \in Writes : fn'[v] \notin {"fetching", "counted", "holding"}
    BY <2>1
  <2>3. \A s \in Senders : /\ tx'[s] = "taken" => tx[s] = "taken"
                           /\ tx'[s] = "wire" => tx[s] = "wire"
                           /\ tx[s] = "taken" => tx'[s] = "taken"
    <3>1. \A s \in Senders : tx'[s] = IF s = w /\ tx[s] = "unsent" THEN "dropped" ELSE tx[s]
      BY <2>1
    <3>. QED
      BY <3>1
  <2>4. \A v \in Writes : tx[v] = "wire" => v = w
    BY <2>1
  <2>5. \A o \in Outsiders : tx'[o] = "unsent"
    BY <2>1
  <2>6. \A v \in Writes : caller'[v] = "ok" => caller[v] = "ok"
    BY <2>1
  <2>. QED
    BY <2>1, <2>2, <2>3, <2>4, <2>5, <2>6
<1>10. ASSUME NEW s \in Senders, NodeTakes(s) PROVE SegmentInv'
  BY <1>10 DEF NodeTakes
<1>11. ASSUME NEW s \in Senders, NodeRefuses(s) PROVE SegmentInv'
  BY <1>11 DEF NodeRefuses
<1>12. ASSUME NEW o \in Outsiders, OutsideSend(o) PROVE SegmentInv'
  BY <1>12 DEF OutsideSend, IsPending
<1>13. CASE Tick
  BY <1>13 DEF Tick, Due, Timed
<1>14. CASE Restart
  BY <1>14 DEF Restart, Live, Timed
<1>15. CASE UNCHANGED vars
  BY <1>15 DEF vars
<1>. QED
  BY <1>1, <1>2, <1>3, <1>4, <1>5, <1>6, <1>7, <1>8, <1>9, <1>10, <1>11, <1>12,
     <1>13, <1>14, <1>15 DEF Next

-----------------------------------------------------------------------------
\* The inductive invariant of queue, counter and node.
THEOREM QueueInvariant == Spec => []IInv
<1>1. Init => IInv
  BY QueueAssumption DEF Init, IInv, TypeOK, PhaseInv, GapInv, NoOrphanGap, OrderInv,
     LiveInv, SegmentInv, Used, Live, Senders, Nonces, FaultKind
<1>2. IInv /\ [Next]_vars => IInv'
  BY TypeStep, PhaseStep, GapStep, OrderStep, LiveStep, SegmentStep DEF IInv
<1>. QED
  BY <1>1, <1>2, PTL DEF Spec

\* The lock serialises: unless a wait or a run reaches its cap, no two
\* functions are alive together, however many writes are queued.
THEOREM WritesSerialised == Spec => []OneAtATime
<1>1. IInv => OneAtATime
  BY Alone DEF IInv, OneAtATime
<1>. QED
  BY <1>1, QueueInvariant, PTL

\* The counter hands out the node's next nonce while nothing disturbs it.
THEOREM NoncesFresh == Spec => []NonceFresh
<1>1. IInv => NonceFresh
  BY DEF IInv, SegmentInv, NonceFresh, PhaseInv, TypeOK, Live
<1>. QED
  BY <1>1, QueueInvariant, PTL

\* A write reported as sent stays in the node's pool.
THEOREM SentWritesStay == Spec => []SentStays
<1>1. IInv => SentStays
  BY DEF IInv, SegmentInv, SentStays
<1>. QED
  BY <1>1, QueueInvariant, PTL

\* No gap without a holder, under every disturbance.
THEOREM GapsAreHeld == Spec => []NoOrphanGap
<1>1. IInv => NoOrphanGap
  BY DEF IInv, GapInv
<1>. QED
  BY <1>1, QueueInvariant, PTL
=============================================================================
