---------------------------- MODULE DeployerQueue ----------------------------
(***************************************************************************)
(* The queue of deployer-signed writes of the web app                      *)
(* (apps/web/src/lib/contracts.ts): withDeployerLock, the cached nonce     *)
(* counter, and the wallet client that uses both.                          *)
(*                                                                         *)
(* A write waits for the write before it, takes a nonce and broadcasts.    *)
(* Both the wait and the run are raced against the same cap. A run that    *)
(* loses the race is abandoned, not stopped: its function goes on, with    *)
(* its nonce, while the lock passes to the next write. Other clients of    *)
(* the same key (the group actions) use neither lock nor counter.          *)
(***************************************************************************)
EXTENDS Integers, FiniteSets

CONSTANTS Writes,    \* the calls of writeContract and sendTransaction
          Outsiders, \* transactions of other clients of the deployer key
          Cap,       \* DEPLOYER_WRITE_TIMEOUT_MS, in ticks
          MaxNonce,  \* bound on the nonces of one behaviour
          Nobody,    \* a nonce no transaction has taken
          Null       \* a counter that is not initialised

ASSUME QueueAssumption ==
  /\ Cap \in Nat \ {0}
  /\ MaxNonce \in Nat
  /\ Writes \cap Outsiders = {}
  /\ Nobody \notin Writes \cup Outsiders
  /\ Null \notin Int

Senders == Writes \cup Outsiders
Nonces == 0 .. MaxNonce

VARIABLES
  seq,     \* deployerLock.seq
  ticket,  \* the id of a write: its predecessor's promise has the id before
  caller,  \* what the caller of a write sees
  timer,   \* ticks left of the setTimeout that the caller races against
  fn,      \* the write's own function, which outlives its caller's patience
  cached,  \* deployerNonce.nonce
  nonce,   \* the nonce each sender counted or took
  tx,      \* the signed transaction of each sender
  pool,    \* per nonce, the transaction the node has for it
  faults   \* history: what the lock alone cannot order

lockVars == <<seq, ticket, caller, timer>>
nodeVars == <<pool>>
vars == <<seq, ticket, caller, timer, fn, cached, nonce, tx, pool, faults>>

FaultKind == {"overtaken", "hung", "late", "outside"}

TypeOK ==
  /\ seq \in Nat
  /\ ticket \in [Writes -> Nat]
  /\ caller \in [Writes -> {"idle", "waiting", "running", "ok", "failed"}]
  /\ timer \in [Writes -> 0 .. Cap]
  /\ fn \in [Writes -> {"none", "fetching", "counted", "holding", "over"}]
  /\ cached \in (0 .. MaxNonce + 1) \cup {Null}
  /\ nonce \in [Senders -> Nonces]
  /\ tx \in [Senders -> {"unsent", "wire", "taken", "dropped"}]
  /\ pool \in [Nonces -> Senders \cup {Nobody}]
  /\ faults \subseteq FaultKind

Init ==
  /\ seq = 0
  /\ ticket = [w \in Writes |-> 0]
  /\ caller = [w \in Writes |-> "idle"]
  /\ timer = [w \in Writes |-> 0]
  /\ fn = [w \in Writes |-> "none"]
  /\ cached = Null
  /\ nonce = [s \in Senders |-> 0]
  /\ tx = [s \in Senders |-> "unsent"]
  /\ pool = [n \in Nonces |-> Nobody]
  /\ faults = {}

-----------------------------------------------------------------------------
(* The lock.                                                               *)

Answered(w) == caller[w] \in {"ok", "failed"}
Live(w) == fn[w] \in {"fetching", "counted", "holding"}

\* Mutation: a predecessor that still waits counts as done.
ReleasedUnlessRunning(w) ==
  \A v \in Writes :
    caller[v] # "idle" /\ ticket[v] = ticket[w] - 1 => caller[v] # "running"

\* The promise of the write before w is resolved (its finally has run).
Released(w) ==
  \A v \in Writes :
    caller[v] # "idle" /\ ticket[v] = ticket[w] - 1 => Answered(v)

\* The write joins the queue; its wait is capped from this moment.
Enqueue(w) ==
  /\ caller[w] = "idle"
  /\ seq' = seq + 1
  /\ ticket' = [ticket EXCEPT ![w] = seq + 1]
  /\ caller' = [caller EXCEPT ![w] = "waiting"]
  /\ timer' = [timer EXCEPT ![w] = Cap]
  /\ UNCHANGED <<fn, cached, nonce, tx, pool, faults>>

\* Mutation: the counter is read but not advanced.
TakeSameNonce(w) ==
  IF cached = Null
    THEN /\ fn' = [fn EXCEPT ![w] = "fetching"]
         /\ UNCHANGED <<cached, nonce>>
    ELSE /\ cached \in Nonces
         /\ fn' = [fn EXCEPT ![w] = "holding"]
         /\ nonce' = [nonce EXCEPT ![w] = cached]
         /\ UNCHANGED cached

\* Take the counter's value, or ask the node for one.
TakeNonce(w) ==
  IF cached = Null
    THEN /\ fn' = [fn EXCEPT ![w] = "fetching"]
         /\ UNCHANGED <<cached, nonce>>
    ELSE /\ cached \in Nonces
         /\ fn' = [fn EXCEPT ![w] = "holding"]
         /\ nonce' = [nonce EXCEPT ![w] = cached]
         /\ cached' = cached + 1

\* The wait is over, by release or by its cap; the function starts.
Acquire(w) ==
  /\ caller[w] = "waiting"
  /\ Released(w) \/ timer[w] = 0
  /\ caller' = [caller EXCEPT ![w] = "running"]
  /\ timer' = [timer EXCEPT ![w] = Cap]
  /\ TakeNonce(w)
  /\ faults' = IF Released(w) THEN faults ELSE faults \cup {"overtaken"}
  /\ UNCHANGED <<seq, ticket, tx, pool>>

\* Mutation: the cap is put around the broadcast alone.
BroadcastExpires(w) ==
  /\ fn[w] = "holding"
  /\ caller[w] = "running"
  /\ timer[w] = 0
  /\ caller' = [caller EXCEPT ![w] = "failed"]
  /\ UNCHANGED <<seq, ticket, timer, fn, cached, nonce, tx, pool, faults>>

\* The run loses the race: the caller gets an error, the lock is released and
\* the function goes on.
RunExpires(w) ==
  /\ caller[w] = "running"
  /\ timer[w] = 0
  /\ caller' = [caller EXCEPT ![w] = "failed"]
  /\ UNCHANGED <<seq, ticket, timer, fn, cached, nonce, tx, pool, faults>>

\* Local steps take no time next to the cap: a tick waits for those due.
Due(w) == \/ caller[w] = "waiting" /\ (Released(w) \/ timer[w] = 0)
          \/ caller[w] = "running" /\ timer[w] = 0

Timed == {w \in Writes : caller[w] \in {"waiting", "running"}}

Tick ==
  /\ Timed # {}
  /\ \A w \in Writes : ~Due(w)
  /\ timer' = [w \in Writes |-> IF w \in Timed THEN timer[w] - 1 ELSE timer[w]]
  /\ faults' = IF \E w \in Writes : caller[w] = "running" /\ timer[w] = 1
                 THEN faults \cup {"hung"} ELSE faults
  /\ UNCHANGED <<seq, ticket, caller, fn, cached, nonce, tx, pool>>

-----------------------------------------------------------------------------
(* The nonce and the broadcast.                                            *)

Used(n) == pool[n] # Nobody

\* n is what getTransactionCount('pending') answers: the first free nonce.
IsPending(n) == ~Used(n) /\ \A m \in Nonces : m < n => Used(m)

\* The function of w ends; its caller, if still there, learns how.
Ends(w, outcome) ==
  /\ fn' = [fn EXCEPT ![w] = "over"]
  /\ caller' = IF caller[w] = "running"
                 THEN [caller EXCEPT ![w] = outcome] ELSE caller
  /\ timer' = [timer EXCEPT ![w] = 0]

\* The node answers the count ...
Count(w) ==
  /\ fn[w] = "fetching"
  /\ \E n \in Nonces : IsPending(n) /\ nonce' = [nonce EXCEPT ![w] = n]
  /\ fn' = [fn EXCEPT ![w] = "counted"]
  /\ UNCHANGED <<lockVars, cached, tx, pool, faults>>

\* ... and the answer overwrites the counter, whatever it holds by now.
Fetched(w) ==
  /\ fn[w] = "counted"
  /\ fn' = [fn EXCEPT ![w] = "holding"]
  /\ cached' = nonce[w] + 1
  /\ UNCHANGED <<lockVars, nonce, tx, pool, faults>>

\* The count fails: nextDeployerNonce throws, outside the try.
FetchFails(w) ==
  /\ fn[w] \in {"fetching", "counted"}
  /\ Ends(w, "failed")
  /\ tx' = [tx EXCEPT ![w] = "dropped"]
  /\ UNCHANGED <<seq, ticket, cached, nonce, pool, faults>>

\* Gas and fees are known, the transaction is signed and on its way.
Broadcast(w) ==
  /\ fn[w] = "holding"
  /\ tx[w] = "unsent"
  /\ tx' = [tx EXCEPT ![w] = "wire"]
  /\ UNCHANGED <<lockVars, fn, cached, nonce, pool, faults>>

\* The node's answer arrives: the write has its hash.
Returns(w) ==
  /\ fn[w] = "holding"
  /\ tx[w] = "taken"
  /\ Ends(w, "ok")
  /\ UNCHANGED <<seq, ticket, cached, nonce, tx, pool, faults>>

\* Mutation: no answer to a broadcast leaves the counter as it was.
ThrowsIfAnswered(w) ==
  /\ fn[w] = "holding"
  /\ Ends(w, "failed")
  /\ cached' = IF tx[w] \in {"wire", "taken"} THEN cached ELSE Null
  /\ tx' = [tx EXCEPT ![w] = IF @ = "unsent" THEN "dropped" ELSE @]
  /\ faults' = IF tx[w] = "wire" THEN faults \cup {"late"} ELSE faults
  /\ UNCHANGED <<seq, ticket, nonce, pool>>

\* An estimate reverts, the node refuses or an answer is lost: the counter is
\* dropped. A request may outlive the call that sent it.
Throws(w) ==
  /\ fn[w] = "holding"
  /\ Ends(w, "failed")
  /\ cached' = Null
  /\ tx' = [tx EXCEPT ![w] = IF @ = "unsent" THEN "dropped" ELSE @]
  /\ faults' = IF tx[w] = "wire" THEN faults \cup {"late"} ELSE faults
  /\ UNCHANGED <<seq, ticket, nonce, pool>>

-----------------------------------------------------------------------------
(* The node and the other clients of the key.                              *)

\* A transaction of a free nonce is taken, with a gap before it or not. One of
\* a used nonce may replace the earlier one, if it pays more.
NodeTakes(s) ==
  /\ tx[s] = "wire"
  /\ tx' = [tx EXCEPT ![s] = "taken"]
  /\ pool' = [pool EXCEPT ![nonce[s]] = s]
  /\ UNCHANGED <<lockVars, fn, cached, nonce, faults>>

NodeRefuses(s) ==
  /\ tx[s] = "wire"
  /\ tx' = [tx EXCEPT ![s] = "dropped"]
  /\ UNCHANGED <<lockVars, fn, cached, nonce, pool, faults>>

\* updateGroupHealth asks the node for the next nonce and sends by itself.
OutsideSend(o) ==
  /\ tx[o] = "unsent"
  /\ \E n \in Nonces : IsPending(n) /\ nonce' = [nonce EXCEPT ![o] = n]
  /\ tx' = [tx EXCEPT ![o] = "wire"]
  /\ faults' = faults \cup {"outside"}
  /\ UNCHANGED <<lockVars, fn, cached, pool>>

\* The Node process dies: queue, counter and functions with it. Requests on
\* the wire may still arrive.
Restart ==
  /\ caller' = [w \in Writes |-> IF w \in Timed THEN "failed" ELSE caller[w]]
  /\ fn' = [w \in Writes |-> IF Live(w) THEN "over" ELSE fn[w]]
  /\ cached' = Null
  /\ faults' = IF \E w \in Writes : tx[w] = "wire"
                 THEN faults \cup {"late"} ELSE faults
  /\ timer' = [w \in Writes |-> 0]
  /\ tx' = [s \in Senders |->
             IF s \in Writes /\ tx[s] = "unsent" /\ Live(s)
               THEN "dropped" ELSE tx[s]]
  /\ UNCHANGED <<seq, ticket, nonce, pool>>

Next ==
  \/ \E w \in Writes : \/ Enqueue(w) \/ Acquire(w) \/ RunExpires(w)
                       \/ Count(w) \/ Fetched(w) \/ FetchFails(w)
                       \/ Broadcast(w) \/ Returns(w) \/ Throws(w)
  \/ \E s \in Senders : NodeTakes(s) \/ NodeRefuses(s)
  \/ \E o \in Outsiders : OutsideSend(o)
  \/ Tick
  \/ Restart

Spec == Init /\ [][Next]_vars

(* Timers fire and the event loop runs what is due. Nothing is assumed of  *)
(* the node, the network or the functions: they may hang for ever.         *)
Fairness ==
  /\ WF_vars(Tick)
  /\ \A w \in Writes : WF_vars(Acquire(w)) /\ WF_vars(RunExpires(w))

FairSpec == Spec /\ Fairness

-----------------------------------------------------------------------------
(* Properties.                                                             *)

\* Without a cap that was reached, the functions of two writes never overlap: the
\* lock serialises count and broadcast (contracts.ts 50-52).
OneAtATime ==
  faults \cap {"overtaken", "hung"} = {} =>
    \A v, w \in Writes : Live(v) /\ Live(w) => v = w

\* Undisturbed, a write broadcasts exactly the nonce the node expects next,
\* although the counter was filled by an earlier write or an earlier failure.
NonceFresh ==
  faults = {} =>
    \A w \in Writes : Live(w) /\ tx[w] \in {"unsent", "wire"}
                      /\ fn[w] # "fetching" => IsPending(nonce[w])

\* Undisturbed, a write whose caller was told "sent" is never replaced.
SentStays ==
  faults = {} => \A w \in Writes : caller[w] = "ok" => pool[nonce[w]] = w

\* Whatever times out, fails, comes late or writes past the lock: the counter
\* never runs ahead of the node by a nonce that nobody holds, so transactions
\* do not wait for ever behind a gap.
NoOrphanGap ==
  cached # Null =>
    \A m \in Nonces :
      m < cached /\ ~Used(m) =>
        \E w \in Writes : fn[w] = "holding" /\ nonce[w] = m

\* Every call of the wallet client is answered, though the node may never
\* answer: a hung write neither hangs its caller nor those behind it.
EveryWriteAnswered ==
  \A w \in Writes : caller[w] \in {"waiting", "running"} ~> Answered(w)
=============================================================================
