---------------------------- MODULE GroupCommit ----------------------------
(***************************************************************************)
(* The group commit of results beside the Host's other batch transactions: *)
(* a Worker's batch of heartbeats, the sweep of expired claims and batches *)
(* of claims.                                                              *)
(***************************************************************************)
EXTENDS ResultCommitBatcher

vars == <<lockVars, rows, batcher>>

Init == LocksInit /\ BatcherInit

----------------------------------------------------------------------------
Begin(t, locks) ==
  /\ Idle(t) /\ begun[t] < MaxBegun
  /\ begun' = [begun EXCEPT ![t] = @ + 1]
  /\ plan' = [plan EXCEPT ![t] = locks]
  /\ UNCHANGED <<rows, batcher>>

\* batch_heartbeat: request row, then lease row, of one execution after another.
BeginHeartbeat ==
  /\ Begin(Heartbeat, [i \in 1..(2 * Execs) |-> IF i % 2 = 1 THEN Request((i + 1) \div 2)
                                                            ELSE Lease(i \div 2)])
  /\ UNCHANGED holder

\* sweep_expired_claims: the expired requests nobody else has locked, the
\* locks of their jobs, the leases to delete.
BeginSweep ==
  /\ \E expired \in SUBSET {e \in Exec : /\ request[e] = "claimed" /\ lease[e] # "gone"
                                         /\ holder[Request(e)] = None} :
       /\ expired # {}
       /\ holder' = [l \in Lock |-> IF \E e \in expired : l = Request(e) THEN Sweep ELSE holder[l]]
       /\ Begin(Sweep, Each(Job, InLockOrder(expired)) \o Each(Lease, InLockOrder(expired)))

\* try_claim_many and the batch claim: job locks, held to the commit.
BeginClaim ==
  /\ Begin(Claim, Each(Job, InLockOrder(Claimed)))
  /\ UNCHANGED holder

CommitHeartbeat == Ready(Heartbeat) /\ End(Heartbeat) /\ UNCHANGED <<rows, batcher>>
CommitClaim == Ready(Claim) /\ End(Claim) /\ UNCHANGED <<rows, batcher>>

CommitSweep ==
  /\ Ready(Sweep)
  /\ LET swept == {e \in Exec : holder[Request(e)] = Sweep}
     IN /\ request' = [e \in Exec |-> IF e \notin swept THEN request[e]
                                      ELSE IF lease[e] = "active" THEN "queued" ELSE "done"]
        /\ lease' = [e \in Exec |-> IF e \in swept /\ lease[e] = "active" THEN "gone" ELSE lease[e]]
  /\ End(Sweep)
  /\ UNCHANGED <<reports, batcher>>

\* A row that does not match the statement's condition is not locked.
Missing(t, l) ==
  \/ l[1] = "request" /\ request[l[2]] # "claimed"
  \/ l[1] = "lease" /\ lease[l[2]] = "gone"
  \/ l[1] = "lease" /\ lease[l[2]] # "active" /\ t = Sweep

SkipRow(t) ==
  /\ Working(t)
  /\ Missing(t, Head(plan[t]))
  /\ plan' = [plan EXCEPT ![t] = IF t = Heartbeat /\ Head(@)[1] = "request" THEN Tail(Tail(@))
                                                                         ELSE Tail(@)]
  /\ UNCHANGED <<holder, begun, rows, batcher>>

Acquire(t) ==
  /\ Working(t) /\ ~Missing(t, Head(plan[t]))
  /\ TakeLock(t)
  /\ UNCHANGED <<rows, batcher>>

(***************************************************************************)
(* PostgreSQL ends one transaction of a cycle.  The arms and the direct    *)
(* finish are retried; the others raise.                                   *)
(***************************************************************************)
Retried(t) == t = Writer \/ (t \in Sub /\ sub[t] = "finishing")

MayRetry(t) == Retried(t) /\ attempt[t] + 1 < MaxAttempts

BreakCycle(t) ==
  /\ \E S \in Cycles : t \in S
  /\ IF MayRetry(t)
     THEN /\ attempt' = [attempt EXCEPT ![t] = @ + 1]
          /\ holder' = Released(t)
          /\ plan' = [plan EXCEPT ![t] = IF t = Writer THEN None
                                         ELSE <<Job(ExecOf(t)), Lease(ExecOf(t))>>]
          /\ UNCHANGED <<begun, rows, sub, queue, gate, writer>>
     ELSE \/ t = Writer /\ RaiseArm
          \/ t \in Sub /\ RaiseDirect(t)
          \/ t \in Background /\ End(t) /\ UNCHANGED <<rows, batcher>>

\* What a transaction does by itself once it has begun.
Progress(t) ==
  \/ Acquire(t)
  \/ SkipRow(t)
  \/ t = Writer /\ CommitArm
  \/ t = Heartbeat /\ CommitHeartbeat
  \/ t = Sweep /\ CommitSweep
  \/ t = Claim /\ CommitClaim
  \/ t \in Sub /\ CommitDirect(t)

WriterLoop == LoopTest \/ TakeBatch \/ Drain \/ BeginArm

Next ==
  \/ WriterLoop
  \/ RaiseArm
  \/ BeginHeartbeat
  \/ BeginSweep
  \/ BeginClaim
  \/ \E s \in Sub : Submit(s) \/ RaiseDirect(s)
  \/ Stop
  \/ \E t \in Tx : Progress(t) \/ BreakCycle(t)

(***************************************************************************)
(* Fairness: threads run, transactions go on, deadlocks are detected.      *)
(***************************************************************************)
Fairness == WF_vars(WriterLoop \/ \E t \in Tx : Progress(t) \/ BreakCycle(t))

Spec == Init /\ [][Next]_vars /\ Fairness

----------------------------------------------------------------------------
\* Locks, rows, queue and threads have their types.
TypeOK ==
  /\ holder \in [Lock -> Tx \cup {None}]
  /\ DOMAIN plan = Tx /\ \A t \in Tx : ~Idle(t) => ToSet(plan[t]) \subseteq Lock
  /\ lease \in [Exec -> {"active", "released", "gone"}]
  /\ request \in [Exec -> {"claimed", "done", "queued"}]
  /\ sub \in [Sub -> Parked \cup {"ready", "finished", "closed", "rejected", "error"}]
  /\ \A i \in DOMAIN queue : queue[i] = Sentinel \/ queue[i] = ItemOf(queue[i].by)
  /\ attempt \in [Tx -> 0..(MaxAttempts - 1)]

\* execution-generation.md 2.5: with one order of the job locks and one order
\* of the lease rows, claims, finishes, heartbeats and sweeps never wait for
\* one another in a circle over them: a cycle needs a wait for a request row.
OrderedLocksAcyclic ==
  \A S \in Cycles : \E t \in S : Head(plan[t])[1] = "request"

\* result_commit_batcher.py, isolation: every commit gets its true verdict.
\* The lease is released by exactly one of the commits that were told so, or
\* failed after the fact; nobody is told who did not.
VerdictsAreTrue ==
  \A e \in Exec :
    LET told == {s \in Sub : ExecOf(s) = e /\ sub[s] \in {"finished", "closing", "closed"}}
    IN Cardinality(told) <= 1 /\ (told # {} => lease[e] = "released")

\* A parked commit is answered, whatever fails or deadlocks beside it.
ParkedIsAnswered == <>[](\A s \in Sub : sub[s] \notin Parked)

\* sweepers.py: the request rows the sweep holds while it waits for job locks
\* "cannot close a cycle".
SweepClosesNoCycle == \A S \in Cycles : Sweep \notin S
=============================================================================
