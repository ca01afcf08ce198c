---------------------------- MODULE JobMutations ----------------------------
(***************************************************************************)
(* server/app/jobs and server/app/services: what an operator does to a     *)
(* job.  Rerun, rework and run-to reset nodes and bump the execution       *)
(* generation; an approval decision settles one parked gate; pause, resume *)
(* and continue are single updates of the jobs row and take no lock.       *)
(***************************************************************************)
EXTENDS ExecutionState

\* Faulty: only unexpired leases refuse a mutation.
BusyByLease == \E e \in Exec : Active(e) /\ exec[e].signal = "fresh"
\* lease_guarded_mutation with reject_running_nodes.  An active lease past its
\* expiry does not count.
Busy ==
  \/ \E e \in Exec : Active(e) /\ exec[e].signal = "fresh"
  \/ \E n \in Node : nodeStatus[n] = "running"

\* raise_if_failed_upstream_in_tx: a failed producer outside the reset set.
FailedUpstream(n) ==
  LET reset == {n} \cup Downstream(n)
      upstream == Closure[n] \cup UNION {Deps[m] : m \in reset}
  IN \E m \in upstream \ reset : nodeStatus[m] = "failed"

CancelQueued(S) ==
  request' = [u \in Unit |-> IF u[1] \in S /\ request[u].state = "queued"
                             THEN NoRequest ELSE request[u]]

\* mark_nodes_for_rerun for one target: reset it, make its downstream stale.
\* The pause flag, its reason and the execution mode are left alone.
MarkForRerun(n, control) ==
  LET affected == {n} \cup Downstream(n) IN
  /\ job.generation < MaxGen
  /\ job' = [control EXCEPT !.generation = @ + 1, !.status = "queued"]
  /\ nodeStatus' = [m \in Node |-> IF m = n THEN "pending"
                                   ELSE IF m \in affected THEN "stale" ELSE nodeStatus[m]]
  /\ nodeGen' = [m \in Node |-> IF m \in affected THEN job.generation + 1 ELSE nodeGen[m]]
  /\ shard' = WithoutShards(shard, affected)
  /\ CancelQueued(affected)
  /\ UNCHANGED <<exec, scheduler>>

\* commit_rerun
Rerun(n) == ~Busy /\ ~FailedUpstream(n) /\ MarkForRerun(n, job)

\* commit_rework: the gate is parked and the target is upstream of it.
Rework(g, n) ==
  /\ nodeStatus[g] = "awaiting_approval"
  /\ n \in Closure[g] \ {g}
  /\ ~Busy /\ ~FailedUpstream(n)
  /\ MarkForRerun(n, job)

UntilNode(j, t) == [j EXCEPT !.target = t, !.paused = FALSE, !.reason = ""]

\* run_to_with_start
RunToFrom(t, n) ==
  /\ n \in Closure[t]
  /\ ~Busy /\ ~FailedUpstream(n)
  /\ MarkForRerun(n, UntilNode(job, t))

\* run_to_without_start: what the target's closure still misses is reset.
RunTo(t) ==
  LET reset == {m \in Closure[t] : nodeStatus[m] # "completed"} IN
  /\ ~Busy
  /\ nodeStatus[t] # "completed"
  /\ job.generation < MaxGen
  /\ job' = [UntilNode(job, t) EXCEPT !.generation = @ + 1, !.status = "queued"]
  /\ nodeStatus' = [m \in Node |-> IF m \in reset THEN "pending" ELSE nodeStatus[m]]
  /\ nodeGen' = [m \in Node |-> IF m \in reset THEN job.generation + 1 ELSE nodeGen[m]]
  /\ shard' = WithoutShards(shard, reset)
  /\ CancelQueued(Closure[t])
  /\ UNCHANGED <<exec, scheduler>>

\* approve_gate_atomic and reject_gate_atomic
Decide(g, verdict) ==
  /\ nodeStatus[g] = "awaiting_approval"
  /\ nodeStatus' = [nodeStatus EXCEPT ![g] = verdict]
  /\ job' = SyncJob(job, nodeStatus')
  /\ UNCHANGED <<nodeGen, shard, exec, request, scheduler>>

\* mark_execution_paused
Pause ==
  /\ ~job.paused /\ job.status \notin TerminalJob
  /\ job' = [job EXCEPT !.paused = TRUE, !.reason = "operator"]
  /\ UNCHANGED <<nodeStatus, nodeGen, shard, exec, request, scheduler>>

\* clear_execution_paused
Resume ==
  /\ job.paused /\ job.reason # "target_reached"
  /\ job' = [job EXCEPT !.paused = FALSE, !.reason = "",
                        !.status = IF @ = "paused" THEN "queued" ELSE @]
  /\ UNCHANGED <<nodeStatus, nodeGen, shard, exec, request, scheduler>>

\* resume_job behind "continue": a run-to pause also returns to full mode.
Continue ==
  /\ job.status = "paused"
  /\ job' = [job EXCEPT !.status = "queued", !.paused = FALSE, !.reason = "",
                        !.target = IF job.reason = "target_reached" THEN NoTarget ELSE @]
  /\ UNCHANGED <<nodeStatus, nodeGen, shard, exec, request, scheduler>>

MutationNext ==
  \/ \E n \in Node : Rerun(n)
  \/ \E g \in Gate, n \in Node : Rework(g, n)
  \/ \E t, n \in Node : RunToFrom(t, n)
  \/ \E t \in Node : RunTo(t)
  \/ \E g \in Gate, verdict \in {"completed", "failed"} : Decide(g, verdict)
  \/ Pause
  \/ Resume
  \/ Continue
=============================================================================
