---------------------------- MODULE AgentBroker ----------------------------
(***************************************************************************)
(* server/app/agent_broker: the queue remote Workers claim from, the       *)
(* request's life after the claim, and the sweeps that close or requeue    *)
(* what a lost Worker or a crashed Host left behind.                       *)
(***************************************************************************)
EXTENDS ExecutionState

CloseRequest(u) == request' = [request EXCEPT ![u] = NoRequest]
StaleRequest(u) == request[u].generation # job.generation
\* Faulty: the claim looks at the projected status only.
JobHeldByStatus == job.status = "paused"
JobHeld == job.paused \/ job.status = "paused"

\* try_claim_candidate and promote_claim.  The generation and job-status
\* guards are read under the job-mutation lock; a Worker without capacity is
\* a claim that is not taken.
ClaimRemote(u, e) ==
  /\ request[u].state = "queued"
  /\ Unused(e)
  /\ ~JobHeld /\ job.status \in ClaimableJob
  /\ ~StaleRequest(u)
  /\ CanStart(u) /\ StartUnit(u, e)
  /\ exec' = [exec EXCEPT ![e] = NewAttempt(u, "remote")]
  /\ request' = [request EXCEPT ![u].state = "claimed", ![u].by = e,
                                ![u].attempt = @ + 1]
  /\ job' = [job EXCEPT !.status = "running"]
  /\ UNCHANGED scheduler

\* The candidates a claim attempt cancels instead.
CancelAtClaim(u) ==
  /\ request[u].state = "queued"
  /\ ~JobHeld
  /\ job.status \notin ClaimableJob \/ StaleRequest(u) \/ ~CanStart(u)
  /\ CloseRequest(u)
  /\ UNCHANGED <<job, nodeStatus, nodeGen, shard, exec, scheduler>>

\* release_slot: the Agent process exited, the upload remains.
Release(u) ==
  /\ request[u].state = "claimed"
  /\ request' = [request EXCEPT ![u].state = "reporting"]
  /\ UNCHANGED <<job, nodeStatus, nodeGen, shard, exec, scheduler>>

\* _mark_done_direct, in a transaction of its own after the finish committed.
\* A Host that crashes in between never takes it.
MarkDone(e) ==
  /\ exec[e].lane = "remote" /\ exec[e].lease = "released"
  /\ Tracks(exec[e].unit, e)
  /\ CloseRequest(exec[e].unit)
  /\ exec' = [exec EXCEPT ![e].signal = "late"]
  /\ UNCHANGED <<job, nodeStatus, nodeGen, shard, scheduler>>

\* Faulty: only requests with an active lease are selected.
SweepCandidateActive(u) ==
  /\ request[u].state \in Held
  /\ exec[request[u].by].signal # "fresh"
  /\ Active(request[u].by)
\* A request sweep_expired_claims selects: late, and its lease row exists.
SweepCandidate(u) ==
  /\ request[u].state \in Held
  /\ exec[request[u].by].signal # "fresh"
  /\ exec[request[u].by].lease # "deleted"

\* The lease has already ended: the request is closed, nothing is requeued.
SweepSettled(u) ==
  LET e == request[u].by IN
  /\ SweepCandidate(u) /\ ~Active(e)
  /\ CloseRequest(u)
  /\ exec' = [exec EXCEPT ![e].signal = "late"]
  /\ UNCHANGED <<job, nodeStatus, nodeGen, shard, scheduler>>

\* The lease is deleted and its run fails, whatever happens to the node.
DeleteLease(e) ==
  exec' = [exec EXCEPT ![e] = [@ EXCEPT !.lease = "deleted", !.run = "failed",
                                        !.signal = "late"]]

\* A claim of an older generation, or one whose node has already left running
\* and failed: the request is cancelled.
SweepCancel(u) ==
  LET e == request[u].by IN
  /\ SweepCandidate(u) /\ Active(e)
  /\ \/ StaleRequest(u)
     \/ /\ request[u].attempt <= RequeueLimit
        /\ nodeStatus[u[1]] \notin {"running", "failed"}
  /\ DeleteLease(e) /\ CloseRequest(u)
  /\ UNCHANGED <<job, nodeStatus, nodeGen, shard, scheduler>>

\* Within the limit the claim is undone.  The job status is not re-derived.
SweepRequeue(u) ==
  LET e == request[u].by
      n == u[1] IN
  /\ SweepCandidate(u) /\ Active(e)
  /\ ~StaleRequest(u)
  /\ request[u].attempt <= RequeueLimit
  /\ nodeStatus[n] \in {"running", "failed"}
  /\ DeleteLease(e)
  /\ nodeStatus' = [nodeStatus EXCEPT ![n] = "pending"]
  /\ shard' = IF BoundToShard(e) /\ shard[u].status = "running"
              THEN [shard EXCEPT ![u] = [status |-> "pending", by |-> NoExec]] ELSE shard
  /\ request' = [request EXCEPT ![u].state = "queued", ![u].by = NoExec]
  /\ UNCHANGED <<job, nodeGen, scheduler>>

\* Past the limit the shard and the running node fail.
SweepFail(u) ==
  LET e == request[u].by
      n == u[1] IN
  /\ SweepCandidate(u) /\ Active(e)
  /\ ~StaleRequest(u)
  /\ request[u].attempt > RequeueLimit
  /\ DeleteLease(e) /\ CloseRequest(u)
  /\ shard' = IF BoundToShard(e) THEN [shard EXCEPT ![u].status = "failed"] ELSE shard
  /\ nodeStatus' = IF nodeStatus[n] = "running"
                   THEN [nodeStatus EXCEPT ![n] = "failed"] ELSE nodeStatus
  /\ job' = IF nodeStatus[n] = "running" THEN SyncJob(job, nodeStatus') ELSE job
  /\ UNCHANGED <<nodeGen, scheduler>>

SweepExpired(u) == SweepSettled(u) \/ SweepCancel(u) \/ SweepRequeue(u) \/ SweepFail(u)

\* lock_sweep_candidate, as the stale-definition and unclaimable sweeps of
\* queued Agent requests use it: a stale request is cancelled,
SweepStaleQueued(u) ==
  /\ u[1] \in Agent /\ request[u].state = "queued" /\ StaleRequest(u)
  /\ CloseRequest(u)
  /\ UNCHANGED <<job, nodeStatus, nodeGen, shard, exec, scheduler>>

\* a current one is closed and its node fails; the job status is written, not
\* derived.
SweepUnclaimable(u, e) ==
  /\ u[1] \in Agent /\ request[u].state = "queued" /\ ~StaleRequest(u)
  /\ CloseRequest(u)
  /\ \/ /\ RecordFailure(u[1], e)
        /\ job' = IF job.status = "completed" THEN job
                  ELSE [job EXCEPT !.status = "failed"]
     \/ /\ nodeStatus[u[1]] \notin Runnable
        /\ UNCHANGED <<job, nodeStatus, exec>>
  /\ UNCHANGED <<nodeGen, shard, scheduler>>

BrokerNext ==
  \/ \E u \in Unit, e \in Exec : ClaimRemote(u, e)
  \/ \E u \in Unit : CancelAtClaim(u)
  \/ \E u \in Unit : Release(u)
  \/ \E e \in Exec : MarkDone(e)
  \/ \E u \in Unit : SweepExpired(u)
  \/ \E u \in Unit : SweepStaleQueued(u)
  \/ \E u \in Unit, e \in Exec : SweepUnclaimable(u, e)
=============================================================================
