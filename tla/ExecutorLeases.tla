--------------------------- MODULE ExecutorLeases ---------------------------
(***************************************************************************)
(* server/app/executors: the writers that end an execution attempt.  A     *)
(* finish, the expiry of a local lease and the orphan recovery all run     *)
(* under the job-mutation lock, settle the lease and its run in any case,  *)
(* and touch job_nodes and jobs only while the lease still carries the     *)
(* current execution generation.                                           *)
(***************************************************************************)
EXTENDS ExecutionState

\* Faulty: no epoch check when an attempt ends.
StaleIgnored(e) == FALSE
Stale(e) == exec[e].generation # job.generation
FailedRuns(ex, n) ==
  {e \in Exec : ex[e].unit # NoUnit /\ ex[e].unit[1] = n /\ ex[e].run = "failed"}

\* The attempt's lease ends as lease, its run as run.  Nothing listens to a
\* local attempt any more; a remote one may still beat on its request.
EndAttempt(e, lease, run) ==
  LET signal == IF exec[e].lane = "local" THEN "late" ELSE exec[e].signal
  IN exec' = [exec EXCEPT ![e] = [@ EXCEPT !.lease = lease, !.run = run, !.signal = signal]]

\* on_shard_finished, then the node flip its aggregate calls for.
SettleShard(e, outcome) ==
  LET n == NodeOf(e)
      sh == [shard EXCEPT ![exec[e].unit].status = outcome]
      aggregate == Aggregate(sh, n)
  IN /\ shard' = sh
     /\ IF aggregate \in {"completed", "failed"} /\ ~Stale(e)
        THEN /\ nodeStatus' = IF nodeStatus[n] \in Runnable \cup {"running"}
                              THEN [nodeStatus EXCEPT ![n] = aggregate] ELSE nodeStatus
             /\ job' = LET synced == SyncJob(job, nodeStatus')
                       IN IF aggregate = "completed"
                          THEN PauseOnTarget(synced, n) ELSE synced
        ELSE UNCHANGED <<nodeStatus, job>>

\* Faulty: the reported outcome is written as the node status.
SettleNodeRaw(e, outcome) ==
  /\ nodeStatus' = [nodeStatus EXCEPT ![NodeOf(e)] = outcome]
  /\ job' = SyncJob(job, nodeStatus')
  /\ UNCHANGED shard
\* finish_lease past the shard and generation arms.
SettleNode(e, outcome) ==
  LET n == NodeOf(e)
      st == CASE outcome = "completed" -> "completed"
              [] outcome = "failed" -> "failed"
              [] outcome = "transient" ->
                   IF Cardinality(FailedRuns(exec', n)) < MaxTransient
                   THEN "pending" ELSE "failed"
  IN /\ nodeStatus' = [nodeStatus EXCEPT ![n] = st]
     /\ job' = IF st = "completed" THEN PauseOnTarget(SyncJob(job, nodeStatus'), n)
               ELSE SyncJob(job, nodeStatus')
     /\ UNCHANGED shard

\* finish_lease, called by the local pool or by commit_agent_result, whose
\* precheck (claimed_payload) wants the request to name this lease.
Finish(e, outcome) ==
  /\ Active(e)
  /\ exec[e].lane = "remote" => Tracks(exec[e].unit, e)
  /\ EndAttempt(e, "released", IF outcome = "completed" THEN "completed" ELSE "failed")
  /\ IF BoundToShard(e)
     THEN SettleShard(e, IF outcome = "completed" THEN "completed" ELSE "failed")
     ELSE IF Stale(e) THEN UNCHANGED <<nodeStatus, job, shard>>
     ELSE SettleNode(e, outcome)
  /\ UNCHANGED <<nodeGen, request, scheduler>>

\* Faulty: the expiry fails the job and forgets the node.
ExpireLocalJobOnly(e) ==
  /\ Active(e) /\ exec[e].lane = "local" /\ exec[e].signal # "fresh"
  /\ EndAttempt(e, "expired", "failed")
  /\ job' = [job EXCEPT !.status = "failed"]
  /\ UNCHANGED <<nodeStatus, nodeGen, shard, request, scheduler>>

\* expire_stale_leases: local leases only.  A plain node fails with its job.
ExpireLocal(e) ==
  /\ Active(e) /\ exec[e].lane = "local" /\ exec[e].signal # "fresh"
  /\ EndAttempt(e, "expired", "failed")
  /\ IF BoundToShard(e) THEN SettleShard(e, "failed")
     ELSE IF Stale(e) THEN UNCHANGED <<nodeStatus, job, shard>>
     ELSE /\ nodeStatus' = [nodeStatus EXCEPT ![NodeOf(e)] = "failed"]
          /\ job' = [job EXCEPT !.status = "failed"]
          /\ UNCHANGED shard
  /\ UNCHANGED <<nodeGen, request, scheduler>>

\* Faulty: a job without a running node is not looked at.
RecoverNodesOnly ==
  LET orphaned == {n \in Node : nodeStatus[n] = "running" /\ nodeGen[n] = job.generation}
  IN
  /\ job.status = "running" /\ orphaned # {}
  /\ \A e \in Exec : ~Active(e)
  /\ nodeStatus' = [n \in Node |-> IF n \in orphaned THEN "pending" ELSE nodeStatus[n]]
  /\ shard' = WithoutShards(shard, orphaned)
  /\ exec' = [e \in Exec |-> IF exec[e].run = "running"
                             THEN [exec[e] EXCEPT !.run = "failed"] ELSE exec[e]]
  /\ job' = SyncJob(job, nodeStatus')
  /\ UNCHANGED <<nodeGen, request, scheduler>>

\* recover_orphaned_running_jobs
Recover ==
  LET orphaned == {n \in Node : nodeStatus[n] = "running" /\ nodeGen[n] = job.generation}
  IN
  /\ job.status = "running"
  /\ \A e \in Exec : ~Active(e)
  /\ nodeStatus' = [n \in Node |-> IF n \in orphaned THEN "pending" ELSE nodeStatus[n]]
  /\ shard' = WithoutShards(shard, orphaned)
  /\ exec' = IF orphaned = {} THEN exec
             ELSE [e \in Exec |-> IF exec[e].run = "running"
                                  THEN [exec[e] EXCEPT !.run = "failed"] ELSE exec[e]]
  /\ job' = SyncJob(job, nodeStatus')
  /\ UNCHANGED <<nodeGen, request, scheduler>>

-----------------------------------------------------------------------------
(* The process behind an attempt.                                          *)

\* heartbeat_lease, and for a remote attempt _renew_in_transaction, which
\* refreshes the request row even when the lease is no longer active.
Heartbeat(e) ==
  /\ exec[e].signal = "late"
  /\ \/ exec[e].lane = "local" /\ Active(e)
     \/ exec[e].lane = "remote" /\ Tracks(exec[e].unit, e)
  /\ exec' = [exec EXCEPT ![e].signal = "fresh"]
  /\ UNCHANGED <<job, nodeStatus, nodeGen, shard, request, scheduler>>

\* Heartbeats are delayed past the TTL, or the process is gone (expires_at and
\* heartbeat_at move together, by the same TTL).
FallSilent(e) ==
  /\ Active(e) \/ (exec[e].unit \in Unit /\ Tracks(exec[e].unit, e))
  /\ exec[e].signal = "fresh"
  /\ exec' = [exec EXCEPT ![e].signal = "late"]
  /\ UNCHANGED <<job, nodeStatus, nodeGen, shard, request, scheduler>>

Outcomes == {"completed", "failed", "transient"}

LeaseNext ==
  \/ \E e \in Exec, outcome \in Outcomes : Finish(e, outcome)
  \/ \E e \in Exec : ExpireLocal(e)
  \/ Recover
  \/ \E e \in Exec : Heartbeat(e)
  \/ \E e \in Exec : FallSilent(e)
=============================================================================
