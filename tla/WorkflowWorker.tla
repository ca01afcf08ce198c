--------------------------- MODULE WorkflowWorker ---------------------------
(***************************************************************************)
(* server/app/workflow_worker: the Host scheduling thread and its enqueue  *)
(* pool.  A pass reads the jobs row, reads the node statuses in a later    *)
(* query, caches the ready nodes, and acts on the cache in transactions of *)
(* their own; enqueue closures run later still, on the pool.               *)
(***************************************************************************)
EXTENDS ExecutionState

\* is_runnable, with the mark scan and list_jobs_by_ids taken as one read.
ReadJob ==
  /\ job.status \notin TerminalJob \cup {"paused"} /\ ~job.paused
  /\ view' = [held |-> TRUE, generation |-> job.generation, target |-> job.target]
  /\ UNCHANGED <<rows, cache, inflight>>

\* A running fan-out node with pending shards counts as pending.
EffectivelyRunnable(n) ==
  \/ nodeStatus[n] \in Runnable
  \/ /\ n \in Sharded
     /\ nodeStatus[n] = "running"
     /\ ShardsWith(shard, n, "pending") # {}
Ready(n) == EffectivelyRunnable(n) /\ \A d \in Deps[n] : nodeStatus[d] = "completed"

\* list_job_nodes_for_jobs, then evaluate_job_ready: the statuses may be newer
\* than the generation and the target the candidates will carry.
Evaluate ==
  /\ view.held
  /\ cache' = [generation |-> view.generation, target |-> view.target,
               nodes |-> {n \in Allowed(view.target) : Ready(n)}]
  /\ view' = NoView
  /\ UNCHANGED <<rows, inflight>>

\* materialize_shards_guarded: one pending row per input, once; a fan-out of
\* nothing completes the node (complete_empty_shard_node).
MaterializeShards(n, inputs) ==
  /\ n \in cache.nodes \cap Sharded
  /\ cache.generation = job.generation
  /\ ShardsWith(shard, n, "absent") = UnitsOf(n)
  /\ \/ /\ inputs # {}
        /\ shard' = [u \in ShardUnit |-> IF u[1] = n /\ u[2] \in inputs
                                         THEN [NoShardRow EXCEPT !.status = "pending"]
                                         ELSE shard[u]]
        /\ UNCHANGED <<job, nodeStatus>>
     \/ /\ inputs = {} /\ nodeStatus[n] \in Runnable
        /\ nodeStatus' = [nodeStatus EXCEPT ![n] = "completed"]
        /\ job' = PauseOnTarget(SyncJob(job, nodeStatus'), n)
        /\ UNCHANGED shard
  /\ UNCHANGED <<nodeGen, exec, request, scheduler>>

\* The remote route: has_active_request and try_mark_in_flight, then a closure
\* on the pool.
Dispatch(u) ==
  /\ u[1] \in cache.nodes \ Gate
  /\ u \in ShardUnit => shard[u].status = "pending"
  /\ request[u].state = "none"
  /\ \A f \in inflight : f.unit # u
  /\ inflight' = inflight \cup {[unit |-> u, generation |-> cache.generation]}
  /\ UNCHANGED <<rows, view, cache>>

\* Faulty: the closure enqueues under the generation it finds.
EnqueueUnchecked(f) ==
  /\ f \in inflight
  /\ inflight' = inflight \ {f}
  /\ request' = IF request[f.unit].state = "none"
                THEN [request EXCEPT ![f.unit] = [NoRequest EXCEPT !.state = "queued",
                                                  !.generation = job.generation]]
                ELSE request
  /\ UNCHANGED <<job, nodeStatus, nodeGen, shard, exec, view, cache>>

\* enqueue_request on the pool: generation CAS, one active row per unit.
Enqueue(f) ==
  /\ f \in inflight
  /\ inflight' = inflight \ {f}
  /\ request' = IF f.generation = job.generation /\ request[f.unit].state = "none"
                THEN [request EXCEPT ![f.unit] = [NoRequest EXCEPT !.state = "queued",
                                                  !.generation = f.generation]]
                ELSE request
  /\ UNCHANGED <<job, nodeStatus, nodeGen, shard, exec, view, cache>>

\* claim_lease: the local code pool.  A full pool is a claim that is not taken.
ClaimLocal(u, e) ==
  LET n == u[1] IN
  /\ n \in cache.nodes \ (Gate \cup Agent)
  /\ request[u].state = "none" /\ \A f \in inflight : f.unit # u
  /\ Unused(e)
  /\ cache.generation = job.generation
  /\ ~job.paused /\ job.target = cache.target
  /\ job.status \notin TerminalJob
  /\ CanStart(u) /\ StartUnit(u, e)
  /\ exec' = [exec EXCEPT ![e] = NewAttempt(u, "local")]
  /\ job' = [job EXCEPT !.status = "running"]
  /\ UNCHANGED <<request, scheduler>>

\* park_awaiting_approval
Park(g) ==
  /\ g \in cache.nodes \cap Gate
  /\ cache.generation = job.generation
  /\ nodeStatus[g] \in Runnable
  /\ nodeStatus' = [nodeStatus EXCEPT ![g] = "awaiting_approval"]
  /\ nodeGen' = [nodeGen EXCEPT ![g] = job.generation]
  /\ job' = SyncJob(job, nodeStatus')
  /\ UNCHANGED <<shard, exec, request, scheduler>>

\* fail_without_lease from the scheduling thread, while it holds candidate n.
FailConfig(n, e) ==
  /\ n \in cache.nodes \ Gate
  /\ cache.generation = job.generation
  /\ RecordFailure(n, e)
  /\ job' = SyncJob(job, nodeStatus')
  /\ UNCHANGED <<nodeGen, shard, request, scheduler>>

\* The same from an enqueue closure; a stale or started node only ends it.
FailEnqueue(f, e) ==
  /\ f \in inflight
  /\ inflight' = inflight \ {f}
  /\ \/ /\ f.generation = job.generation
        /\ RecordFailure(f.unit[1], e)
        /\ job' = SyncJob(job, nodeStatus')
     \/ /\ f.generation # job.generation \/ nodeStatus[f.unit[1]] \notin Runnable
        /\ UNCHANGED <<job, nodeStatus, exec>>
  /\ UNCHANGED <<nodeGen, shard, request, view, cache>>

SchedulerNext ==
  \/ ReadJob
  \/ Evaluate
  \/ \E n \in Sharded, inputs \in SUBSET Shard : MaterializeShards(n, inputs)
  \/ \E u \in Unit : Dispatch(u)
  \/ \E f \in inflight : Enqueue(f)
  \/ \E u \in Unit, e \in Exec : ClaimLocal(u, e)
  \/ \E g \in Gate : Park(g)
  \/ \E n \in Node, e \in Exec : FailConfig(n, e)
  \/ \E f \in inflight, e \in Exec : FailEnqueue(f, e)
=============================================================================
