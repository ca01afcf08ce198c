--------------------------- MODULE ExecutionState ---------------------------
(***************************************************************************)
(* The rows one job owns in PostgreSQL, as the executor, broker and        *)
(* mutation code of server/app reads and writes them: jobs, job_nodes,     *)
(* node_shards, node_runs, executor_leases, agent_execution_requests; and  *)
(* what the Host scheduler keeps in memory about the job.                  *)
(*                                                                         *)
(* Every transaction that reads or writes node state first takes the       *)
(* advisory lock "job-mutation:<job>", so a transaction is one step.  The  *)
(* actions are in the modules that extend this one, one per component.     *)
(***************************************************************************)
EXTENDS Naturals, FiniteSets

CONSTANTS
  Node,         \* the executable nodes of the workflow (start nodes excluded)
  Deps,         \* Deps[n]: the producers n waits for, explicit or implicit
  Agent,        \* nodes that only a remote Agent Worker executes
  Gate,         \* approval nodes
  Sharded,      \* code nodes that fan out over Shard
  Shard,        \* shard indexes
  Whole,        \* the "index" of a node that does not fan out
  Exec,         \* identities of execution attempts (one node_runs row each)
  NoExec,       \* no attempt
  NoUnit,       \* the unit of an attempt identity not used yet
  NoTarget,     \* execution_mode = 'full'
  MaxGen,       \* bound on jobs.execution_generation
  RequeueLimit, \* requeues of a Worker-lost claim before it fails
  MaxTransient  \* failed runs after which a transient failure is final

\* The workflow is a graph over Node whose kinds do not overlap.
ASSUME WorkflowAssumption ==
  /\ Deps \in [Node -> SUBSET Node]
  /\ Agent \subseteq Node /\ Gate \subseteq Node /\ Sharded \subseteq Node
  /\ Agent \cap Gate = {} /\ Sharded \cap (Agent \cup Gate) = {}

\* The constants that stand for "nothing" are not values of the set they mark.
ASSUME MarkAssumption ==
  /\ Whole \notin Shard
  /\ NoExec \notin Exec
  /\ NoTarget \notin Node
  /\ NoUnit \notin Node \X (Shard \cup {Whole})

ASSUME BoundAssumption ==
  MaxGen \in Nat /\ RequeueLimit \in Nat /\ MaxTransient \in Nat

\* What one lease covers: a node, or one shard of a fan-out node.
Unit == ((Node \ Sharded) \X {Whole}) \cup (Sharded \X Shard)
ShardUnit == Sharded \X Shard
AnyUnit == Node \X (Shard \cup {Whole})
UnitsOf(n) == {u \in Unit : u[1] = n}

-----------------------------------------------------------------------------
(* Graph: the dependency closure behind run-to and the reset closure.      *)

DepClosed(S) == \A n \in S : Deps[n] \subseteq S
Closure == [n \in Node |->
              {m \in Node : \A S \in SUBSET Node : n \in S /\ DepClosed(S) => m \in S}]
Downstream(n) == {m \in Node : n \in Closure[m]} \ {n}

\* The nodes a scheduling pass may claim under an execution control row.
Allowed(target) == IF target = NoTarget THEN Node ELSE Closure[target]

-----------------------------------------------------------------------------
Generations == 0..MaxGen
NodeStatuses == {"pending", "stale", "running", "awaiting_approval", "completed", "failed"}
JobStatuses == {"queued", "running", "awaiting_approval", "paused", "completed", "failed"}
Runnable == {"pending", "stale"}      \* no code path writes the third value, 'ready'
TerminalJob == {"completed", "failed"}
ClaimableJob == {"queued", "running", "awaiting_approval"}
Held == {"claimed", "reporting"}

VARIABLES
  job,        \* jobs: execution_generation, status, execution_paused,
              \*       pause_reason, target_node_key (NoTarget: full mode)
  nodeStatus, \* job_nodes.status
  nodeGen,    \* job_nodes.execution_generation
  shard,      \* node_shards: status ("absent": no row) and execution_id
  exec,       \* per attempt: its node_runs row and executor_leases row, and
              \*   whether its process still beats
  request,    \* agent_execution_requests: the active row of each unit
  view,       \* the jobs row the scheduler read and has not evaluated yet
  cache,      \* the job's entry in worker.state.job_evals
  inflight    \* enqueue closures on the enqueue pool

rows == <<job, nodeStatus, nodeGen, shard, exec, request>>
scheduler == <<view, cache, inflight>>
vars == <<job, nodeStatus, nodeGen, shard, exec, request, view, cache, inflight>>

JobRow == [generation : Generations, status : JobStatuses, paused : BOOLEAN,
           reason : {"", "operator", "target_reached"}, target : Node \cup {NoTarget}]
ShardRow == [status : {"absent", "pending", "running", "completed", "failed"},
             by : Exec \cup {NoExec}]
\* lease "deleted": the Worker-loss sweep removed the row.  signal "late": the
\* TTL passed since the last heartbeat.
ExecRow == [unit : AnyUnit \cup {NoUnit}, generation : Generations,
            lane : {"local", "remote"},
            lease : {"none", "active", "released", "expired", "deleted"},
            run : {"none", "running", "completed", "failed"},
            signal : {"fresh", "late"}]
\* state "none": no queued, claimed or reporting row (the partial unique index
\* on (job_id, node_key, shard_index) allows one).
RequestRow == [state : {"none", "queued", "claimed", "reporting"},
               generation : Generations, by : Exec \cup {NoExec}, attempt : Nat]

UnusedExec == [unit |-> NoUnit, generation |-> 0, lane |-> "local",
               lease |-> "none", run |-> "none", signal |-> "late"]
NoShardRow == [status |-> "absent", by |-> NoExec]
NoRequest == [state |-> "none", generation |-> 0, by |-> NoExec, attempt |-> 0]
NoView == [held |-> FALSE, generation |-> 0, target |-> NoTarget]

Unused(e) == exec[e].run = "none"
Active(e) == exec[e].lease = "active"
NodeOf(e) == exec[e].unit[1]
Tracks(u, e) == request[u].state \in Held /\ request[u].by = e

-----------------------------------------------------------------------------
(* Writes shared by the components.                                        *)

\* Faulty: a stale node counts as done.
DerivedStatusStaleDone(ns, paused) ==
  IF \E n \in Node : ns[n] = "running" THEN "running"
  ELSE IF \E n \in Node : ns[n] = "failed" THEN "failed"
  ELSE IF paused THEN "paused"
  ELSE IF \E n \in Node : ns[n] = "awaiting_approval" THEN "awaiting_approval"
  ELSE IF \A n \in Node : ns[n] \in {"completed", "stale"} THEN "completed"
  ELSE "queued"
\* sync_job_status: the job status derived from the node statuses.
DerivedStatus(ns, paused) ==
  IF \E n \in Node : ns[n] = "running" THEN "running"
  ELSE IF \E n \in Node : ns[n] = "failed" THEN "failed"
  ELSE IF paused THEN "paused"
  ELSE IF \E n \in Node : ns[n] = "awaiting_approval" THEN "awaiting_approval"
  ELSE IF \A n \in Node : ns[n] = "completed" THEN "completed"
  ELSE "queued"
SyncJob(j, ns) == [j EXCEPT !.status = DerivedStatus(ns, j.paused)]

\* _pause_job_on_target_completion, called after the sync for a completed n.
PauseOnTarget(j, n) ==
  IF j.target = n /\ j.status # "completed"
  THEN [j EXCEPT !.status = "paused", !.paused = TRUE, !.reason = "target_reached"]
  ELSE j

\* Faulty: the flip does not look at the status it flips from.
CanStartAnyway(u) == nodeStatus[u[1]] # "completed"
\* A claim flips the node (or the node's shard, try_start_shard) to running.
CanStart(u) ==
  IF u \in ShardUnit
  THEN nodeStatus[u[1]] \in Runnable \cup {"running"} /\ shard[u].status = "pending"
  ELSE nodeStatus[u[1]] \in Runnable
\* Faulty: the claimed node keeps the stamp of an older generation.
StartUnitUnstamped(u, e) ==
  /\ nodeStatus' = [nodeStatus EXCEPT ![u[1]] = "running"]
  /\ shard' = IF u \in ShardUnit
              THEN [shard EXCEPT ![u] = [status |-> "running", by |-> e]] ELSE shard
  /\ UNCHANGED nodeGen
StartUnit(u, e) ==
  /\ nodeStatus' = [nodeStatus EXCEPT ![u[1]] = "running"]
  /\ nodeGen' = IF nodeStatus[u[1]] \in Runnable
                THEN [nodeGen EXCEPT ![u[1]] = job.generation] ELSE nodeGen
  /\ shard' = IF u \in ShardUnit
              THEN [shard EXCEPT ![u] = [status |-> "running", by |-> e]] ELSE shard
\* The node_runs row and the active lease a claim inserts.
NewAttempt(u, laneOf) ==
  [unit |-> u, generation |-> job.generation, lane |-> laneOf,
   lease |-> "active", run |-> "running", signal |-> "fresh"]

\* Faulty: the failure is recorded whatever became of the candidate.
RecordFailureAnyway(n, e) ==
  /\ Unused(e)
  /\ nodeStatus' = [nodeStatus EXCEPT ![n] = "failed"]
  /\ exec' = [exec EXCEPT ![e] = [@ EXCEPT !.unit = <<n, Whole>>, !.run = "failed"]]
\* record_failed_node_without_execution: the node and its synthetic failed run.
\* The row's epoch column is the schema default 0; nothing reads it.
RecordFailure(n, e) ==
  /\ nodeStatus[n] \in Runnable
  /\ Unused(e)
  /\ nodeStatus' = [nodeStatus EXCEPT ![n] = "failed"]
  /\ exec' = [exec EXCEPT ![e] = [@ EXCEPT !.unit = <<n, Whole>>, !.run = "failed"]]

\* aggregate_shard_state over the shard rows of n.
ShardsWith(sh, n, st) == {u \in UnitsOf(n) : sh[u].status = st}
Aggregate(sh, n) ==
  LET rowsOf == UnitsOf(n) \ ShardsWith(sh, n, "absent")
  IN IF rowsOf = {} THEN "pending"
     ELSE IF rowsOf = ShardsWith(sh, n, "completed") THEN "completed"
     ELSE IF ShardsWith(sh, n, "failed") # {} THEN "failed"
     ELSE IF ShardsWith(sh, n, "running") # {} THEN "running"
     ELSE "pending"

\* Faulty: the shard is found by its index, whoever executes it now.
BoundToIndex(e) == exec[e].unit \in ShardUnit
\* shard_index_for_execution: the shard row still names this attempt.
BoundToShard(e) == exec[e].unit \in ShardUnit /\ shard[exec[e].unit].by = e
WithoutShards(sh, S) ==
  [u \in ShardUnit |-> IF u[1] \in S THEN NoShardRow ELSE sh[u]]

Init ==
  /\ job = [generation |-> 0, status |-> "queued", paused |-> FALSE, reason |-> "",
            target |-> NoTarget]
  /\ nodeStatus = [n \in Node |-> "pending"]
  /\ nodeGen = [n \in Node |-> 0]
  /\ shard = [u \in ShardUnit |-> NoShardRow]
  /\ exec = [e \in Exec |-> UnusedExec]
  /\ request = [u \in Unit |-> NoRequest]
  /\ view = NoView
  /\ cache = [generation |-> 0, target |-> NoTarget, nodes |-> {}]
  /\ inflight = {}
=============================================================================
