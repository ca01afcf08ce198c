# agent-legion in TLA+

Specifications of the parts of agent-legion that decide *who executes what, and
whether an answer still counts*: the Host scheduler, executor leases, Agent
broker and operators' mutations over the rows of one job; the Agent Worker that
runs and delivers an execution; the group commit of results and the locks around
it; the slots and limits that claims of several jobs compete for; the bytes of an
output on their way from the Worker to its consumers; and the asynchronous batch
operations. Paths are relative to
`src/server/app/` unless they start with `src/`.

## 1. The system

A job runs the nodes of a workflow graph. Code nodes run on a local pool or on a
remote Worker, Agent nodes only on a Worker, approval nodes wait for an operator,
and a code node may fan out into shards. The Host keeps everything in
PostgreSQL; Workers talk to it over HTTP (claim, heartbeat, release, result).
`src/docs/architecture/execution-generation.md` describes the protocol that keeps late answers out:
every reset of nodes increments `jobs.execution_generation`, requests and leases
carry the generation they were made under, and every writer takes the advisory
lock `job-mutation:<job>` before it compares.

| Component | State | Operations | Correct when |
|---|---|---|---|
| Job rows (`db/postgres_schema.sql`, `executors/_lease_control.py`) | `jobs`, `job_nodes`, `node_shards`, `node_runs`, `executor_leases`, `agent_execution_requests` | derive the job status, record a failure | the rows of one attempt agree; a job is completed only with all its nodes |
| Workflow worker (`workflow_worker/`, `agent_broker/enqueue.py`) | evaluation cache, enqueue pool | scan, evaluate, dispatch, enqueue, claim locally, fan out, park, fail a configuration | no node starts before its producers although it decides on old reads |
| Executor leases (`executors/`) | leases, runs | claim, finish, expire, recover, heartbeat | one live attempt per node or shard; an old attempt never overwrites a new one; every attempt ends |
| Fan-out shards (`workflows/sharding*.py`) | `node_shards` | materialise, start, finish, aggregate, requeue, delete | a live attempt keeps its shard; a shard row never strands |
| Agent broker (`agent_broker/`) | requests | claim, cancel, release, mark done, five sweeps | every remote attempt is followed by a request, and every held request ends |
| Job mutations (`jobs/`, `services/job_*`, `services/approval_*`) | control columns of `jobs` | rerun, rework, run-to, approve, reject, pause, resume, continue | a reset never pulls a node from under a live lease; a held job can be continued |
| Result group commit (`agent_broker/result_commit_*.py`, `executors/_lease_finish_*.py`) | queue, writer thread, parked commits, locks | submit, drain, finish arm, close arm, isolate, retry, stop | every commit gets its own verdict; nobody stays parked; the locks form no circle |
| Agent Worker (`src/worker/execution/`, `src/worker/upload/`) | execution directory with its two markers, mutex, upload handoff, slots of the upload lanes, heartbeat registry | register, fence, prepare, run, submit, upload, report, drop, restore | one attempt at a time has the directory; a live lease is beaten and never condemned; a result is kept until it is answered |
| Batch operations (`services/job_batch_operations/`, `jobs/queries/job_batch_operations.py`) | operation row, results by position | claim, load, run, record, complete, advance, pause, resume, cancel | every position has a verdict, no recorded position runs again, what is repeated or skipped is accounted for, the operator's decision stands |
| Artifact plane (`executors/artifact_*.py`, `agent_control/completion*.py`, `agent_broker/remote_artifact*.py`, `services/job_artifact_maintenance.py`, `workflow_worker/input_hydration.py`) | job directory, manifest rows, objects by version key, Worker's staging objects | verify, copy, register, finish, delete superseded, collect, re-upload, evict, hydrate | a row names the bytes it describes; the bytes a consumer reads are those of the result that completed the producer; the output of a completed node is never lost |
| Graph algorithms and branches (`workflows/`, `services/job_reset_closure.py`, `workflow_worker/eval_*.py`) | node status `not_applicable`, condition files, cached evaluation | consumption graph, closures, verdicts, barriers, readiness | a verdict is given on final files; no result rests on replaced bytes; the barriers do not hang the job |
| Capacity pools and limits (`agent_broker/claim_*`, `executors/_lease_claim*`, `jobs/node_limits.py`) | active leases, claimed requests, node limits, route cache, buffered claims, pool locks | pass of the local pool with its flush, batch claim in a read and a write phase, release, expiry, requeue, configuration of limits | no slot is given twice, although several parties count and then insert |
| Upgrade/inherit, intake and run feeder, job deletion, Studio, events, connections, routes/auth/MCP, storage, velites, frontend | | | not modelled, see section 8 |

The components of the core interact through the rows alone, plus two in-memory
structures of the Host (the cache of ready nodes and the enqueue closures in
flight). What is hard: the scheduler reads the jobs row and the node statuses in
different queries and acts on the result in later transactions; enqueue closures
run later still; a remote result is two commits (finish, then `mark_done`)
between which the Host can crash; Workers fall silent and come back; a sweep may
requeue work whose late result is under way; a reset may land at any point. On
the Worker, the Host may grant an execution again while threads of the old
attempt still hold its directory; beats, answers and verdicts are lost or late.
The bytes of an output live on three planes that no transaction spans, and five
parties write them. In the group commit one bad item or one deadlock aborts what others share. A
batch operation is interrupted by its operator or a crash between any two of its
writes. PROJECT.json lists each hazard at its line with the properties that
cover it.

## 2. Modules

    ExecutionState      the rows, derived job status, writes shared by components
      WorkflowWorker    scheduling pass and enqueue pool
      ExecutorLeases    how attempts end, and the processes behind them
      AgentBroker       request queue, remote claim, sweeps
      JobMutations      operators
        Execution       composes the four: Next, Spec, fairness, all properties
          OwnershipProofs    types, ownership invariant, no double execution, Execution implements FencedLock
            AuthorityProofs  producers first, authorized starts, stale attempts harmless
    FencedLock          abstract: a lock per unit, fenced by an epoch
    JobStatusSync       sync_job_status statement by statement, and operators without lock

    WorkerState         one execution on one Worker: directory, registry, handoff
      WorkerExecution   the thread of an attempt
      UploadQueue       the delivery of its result
        WorkerDelivery  both, with the heartbeat loop, the Host and the network
          DeliveryProofs     one attempt at a time has the directory; an honoured lease is
                             not condemned, beaten, and its result kept

    TransactionLocks    locks of PostgreSQL as transactions take them
      ResultCommitBatcher   queue, writer and callers of the group commit
        GroupCommit     beside heartbeats, sweeps and claim batches
          CommitProofs       true verdicts, no cycle among job and lease locks

    CapacityPools       several jobs of one workspace and the slots they share
      CapacityProofs    types, node limits, pools

    BatchOperations     one batch operation and its feeder
      BatchProofs       verdict for all, repetitions and skips accounted for, operator's word stands

    ArtifactPlane       the bytes of one output: job directory, manifest, objects
      PlaneProofs       rows have their bytes, files are outputs, outputs survive

    WorkflowGraph       pure algorithms over a workflow definition
      BranchScheduling  one job with conditional edges: worker's pass, attempts, rerun
        BranchProofs    reset closures, no missed wake-up, fresh inputs, verdicts, ways to hang

    MC_Branch           families of small workflows for BranchScheduling
    MC_Core, MC_Shard, MC_Live   instances of Execution for TLC
    MC_Plane            instance of ArtifactPlane with its symmetry
    MC_Capacity         instance of CapacityPools with its symmetry

### The execution core

**State.** `job` is the `jobs` row (generation, status, `execution_paused`,
`pause_reason`, `target_node_key`); `nodeStatus` and `nodeGen` are two columns of
`job_nodes`; `shard` is `node_shards`; `request` the single row a unit can have in
queued, claimed or reporting (partial unique index). `exec` joins the
`node_runs` and `executor_leases` rows of one attempt, which are inserted together, and
adds `signal`: whether the process behind the attempt has beaten within the TTL.
Expiry times and clocks are this one value: `expires_at` of the lease and
`heartbeat_at` of the request move together. `view`, `cache` and `inflight` are
the scheduler's memory. A *unit* is what one lease covers: a node, or a shard.

**Attempts.** Each claim takes a new identity from `Exec`. In the code a requeued
request keeps its `execution_id` and gets a new lease; the requeue clears the
shard's `execution_id`, so the identity of an attempt and the pair
(execution, lease) tell the same things apart.

**Steps.** A transaction under the job-mutation lock is one action, with every
call it makes: the flip, the shard aggregate, the derived job status and the
pause at a reached target are inside `Finish`, `Decide`, `SweepFail` and so on.
Pause, resume and continue are single guarded UPDATEs that take no lock, hence
single steps too. A batch sweep is its per-row body, one row per action: rows
of one job are read and written under the same lock in a loop, and the rows a
batch leaves for later are unaffected. What is *not* one step: read of the jobs
row / evaluation / dispatch / enqueue; finish / `mark_done`; claim / release /
result. A Host crash between finish and `mark_done` is a behaviour in which
`MarkDone` is never taken for that request.

| Action | Code |
|---|---|
| `ReadJob`, `Evaluate` | `workflow_worker/scan.py`, `eval_batch.py`, `ready_cache.py`, `workflows/scheduler.py` |
| `MaterializeShards` | `workflow_worker/shard_fanout.py`, `executors/_lease_shards.py` (empty fan-out) |
| `Dispatch`, `Enqueue`, `FailEnqueue` | `workflow_worker/agent_claim.py`, `code_claim.py`, `agent_broker/enqueue.py` |
| `ClaimLocal` | `executors/_lease_claims.py` |
| `Park`, `FailConfig` | `executors/_lease_approval.py`, `_lease_config_failure.py` |
| `Finish` | `executors/_lease_lifecycle.py`, `_lease_transient_retry.py`, `_lease_shards.py`, called by `agent_broker/agent_result_commit.py` and the local pool |
| `ExpireLocal`, `Recover` | `executors/_lease_expiry.py`, `_lease_write_paths.py` |
| `Heartbeat`, `FallSilent` | `agent_broker/heartbeat_single.py`; the process itself is outside |
| `ClaimRemote`, `CancelAtClaim` | `agent_broker/claim_evaluate.py`, `claim_promote.py` |
| `Release`, `MarkDone` | `agent_broker/release.py`, `broker.py` |
| `SweepSettled`, `SweepCancel`, `SweepRequeue`, `SweepFail` | the four arms of `agent_broker/sweepers.py` |
| `SweepStaleQueued`, `SweepUnclaimable` | `sweeper_definitions.py`, `unclaimable.py`, `sweep_generation.py` |
| `Rerun`, `Rework`, `RunToFrom`, `RunTo` | `services/job_rerun/single.py`, `approval_rework_commit.py`, `job_run_to.py`, `jobs/run_to_mutation.py`, `atomic_mutations.py` |
| `Decide`, `Pause`, `Resume`, `Continue` | `jobs/queries/approval_decisions.py`, `jobs/execution_pause.py`, `jobs/job_state_mutations.py` |

Definitions whose comment begins with "Faulty:" are plausible mistakes in the
definition after them. Nothing uses them; they record which error each property
detects (PROJECT.json, "mutants").

**Abstractions.** Why a claim is refused for capacity (see `CapacityPools`), labels
or access is left out here: a refused claim is a claim that is not taken. That a failure is
transient, that a configuration is broken or a request unclaimable is a free choice.
Artifacts, logs and messages are left out. The node status `ready` and the
branch status `not_applicable` never occur in the modelled part. Start nodes are
not in `Node`. Closures contain no same-name producers (`job_reset_closure.py`
extends the reset set by producers of the same output name).

### The status of a job between two statements (`JobStatusSync`)

The core takes a finish as one step because everything that writes nodes holds
the job-mutation lock. Pause, resume and continue do not: they are guarded
UPDATEs of the jobs row, and under READ COMMITTED they land between the SELECTs
and the UPDATE of `sync_job_status`. Here a finish is `BeginFinish`, `SyncRead`
and `SyncWrite`, and `resume_job` its SELECT and its guarded UPDATE.

### The Worker (`WorkerState`, `WorkerExecution`, `UploadQueue`, `WorkerDelivery`)

A model of *one* execution: what the Worker shares between attempts is keyed by
the execution id, but for two things. `depth` counts the deliveries of all
executions, and the `LaneScheduler` gives all of them `Lanes` slots
(`src/worker/upload/scheduler.py:73`, default 4). Of the other executions the model
has the slots their deliveries hold, `others`, which they take and give back at any
time or never (`OtherStarts`, `OtherEnds`). A lease is one grant of the execution by
the Host.

* `pc[l]` is where the thread of `run_execution` is; `mutex`, `dir` (the owner
  marker and the pending marker), `active`/`depth` (the handoff), `entry` (the
  registry's entry) and `lost` (the two `ownership_lost` events of a lease) are
  what attempts share. `task[l]` is the upload task with the stage it is in, the
  last answer of the Host and how often it was degraded.
* `WorkerExecution`: one action per stretch of `run_execution` and
  `deliver_result` between two waits. `UploadQueue`: `_deliver_bulk`,
  `report_task` with its retry loop, `drop_marker`, `_finalize`. A task needs a free
  slot to start its transfer and again to start its report, and keeps the second
  through all its retries and backoffs (`src/worker/upload/report.py:62-98`).
* `WorkerDelivery` adds the loop of batched heartbeats, whose reply may come
  from the Host or through the relay file of the supervisor, and the Host as a
  Worker observes it: a lease is granted, expires or commits. A report stays in
  `flying` until the Host handles it, perhaps long after the Worker gave it up.
  `Crash` is the death of the executor together with what its restart does
  (`restore`, `clean_work_root`): nothing runs in between.
* Left out: what is uploaded, transfer channels, backoff times, budgets of the
  claim loop, the sandbox. An expired lease is the Host's free choice, except
  that with `WaitFitsLease` a claim does not expire while it waits for the mutex
  (section 6).

### Group commit and locks (`TransactionLocks`, `ResultCommitBatcher`, `GroupCommit`)

A transaction is a list of locks it still wants (`plan`) and the locks it
`holder`s; it takes them one by one and writes at the commit. Job locks go
through a hash (`HashSpace` keys for `Jobs` jobs) as `hashtext` does, so two
jobs may share one. The batcher is `queue`, `gate`, `writer` with its round,
and where each caller is parked; both arms (finish, close), the replay of an
aborted round one item at a time, the bounded retry after a deadlock, `stop()`
with its sentinel and the direct path of a closed batcher are actions.
`BreakCycle` is PostgreSQL's detector: any member of a cycle may be the victim.
Heartbeat batches, sweeps and claim batches are the other transactions, each
begun at most `MaxBegun` times. Rows carry only the status the commits compare.

### Capacity pools (`CapacityPools`)

Several jobs of one workspace, each with one node. `node`, `request`, `owner` and
`lease` are its rows, reduced to what counts as a slot: a lease counts while it is
`live` and no more once it is `overdue` (active, but past `expires_at`); a request
counts while it is claimed. `limit` is `workspace_node_limits`, `route` the limit
in the worker's route cache. The claim transactions are the local pass (`Local`)
and the polls of Workers, each with its `stage`, what it has still `todo`, has
`seen` and has `got`; `pool` and `ws` hold the two pool locks. Other transactions
see a claim at its commit, the transaction itself at once.

* *Local pass*: `BeginPass` is the buffering of candidates against the capacity
  snapshot, `ClaimLocal` one `claim_lease` of the flush, `AbortPass` the
  `ValueError` on a limit other than the one carried, which rolls the whole
  transaction back, `CommitPass` its end.
* *Batch claim*: `Select` is the read phase, without locks; `Begin` locks the
  Worker's row, reads its active executions and probes for a limit, once;
  `TakePools`, then `Evaluate` for each candidate, in the order of the job locks,
  and `CommitPoll`. `RacedOut` is a savepoint rolled back.
* *Release*: `Finish`, `Close`, `Release`, `Expire`, `Sweep`; `Overdue` and `Beat`
  decide whether an expiry is noticed first or renewed. `SetLimits` replaces the limits.

`bound` is history: the limit a lease was granted under. So is `revived`: the
leases renewed after they were overdue. Abstractions: a node is dispatched to one
side at a time (its race between local pool and Worker is in the core); one lock
key per job, jobs numbered in the order of their keys; a batch takes the pool locks it needs
in one step; declared capacities do not change; whether a requeue exceeds its
limit is a free choice. Labels, models, runtimes, access lists and the turn
between workspaces only choose the candidates.

### Batch operations (`BatchOperations`)

Jobs are numbered in keyset order; `verdict` maps a position to the job it was
recorded for. `consume_once` is a step per database call: claim, load (page and
probe of recorded positions), each job of the chunk, record, the second read,
the completion phase, the guarded advance, and after a miss the read that picks
one of the two interrupted-chunk updates. Operators' transitions are
compare-and-set. The eleven kinds differ in two respects, a completion phase
(package) and a watermark (rerun, run-to), so two kinds stand for them. The filter
is evaluated anew for each page, and jobs move meanwhile: `LeaveFilter` takes one
out, `JoinFilter` lets one in that is older than the freeze, as filters on mutable
columns do (`src/docs/architecture/batch-ops-async.md:98-101`). A page fetched again
can therefore have shrunk or grown. `selected` and `joins` are history: the jobs that
matched at acceptance and how many times one flipped in.

### The artifact plane (`ArtifactPlane`)

One declared output of one plain node, and one consumer of it, the last node of
the job. `local` is the file in the job directory, `row` the manifest row,
`object` the authority objects by version key, `staging` what the Worker put on
the staging key of its execution. Bytes are named after who made them: an
attempt uploads the same bytes however often it reports (`ref` results), while
each archive a Worker builds is its own. A `Request` is one `/result` call, and
its identity is also the version key it draws, since keys are random.

* *Result*: `Enter` (the lease's completion lock), `Verify`, `Copy`, `Register`
  (gate, file, row in one transaction under the job-mutation lock), `Finish`.
  `CommitLost` and `FinishLost` are transactions whose outcome the Host does not
  learn; a lost finish is what makes a Worker report again.
* *Deletion*: `DeleteRetired` is `delete_objects_guarded` after a commit,
  `GcDelete` the operator's collection, whose grace window outlasts an upload.
* *Maintenance thread*: `Recon*` is `reupload_missing` (scan, hash, put,
  register), `Evict*` the snapshot of certified files and the unlink.
* *Poll thread*: `Hydrate*`: missing file and generation, manifest, download,
  generation again. It also dispatches, so nothing is enqueued meanwhile.
* `HostCrash` ends every thread of the Host and forgets pending deletions.

Nothing is assumed about how long any of these takes: a result may land between the
snapshot of an eviction and its unlink, or while a hydration downloads, as the code
allows. `overrun` is history: the bytes the Host itself took out of the directory after a
look that was older than they, by a restore over them or by an unlink meant for others
(section 6). A rerun starts it anew. Left out: cancelled results, conflicts of file and
directory when landing, validation of content, compression, and the backup arm
of a copy (version keys are fresh, nothing is overwritten).

### Branches and the workflow graph (`WorkflowGraph`, `BranchScheduling`)

`WorkflowGraph` holds the functions of `workflows/` and of the reset closure as
operators over a definition: inputs and outputs of each node by name, edges with
or without a condition on an artifact. Names follow the code. Loops that walk a
graph are iterations over a bounded index, since a node set is closed after as many
rounds as there are nodes.

`BranchScheduling` runs them on one job. `dirty` says that the jobs row has changed
since the mark under which the worker cached its evaluation; a job that runs
nothing and is not dirty is not read again. A pass is `Scan` (mark, generation,
statuses), `Judge` (verdicts from the files of that moment) and `Mark` (write
`not_applicable` if the generation is still the one read, then the ready nodes
from the statuses read). `Start` compares the generation of the candidate, `Finish`
writes every declared output, `Rerun` resets the closure and stages the pure
outputs. Two variables are history: `seen`, what a node's inputs were when it started,
and `overtaken`, the nodes that were claimed between the read and the write of a verdict
that skips them. The write leaves such a row alone, but the readiness that the pass
computes next takes the node for skipped (`eval_hydration.py:98`, `ready_cache.py:98`).

Left out here because the core has them: leases, requests, pauses, run-to and
fan-out. A failed attempt leaves no file, a restart of the worker (which empties
the cache and would have a stuck job read once more) does not occur.

## 3. What the runs show

Properties are defined at the end of the composing module, each with its reason.

| Run | Instance | Properties | Distinct states |
|---|---|---|---|
| core | code → approval → Agent; 3 attempts, 1 reset, 1 requeue, transient limit 2 | `TypeOK`, `LeaseOwnsNode`, `NoDoubleExecution`, `RunningIsOwned`, `ProducersCompleted`, `CompletedJobIsDone`, `CompletedIsFinal`, `StartIsAuthorized`, `LeasesAreFencedLock` | 890 k |
| shard | one node of 2 shards; 3 attempts, 1 reset, 1 requeue | `Ownership`, `StaleNeverFlips` | 2.1 M |
| live | code beside Agent; 2 attempts, 1 reset, 1 requeue | `RunningNodeEnds`, `RunningJobEnds`, `HeldRequestEnds` | 578 k |
| delivery | 2 leases, 1 upload lane shared with other executions, 1 crash, `WaitFitsLease` | `DirectoryIsExclusive`, `LiveLeaseNotCondemned`, `OwnedLeaseIsBeaten`, `ResultIsKept`, `BarrierOpens`, `DeadDeliveryEnds` | 294 k |
| batch | 4 jobs of which the filter selects 1, 3 or 4, first page of 1, chunks of 2, 1 job leaves the filter, 1 flips in, 1 crash | `CompletedIsRecorded`, `SkipsAreBounded`, `RepeatsAreAccounted`, `OperatorWins`, `OperationEnds` | 1.6 M |
| group_commit | 2 executions, 3 jobs on 2 lock keys, 2 commits, 1 heartbeat batch, 1 sweep, 1 claim batch, rounds of 2, 2 attempts | `OrderedLocksAcyclic`, `VerdictsAreTrue`, `ParkedIsAnswered` | 809 k |
| plane | 2 attempts, 2 results, 2 reconciler keys, 1 rerun, five faults | `RowHasItsBytes`, `LocalIsOutput`, `OutputSurvives`, `OneResultPerLease`, `OnlyFaultsFail` | 4.7 M |
| branch | workflows of 3 nodes with conditions, shared and rewritten names (468 initial states), 1 rerun | `VerdictStands`, `FreshInputs`, `NoMissedWakeup`, `NothingElseSticks`, `ResetIsLeast` | 226 k |
| capacity | 2 code jobs and 1 Agent job on one node key, 2 Workers, 2 polls; every pool 1, a Worker 2 per node; limit absent or 1, changed once; 1 overdue lease or raced claim | `NodeLimitsHold`, `PoolsHold` | 4.6 M |
| strand | shard instance, no reset | `RunningShardIsLive` is violated | |
| resume_race | 2 nodes | `PausedStatusIsHeld` is violated | |
| second_verdict | a condition on what a skipped node would write | `VerdictsComplete` is violated | |

Each module has its `TypeOK`; the core run checks the core's and a theorem proves
the Worker's. Those of the other modules hold on their runs' instances and are
not checked there again.

*Ownership* is the conjunction of what the rows of one attempt say about each
other. `LeaseOwnsNode`: an active lease on a plain node means the node is
running, under the lease's own generation, which is the job's. So a plain lease
is never stale: mutations refuse while a node runs. A lease on a shard *can* become
stale: between two waves of shards a requeued node is pending while another
shard's lease is active but past its expiry, and a mutation then passes. That is
where `StaleNeverFlips` has content, hence its run is the shard instance.
`RemoteLeaseIsTracked`
matters because the lease expiry skips remote leases: the Worker-loss sweep,
which finds them through the request, is their only reaper.

`LeasesAreFencedLock` is the refinement: seen through its leases and the job's
generation alone, the core is `FencedLock`, a lock per unit fenced by an epoch.
An attempt is granted a unit once, under the current epoch, never beside another
holder of that epoch; a reset raises the epoch only while the remaining holds
are on shards, where a stale holder is recognised by its generation.

The delivery properties relate the parts of a Worker that no lock covers
together. `DirectoryIsExclusive` is what the mutex, the handoff barrier and the
two markers are for; `LiveLeaseNotCondemned` and `OwnedLeaseIsBeaten` say that
the five places that set an `ownership_lost` event and the five that remove a
registry entry never hit the wrong lease; `ResultIsKept` that a pending marker
is removed under a live lease only after the Host refused the result itself.

`BarrierOpens` and `DeadDeliveryEnds` say that the delivery of an old attempt ends, so that the
new one gets in. Both state their condition, `LanesMove`: the slots of the upload lanes are
not held by other executions for ever. The code does not guarantee it, and without it
both are false (section 6).

`RepeatsAreAccounted` and `SkipsAreBounded` keep two accounts of a position-based stream over a
filter that changes. A page fetched again (after a crash, or after a resume so quick that the
record of the interrupted chunk missed) puts other jobs on positions already recorded. Where
it has grown, a boundary job comes to a second position and is executed again, *without any
crash*: at most one for each job that flipped in. Where it has shrunk, a job gets no position:
of the jobs selected at acceptance at most one for each that left. A crash adds at most one
more mutation per job, the one it had not recorded. In the run's instance TLC reaches a
repeated job both with and without a crash.
`OrderedLocksAcyclic` says which locks are safe: in every cycle someone
waits for a *request row*, the one kind without a common order.

Several transactions count and then insert, with locks that cover only part of
what they count. `NodeLimitsHold` holds although the local pass relies on a limit
read long before, a poll takes the code-pool lock only when a probe finds
a limit, and a limit may appear after the probe: a claim then refuses
instead of counting without the lock. The property compares each set of
leases with the limits they were granted under, since lowering a limit ends no
lease. `PoolsHold` rests on the lock of the Worker's row for a count that is
read once per batch, and on releases only ever making it smaller.

On the artifact plane `RowHasItsBytes` is what unique version keys and the guarded
deletion are for; `LocalIsOutput` and `OutputSurvives` are what a consumer and
an operator rely on: the file is that of the result that completed the node, and
it may be evicted only when its object has the same bytes. Both exempt the output that the
Host itself ran over after an old look (`overrun`), and nothing else of these two hazards: every
other output stands, whatever reruns, evictions and hydrations interleave. The unexempted
statements are violated (section 6). `OneResultPerLease`
needs the completion lock, `OnlyFaultsFail` that the Worker's staging object
outlives the finish.

The branch run starts from every workflow of a family instead of a few examples.
`VerdictStands` is what the deferral of verdicts and the generation check of the
write are for: whatever the order, a skipped node is one the final files skip, and a node
that ran has an edge they select. The second half excepts edges whose condition has an
overtaken producer: a node claimed before the verdict that skips it may write the condition
again, after the pass took it for ended (four nodes, `LateCondition` in `MC_Branch`).
The converse does not hold and is not claimed: a node with one unselected and one
unconditional edge runs or is skipped according to which source completes first.
Definitions whose condition is written inside the branch it guards are exempt, as
`condition_barrier.py:16-22` documents. `ResetIsLeast` compares the fixpoint
of the reset closure with its definition as a least set. `FreshInputs` leaves out the
inputs with an overtaken producer, which takes four nodes to matter (section 6); with
three it holds without the exception, and for more the theorem says that nothing else is
excepted. `NothingElseSticks` lists the ways
a job can hang; each disjunct is needed.

| Waiting node | Why it waits |
|---|---|
| `ReadsOwnResult` | stopped on purpose: a cycle of implicit edges fails closed (`workflows/scheduler.py:35`) |
| `NobodyWrites` | an input that nobody is left to write (`src/docs/architecture/execution-generation.md`, section 4) |
| `BelowSkipped` | a selected edge from a skipped node (section 6, `SelectedSideRuns`) |
| `Undecided` | a branch that became decidable by a skip, in a job that is not read again (section 6, **second_verdict**) |
| `OnNoSide` | no edge selects it and a source was skipped, so that no source judges it: a join of two skipped nodes, each beside a selected path (five nodes, `SkippedSources`) |
| `BelowFailed` | it waits below a failed node in a job that reads queued: the rerun of another node set the status, and that node was skipped (four nodes, `FailedBeside`) |

The run has three nodes, where the last two do not occur; the named definitions in
`MC_Branch` violate the property without them, and the theorem says that larger
workflows have no seventh way.

**Bounds.** Core: `MaxGen` resets, the size of `Exec`, `RequeueLimit` and
`MaxTransient`. Three attempts let one attempt be lost, its successor run, and a
late answer of the first arrive while a third starts. One reset makes two
generations, and every comparison is between two generations; the theorems
remove the bound for what they cover. Delivery: two leases are the old and the
new attempt, and one crash falls between any two of their steps. One lane is the
smallest scheduler that another execution can fill. Batch: four
jobs, a first page of one and chunks of two make a stream refill the buffer twice;
`Sizes` leaves out selections of two jobs, which lie between a stream that is one page and
one of three (the theorems hold for every `Sizes`); one job that leaves and one that flips in make a page fetched again shrink or grow at every place;
`MaxPacks` caps the count of packages (0, as no property of the run looks at it). Group commit: two commits may share a round, a third job makes
a hash collision with a job that commits nothing, `MaxAttempts` 2 (5 in the
code) is one retry and one exhaustion. Capacity: with one slot everywhere a second
claim is always one too many; two code jobs compete for it, the Agent job makes
a batch mixed and the Workers' limit per node count both kinds; two polls are
two Workers, or two batches of one; every job has the one node key, so that all
meet. The theorems remove these bounds. Artifact plane: two attempts are a swept
one and its successor, two results a report and its retry or the reports of both
attempts; a fault may strike again and again; two reconciler keys let a key be superseded
by another; one rerun makes two generations. Two results are too few for the case of mixed
channels that `OutputSurvives` exempts (section 6); the theorem covers every number. Branches: three nodes
are a gate and two that depend on it, each of which may be source, producer,
consumer or join of the other; one condition artifact and one more name are what
a barrier needs to wait for a second producer. When identities, resets or transactions
run out the systems may stop, and finished work stops by itself, so deadlock is
not checked. Symmetry permutes `Exec` and `Shard`, which no definition orders; it
is off where liveness is checked. The plane run permutes leases, requests and
reconciler keys; the leases of the delivery are numbered and never permuted.

## 4. Fairness

*Core.* `LeaseSweeper._sweep_once` calls each sweep at every tick and catches every
exception of one so that the others still run (`executors/sweeper.py:57-66`).
`Sweeping` is therefore weak fairness of each sweep that ends attempts:
`ExpireLocal(e)`, `SweepExpired(u)`, `Recover`. Nothing else is fair: no result,
no heartbeat, no claim and no `MarkDone` is promised. The run adds one
assumption about the environment, `StopsBeating`: no process beats for ever (it
reports, its node timeout ends it, or it dies). Without it a Worker can hold a
request by beating on it after its lease has been refused, since the heartbeat
renews the request row before it learns that the lease is gone
(`agent_broker/heartbeat_single.py:67-74`).
`RunningNodeEnds` is stated for plain nodes only: a fan-out node may keep
running between waves when its job was failed directly (section 6).

*Delivery.* Each thread runs, and so does a delivery that has a slot (WF). One that waits
for a slot gets it if slots are freed again and again (SF of `Arm` and `StartReport`): the lanes are first in,
first out, and each report comes from one finished transfer, so reports do not starve
transfers. Other executions' deliveries (`OtherStarts`, `OtherEnds`) have no fairness at all: a
report keeps its slot while it is retried, and its Host may never answer. No answer is promised to
a report of this execution either. The heartbeat loop takes a snapshot of
a lease that is un-quiesced again and again (SF: it ticks at least every 45
seconds, backoffs grow to 60), and among infinitely many beats some are handled
and answered (SF); a beat in flight ends (WF of its timeout). `DeadDeliveryEnds`
exempts a closed execution: the Host then answers *settled*, which drops the
registry entry and sets no event, and it is the report's own 409 that ends it.

*Batch operations.* The consumer loop runs (WF of the feeder's steps) and a
workspace's backlog does not stay full for ever (SF of `Load`, against
`Release`). `OperationEnds` assumes that the operator does not leave it paused.

*Artifact plane, branches, capacity.* Only safety is checked. `CapacityPools`
states fairness for `EveryNodeEnds` (the poll loop runs, Workers ask, a cached
route expires, executions end), which no run lists: on the run's instance it takes
too long. It was checked without symmetry on two code jobs, no Agent job
and one poll.

*Group commit.* One weak fairness over the writer loop, the progress of
transactions and the breaking of cycles: as long as something can move,
something moves. That suffices because commits and background transactions are
finitely many in the run; a stream of them starving a waiter is not excluded by
any code and not claimed.

## 5. Proofs

The theorems of the core hold for every workflow, every set of attempts and shards, and all
bounds, under the three assumptions in `ExecutionState` (kinds of nodes do not
overlap, the marks for "nothing" are outside the sets they mark, bounds are
naturals).

* `TypeCorrect` (`OwnershipProofs`): `Spec => []TypeOK`. One lemma per
  component, one step per action; the writes that components share (derived status,
  pause at the target, start of an attempt, recorded failure) have lemmas of
  their own.
* `OwnershipHolds` (`OwnershipProofs`): `Spec => []Ownership`.
  `Ownership` is not inductive by itself. `OwnershipInv` adds `TypeOK` and `AttemptShape`:
  an active lease covers a unit, an identity without a run has no lease, and no
  attempt carries a generation of the future. The last makes every lease that
  a reset leaves behind stale, so that it neither owns a shard nor collides
  with an attempt of the new generation.
* `NoDoubleExecutionHolds`: the same invariant gives at most one
  active lease per unit and generation. `LeaseOwnsNodeHolds`, `RunningIsOwnedHolds`,
  `RemoteLeaseIsTrackedHolds`, `HeldRequestHasLeaseHolds` and
  `RunsSettleWithLeasesHolds` state its parts one by one.
* `ImplementsFencedLock` (`OwnershipProofs`): `Spec => LeasesAreFencedLock`.
  Under the mapping (generation, active leases, attempts whose run has ended)
  each action is one of four kinds: *unseen* (a stutter), *grant*, *settle* or
  *fence*. A grant needs the ownership invariant, which is what rules out a
  second holder of the generation; a fence needs it to show that every lease left
  by a reset is on a shard.
* `ProducersCompletedHolds`, `CompletedJobIsDoneHolds`, `StartIsAuthorizedHolds`,
  `StaleNeverFlipsHolds`, `CompletedIsFinalHolds` (`AuthorityProofs`). The scheduler
  decides on a cached read and acts later; the remote claim checks neither target
  nor producers. `DispatchInv` therefore adds `WorkFits` to `OwnershipInv`: whatever
  is held of the current generation (a cached candidate, a closure on its way, a
  request, a lease) is for a node inside the target whose producers are completed.
  A reset makes everything held stale at once, since it raises the generation; that
  no step undoes a completed node within one generation is `CompletedIsFinalHolds`,
  and carries the rest. `CompletedJobIsDone` and `ProducersCompleted` need each other:
  a completed job must not be reopened in part.

The actions are many, but they move ownership in few ways. The proof names
these kinds of step, shows once per kind that the invariant is preserved, and
then shows each action to be of one kind: *quiet* steps touch no running row and
no active lease; *started* steps give a unit that nothing owns a new attempt;
*ended* steps end one attempt and its hold on the unit; the orphan recovery
happens when no lease is active; and a *reset* happens when no node is running.
What the actions do to requests is shown beside it, per component.
`OwnershipInv` and `DispatchInv` were model-checked as invariants on the core and
shard instances before they were proved.

The theorems of the Worker hold for every set of leases and any number of
crashes. `WorkerAssumption` says that the mark for "nothing" is outside the sets
it marks and that the bounds have their types.

* `DeliveryTypeCorrect`, `HandoffCountsHolds`, `DirectoryIsExclusiveHolds`
  (`DeliveryProofs`). The invariant `DeliveryInv` adds to the properties: the
  mutex is held exactly from the registration to the end of the thread
  (`MutexHeld`); while an attempt waits, the slot holds the delivery it waits for
  or nothing, and once it is inside, nothing (`BarrierKept`); a thread exists only
  for a granted lease. The barrier is kept because only the holder of the mutex
  can fill the slot.
* `LiveLeaseNotCondemnedHolds`, `OwnedLeaseIsBeatenHolds`, `ResultIsKeptHolds`
  (`DeliveryProofs`), under `WaitFitsLease`. A condemned lease is one the Host has
  given up for good (`LostIsOver`). That this is so at each place that sets an
  event rests on: the Host honours one lease at a time, a claim that waits for the
  mutex is honoured, the registry's entry belongs to the thread at work or to the
  live delivery, and a delivery or a marker of an honoured lease is the newest on
  the Worker (`HonouredIsLatest`). Beats additionally need that a closed
  execution has no honoured lease, which makes the settled verdict harmless; the
  kept result needs that the answer a delivery drops on tells what became of its
  lease (`AnswersTrue`). Without `WaitFitsLease` the first theorem is false: TLC
  finds a counterexample of 12 states (section 6).

These invariants were model-checked on the delivery instance before they were
proved. `HandoffCounts` (the count of deliveries is that of the live ones) is
proved and listed in no run.

The theorems of the capacity pools hold for any number of jobs, keys, Workers,
polls and changes. `PoolAssumption` says that jobs are finitely many natural numbers and
limits positive.

* `CapacityTypeCorrect` (`CapacityProofs`): `Spec => []TypeOK`.
* `NodeLimitsHonoured`: `Spec => []NodeLimitsHold`. The invariant `NodeInv` adds
  that whatever a transaction has claimed it holds the lock of (`GotSeen`), and that
  claims under a limit are made with the code-pool lock (`LockedClaims`). So at a
  new grant every limited lease of the node is committed or the claimant's own: all are counted,
  and the new lease is the one whose limit allows the set.
* `PoolsAreHonoured`: `Spec => []PoolsHold`. `PoolInv` adds `BatchInv`: only a
  writing transaction holds claims; one batch of a Worker writes at a time; its
  view is no smaller than what the Worker now has claimed, as everything else only
  takes away from it; and Agent claims are made under the workspace's lock.

The theorems of the artifact plane (`PlaneProofs`) hold for any number of attempts,
results, keys and reruns. `PlaneAssumption` says that keys are fresh: no two writers
draw the same one.

* `RowHasItsBytesHolds`. `PlaneInv` says who may still write where: the only attempt
  that counts is of this generation and its node runs (`Attempts`); results of one
  lease take turns (`Results`); what a promote put under its key stays while a row may
  name it (`Objects`); eviction, reconciler and poll thread exclude each other
  where the code makes them (`Turns`).
* `OnlyFaultsFailHolds`: a failed result of the attempt that counts has its fault
  (`Blame`), because the staging object outlives the finish.
* `OneResultPerLeaseHolds`: between the row of a result and its finish nobody else
  writes the row, as the lock of the lease and the gate leave no one (`OneSource`).
* `LocalIsOutputHolds`. `FileInv` says that a result about to finish has its file in
  place unless it was run over (`Delivered`), that a file an eviction holds certified is of
  no attempt that may still deliver it (`CertifiedIsPast`), and that without a file the row has the
  hash of the output and neither row nor file is about to be overwritten (`Settled`). A
  write to the directory that hits other bytes than the writer knew puts these into
  `overrun`; that is the only way an output loses its file unseen.
* `OutputSurvivesHolds`. The reconciler reads a file twice, so its object may hold other bytes
  than its row says. `SurvivalInv`: never if those bytes are, or may still become, the output
  (`Potential`) and no exemption covers them (`Matters`). Bytes that
  stop being so never are again, and as long as they are the file stays: the one
  writer that could replace them unseen is a result of the same lease over the
  other channel, after a finish of it was lost. The property exempts that case (`Plain`, section 6).

No theorem of the plane assumes anything about durations. All these invariants were
model-checked on the plane instance before they were proved.

The theorems of the branches (`BranchProofs`) hold for every family of definitions, any
set of nodes and any number of reruns. `GraphAssumption` says that nodes are finitely
many, `SchedulingAssumption` that explicit edges make no cycle.

* The graph algorithms are functions by recursion on a count. Induction is therefore proved
  first in a form that takes sets: a set of numbers up to a bound has a least member (strict
  inclusion of finite sets is well-founded), hence `BoundedInduction`, hence that
  a function by recursion exists (`Recursion`). Each round either adds a node or has
  reached the fixpoint, so after as many rounds as there are nodes `walk_downstream`
  (`WalkIsClosed`, `WalkIsLeast`) and `shared_name_expanded_reset` (`SharedIsClosed`,
  `SharedIsLeast`) are the least closed sets.
* `ResetIsLeastHolds`: `Spec => ResetIsLeast`, from these.
* `BranchTypes`: `Spec => []TypeOK`.
* `NoMissedWakeupHolds`: `Spec => []NoMissedWakeup`. `NothingMissed` says what is true in the
  middle of a pass: while the jobs row is unchanged since the mark, the pass has the
  statuses that the rows have. It holds because the mark is read before the statuses and
  because a verdict's write changes rows by the same rule as the copy that was read.
* `FreshInputsHolds`: `Spec => []FreshInputs`. `FreshInv` says that the producers of whatever
  has started, or is offered under the current generation, have ended or are overtaken. A
  producer that has ended writes again only after a reset, and a reset takes every
  consumer of its members with it, as the closure is closed.

* `VerdictStandsHolds`: `Spec => []VerdictStands`. A verdict is first taken apart: a source
  skips a node (`Skips`) when one of its unselected edges leads there, no selected one does
  and no deferred one could (`SkipsIsUnselected`, `SkipsIsVerdict`). Nodes that end keep
  this, since an edge is judged only when the producers of its condition have ended
  (`SkipsLater`); so does a rerun that leaves the skipped node alone, since a reset
  that took one of those producers would take the target and all behind it
  (`SkipsAfterRerun`). `VerdictInv` says that a skipped node is one that some source
  skips, in the rows and in a pass that has judged and not yet written; and that a node
  that is offered or has started has no incoming edge, or one that is settled: selected, with
  the producers of its condition ended or overtaken.
* `NothingElseSticksHolds`: `Spec => []NothingElseSticks`. A node that waits without an
  excuse waits for another that waits (`UnexcusedIsBlocked`): a source of an edge to it, or
  an ancestor that does not depend on it. Where all edges are unselected and all sources
  completed, the source behind which no other source lies skips the node
  (`LastSourceSkips`). Among finitely many nodes some is blocked by none
  (`SomeIsUnblocked`): take one with the least set of ancestors, and among those with the
  same set one with the fewest explicit ancestors; the first kind of blocker would have
  fewer of these, the second fewer of those. That a completed node left its outputs and a
  queued job runs nothing is `StuckInductive`; that the cache has what is ready is
  `NoMissedWakeupHolds`. `FileAssumption` says that the mark for "no file" is not a file.

TLC checked all these invariants on the branch instance, and on the definitions of four
and five nodes in `MC_Branch`, before they were relied on. The search for the last two
proofs is what found the exception of `VerdictStands` and the last two ways to hang,
which three nodes do not show.

The theorems of the batch operations (`BatchProofs`) hold for any number of jobs, any size
of the first page and of the chunks, and any number of crashes. `BatchAssumption` says
that these numbers are positive, `NoneIsNoChunk` that the mark for "no chunk" is not one.
A page is the set of matching jobs behind a cursor in order; that it is sorted and complete
up to where it reaches (`PageFacts`) rests on counting, with each job at the rank of the jobs
below it. The invariant `BatchInv` has three layers.

* `Walk`: the buffer holds its cursor, every position before it has a verdict, and a
  chunk past its record owes none. It gives `CompletedIsRecordedHolds`,
  `CursorInBufferHolds`, `OperatorWinsHolds` and `BatchTypes`.
* `Books`: the jobs of a buffer and the matching jobs behind its cursor form a *stream*, in
  which each job has a position; a job whose position has no verdict is *due*. Two accounts
  are kept. `Repeated` counts the recorded repetitions and the recorded jobs that are due again;
  `Skipped` the selected jobs that are neither recorded nor due. They move only with the filter
  (`ShiftAccounts`): a job that flips in moves every later position up by one and so makes one more job
  due at most, a job that leaves takes one from them at most. A refill keeps the stream (`RefillDue`),
  and a record turns what was due into what is done (`RecordAccounts`). So `Repeated` stays
  within `joins` and `Skipped` within `Leaves`. Because a page can be executed and recorded before
  it is stored, the accounts are kept for the row's buffer and for the feeder's, each with the
  results as they are and as they will be once the chunk at hand is recorded (`Prospect`).
* `Mutations`: each mutation of a job has its verdict, or is of the chunk at hand, or was lost in
  a crash, which loses one per job at most. With `Books` it gives `RepeatsAreAccountedHolds`.

A completed operation has a verdict at every position of its stream, so nobody is due and
`Skipped` counts exactly the selected jobs without one: `SkipsAreBoundedHolds`.

`VerdictsAreTrueHolds` (`CommitProofs`): `Spec => []VerdictsAreTrue`, for any number of
executions, reports, hash keys and bounds, under `LockAssumption` (a hash has a key, each
execution has a job, the mark for "nothing" is no number), `NoneIsNoPlan` (nor a list of
locks) and `BatcherAssumption` (the batcher's bounds are positive, a claim's jobs are jobs). That two commits of one
execution are not both told they finished it needs more than the rows: `CommitInv` says where an
item may be. A parked commit has at most one item, in the queue or in one call of the round
(`OnceQueued`, `OnceCalled`, `Apart`), and none once it writes for itself; an item's kind is what its
commit waits for (`Waits`); a call has items of one kind and, once its shared transaction has
failed, just one (`Sliced`). Then a committed transaction answers each commit once
(`WriteTrue`): it releases a lease only for the first item of its execution, and a lease that
was released before has its verdict already. The locks play no part in it: the argument
holds for every order in which transactions wait, skip rows and are ended in a cycle. TLC
checked `CommitInv` on the run's instance before it was proved.

`OrderedLocksAcyclicHolds` (`CommitProofs`): `Spec => []OrderedLocksAcyclic`, under the same
assumptions: for any number of executions and jobs and any collisions of hash keys. The
natural argument, each transaction takes locks of rising rank (`Rank`: job locks by key,
then leases by execution), fails for the sweep, which takes leases by lock key. What
saves it are its *guards*: whoever takes a lease holds the job lock before, a heartbeat the
request row, the sweep both (`GuardsPlanned`, `GuardsHeld`), so nobody waits for a lease of the
sweep and the sweep waits for nobody's (`LeaseWait`). `OrderInv` says of every transaction
that what it holds ranks below what it has still to take (`HeldBelow`), that the rest of
its plan rises (`RisingPlan`), and that its guards are held or planned before; a heartbeat that
skips a request row skips its lease too (`RowPairs`), without which the guards
would be lost. Then whoever waits for a waiting transaction waits for a lower lock than
that one does (`WaitRises`), and a finite set of waits has a highest (`GreatestInInterval`). The steps use
`CommitInv` for the plans of the writer and of the commits that write for themselves. TLC
checked `OrderInv` on the run's instance before it was proved.

Every invariant, action property and refinement that a passing run checks is thus the
statement of a theorem. Only model-checked are the liveness properties (`RunningNodeEnds`,
`RunningJobEnds`, `HeldRequestEnds`, `BarrierOpens`, `DeadDeliveryEnds`, `OperationEnds`,
`ParkedIsAnswered`): liveness under fairness is out of the prover's reach.

A leaf that needs a good part of a prover's default time (5 s for SMT, 10 s for Zenon)
names its prover with a longer one (`SMTT(60)`, `ZenonT(60)`), so that all proofs also
check from nothing on a slower or busy machine: they were tried with a third of the
time, on loaded processors (`tlapm --stretch 0.3`).

## 6. Where the repository says otherwise

* **strand.** When two shards of a node lose their Worker, the sweep requeues
  the first and sets the node pending; for the second, the guard on the node
  status fails, its request is cancelled and the loop continues before
  `reset_shard_for_requeue`. Its lease is gone, its row stays running.
  The comment in `agent_broker/sweepers.py:157` names exactly this state as the one to avoid.
  The orphan recovery later discards all shards of the node, completed ones
  included.
* **resume_race.** `sync_job_status` reads `execution_paused = 1`; a resume,
  which takes no lock, clears the flag while the status still reads running; the
  sync then writes `status='paused'`. The job reads paused with nothing holding
  it: the scan and the remote claim skip it, another resume says it is not
  paused, and only continue frees it.
* **second_verdict.** Skipping a producer makes conditions on its artifact
  decidable, but changes no jobs row, so the cached evaluation stands and the
  next branch stays pending. `workflow_worker/scan.py:3` says that evaluation
  inputs change only when the jobs row does.

The following are definitions in the modules that no run lists. Put into the
configuration named here, each is violated:

* `TargetPauseIsContinuable` (`MC_Core.cfg` with `MaxGen = 2`). Rerun of a job held at
  its run-to target writes `status='queued'` and keeps `execution_paused` and
  `pause_reason`. Resume refers to continue (`services/job_pause.py:111`), continue wants
  `status='paused'` (`jobs/job_state_mutations.py:95`); only another run-to frees the job.
* `SweepClosesNoCycle` (`GroupCommit` with `Execs = 2`, `Jobs = 2`, `HashSpace = 1`,
  `Subs = 2`, `MaxBegun = 1`, `MaxItems = 2`, `Claimed = {1, 2}`, `MaxAttempts = 2`).
  The sweep of expired claims holds request rows while it waits for job locks. A
  finish holds the job lock and waits for a lease row, and a batch of heartbeats
  holds that row and waits for a request row of the sweep. `agent_broker/sweepers.py:77`
  says this cannot close a cycle. PostgreSQL's detector ends it and every victim is
  retried or comes again.
* `LiveWithinCapacity` (`MC_Capacity.cfg`). A lease past its expiry no longer
  counts and its slot is claimed; then a late beat renews it, since
  `executors/_lease_lifecycle.py:39` asks only for status active. Two executions
  run in a pool of one until one of them ends, where
  `src/docs/architecture/architecture-evidence-matrix.md:40` says that capacity is
  never exceeded. `PoolsHold` therefore leaves renewed leases out.
* `StaleLimitIsContained` (`MC_Capacity.cfg` with two keys). A pass has claimed a node
  and comes to one whose limit was changed since its route was cached: the
  `ValueError` rolls back the claims of the whole pass.
  `workflow_worker/routing.py:7-9` says that a stale limit at worst fails a claim,
  which the next pass retries. That next pass fails too, until the route expires.
* `PackagedOnce` (`MC_Batch.cfg` with `MaxCrash = 0`, `MaxPacks = 2`). The feeder's advance misses a
  paused operation, it reads *paused* and chooses the record for interrupted chunks; a
  resume lands before that update, which then matches nothing. The package just
  built is lost and the completion phase runs again without any crash, which
  `src/docs/architecture/batch-ops-async.md:90` excludes.
* `UnlinkNeedsRow` (`MC_Plane.cfg`). Eviction certifies its
  candidates by row and hash in one snapshot and before each unlink reads only the
  job's status and leases again (`services/job_artifact_maintenance.py:322`). A rerun that
  completes in between, whose best-effort mirror failed, leaves a file without a row,
  and that file is unlinked. The comment at `services/job_artifact_maintenance.py:319-321` names the
  case for a job that is running again; one that has ended again passes the check.
* `LocalIsAlwaysOutput`, which is `LocalIsOutput` without its exemption (`MC_Plane.cfg` with `Fault = {}`). Hydration
  decides that a file is missing before it reads the manifest and downloads
  (`executors/artifact_restore.py:156`). A requeue after a lost Worker changes no
  generation: if the manifest row is that of the swept attempt and the new attempt
  finishes during the download, its file is replaced by the swept attempt's bytes
  and the generation recheck passes. The download takes seconds
  (`workflow_worker/input_hydration.py:33-36`), so this is no short window.
* `OutputSurvives` without `Plain`, with four results or more, one of the lease's results over the
  other channel. A behaviour of 38 steps, which TLC follows in a module that allows only these
  steps: a result over references lands its file and the Host stops; an archive of
  the same lease lands its row; the reconciler hashes the file, the archive's finish
  moves its own file in and is lost, the reconciler uploads that file; a third result
  over references lands the first bytes again, the reconciler registers its object
  under their hash, and the eviction trusts the hash. A Worker changes the channel only when
  it restarts (`worker/upload/task.py:80` does not persist the references) or gives up
  a direct upload (`worker/upload/queue.py`), so the third result would have
  to be a report of before that waited for the lock. `OutputSurvives` exempts
  the attempt when a finish was lost and its results came over both channels.
* `CondemnedEnds` (`MC_Delivery.cfg`), and likewise `BarrierOpens` and `DeadDeliveryEnds` without
  `LanesMove`. A condemned delivery waits in a lane. The slots are held by the reports of other
  executions, whose leases the Host honours but whose reports it never answers: `report_task`
  keeps its slot through the whole retry loop (`src/worker/upload/report.py:62-98`), and a
  delivery looks at its lease when it gets a slot (`src/worker/upload/queue.py:221`).
  `src/worker/upload/queue.py:402` says that a lost lease should stop it promptly.
  For the same reason a delivery restored from disk is beaten only from its slot on:
  `OwnedLeaseIsBeaten` starts there.
* `SelectedSideRuns` (`MC_Branch.cfg`). A node that has a selected edge from a skipped
  node is not ready (`workflows/scheduler.py:63`), and the verdict leaves it alone since
  the selected side reaches it. It stays pending and the job queued, although
  `src/tests/helpers/ready_gate_hydration.py:174` says that the verdict does not gate it.
* `BarrierHolds` (`MC_Branch.cfg` with `Node <- FourNodes`, `Definitions <- LateClaim`).
  Node 3 is ready after node 1, but node 2 completes and its condition skips node 3. A pass
  reads the statuses with node 3 pending and judges it skipped; a claim from the cache starts
  node 3; the pass's write leaves the running row alone, but its readiness takes the node
  for `not_applicable` (`workflow_worker/eval_hydration.py:98-102`) and offers node 4, which reads a
  name that node 3 rewrites. Node 4 then runs beside its producer and completes on
  bytes that are replaced. `workflows/scheduler.py:29-33` says that a consumer is not runnable
  while a producer of an input has not ended, as it would read the old value.
* `EndedJobReadsCompleted` (`MC_Branch.cfg`). `mark_nodes_not_applicable_many` changes node
  rows and derives no job status; when the last open nodes are skipped no attempt is
  left to derive it, and the job stays queued. `summarize_job_status`, and the test
  that pins it, call these nodes a completed job.

Seen, and not stated as properties because no text says what is intended: a job
failed directly (`unclaimable.py`, `sweeper_definitions.py`, `_lease_expiry.py`)
while a fan-out node is between waves keeps that node running, and the recovery
looks only at jobs in status running; the orphan recovery discards completed
shards of a healthy node between waves.
A gate that is the run-to target does not pause the job when it is approved
(`jobs/queries/approval_decisions.py:144`), as an attempt that completes the
target does. `services/job_batch_operations/feeder.py:18-22` speaks of a
single-statement gap between a mutation and its record; the results of a whole
chunk are inserted after the chunk ran, so a crash repeats up to a chunk
(`RepeatsAreAccounted` bounds it by one repetition per job for each crash, and one
more for each job that flipped into the filter). The reconciler's registration has neither gate nor generation, so a row can
reappear after a rerun deleted it; the next result supersedes it. Closing requests in
queue order and beating them in execution order makes a cycle of two over request
rows. The Worker's mutex wait (60 s) must be shorter than the lease TTL, a Host
setting with default 90 and minimum 1
(`configuration/executor_runtime.py:119`): the delivery run assumes it as
`WaitFitsLease`; without it a claim can expire before it is registered, and
when it registers it condemns the entry of the attempt that replaced it.

## 7. Plan

Done: the core of one job, ownership and its refinement to a fenced lock;
`JobStatusSync`; the Worker's delivery; group commit and lock order; batch
operations; the artifact plane with its theorems; conditional branches and the graph algorithms
with the theorems about resets, wake-ups, inputs, verdicts and the ways to hang;
the capacity pools with their theorems; dispatch in dependency order; the batch operations
with theirs; the verdicts and the lock order of the group commit.

Left: capacities that Workers declare anew and several workspaces in `CapacityPools`, then
`RunFeeder`, upgrade and inherit, job deletion, and `StudioDraft`.

Runs stay at two or three nodes, two or three attempts and one reset: larger
instances are the business of the theorems.

## 8. Not modelled

Upgrade and inherit, deletion, intake and the run feeder, and Studio drafts are protocol code and are
in the plan. Of the modelled parts: the claim loop of the Worker (pacing and
budgets choose when to claim, never what a claim means), restart of a stopped
batcher, chunking of heartbeat batches, the fallback for Hosts without the batch
route, retry and archiving of batch operations, conditions on the edges of start
nodes, and branching workflows that also fan out, wait for approval or are paused.

Routes, authentication, the MCP server, events, connections, storage, skills,
configuration and the frontend hold no state that the core's decisions depend
on, or are input and output: a model of them would restate each line. The
velites harness (Rust) runs inside one execution and shares only its result with
the Host. Scripts (seeding, stress, architecture checks, releases) are tools
around the system. Together these are by far the larger part of the repository's
lines, so the share of lines a model can stand for is small.

## 9. Running

    tlc -workers 2 -config MC_Core.cfg MC_Core.tla
    tlc -workers 2 -config MC_Delivery.cfg WorkerDelivery.tla
    tlapm OwnershipProofs.tla
    tlapm AuthorityProofs.tla
    tlapm DeliveryProofs.tla
    tlapm CapacityProofs.tla
    tlapm PlaneProofs.tla
    tlapm BranchProofs.tla
    tlapm BatchProofs.tla
    tlapm CommitProofs.tla

PROJECT.json names the module and the configuration of every run.
