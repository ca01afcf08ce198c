----------------------------- MODULE Execution -----------------------------
(***************************************************************************)
(* The execution core of one job: the Host scheduler, the lease writers,   *)
(* the Agent broker and the operators' mutations over the same rows        *)
(* (docs/architecture/execution-generation.md, EXEC-GENERATION-001).       *)
(***************************************************************************)
EXTENDS WorkflowWorker, ExecutorLeases, AgentBroker, JobMutations

Next == SchedulerNext \/ LeaseNext \/ BrokerNext \/ MutationNext
Spec == Init /\ [][Next]_vars

\* LeaseSweeper._sweep_once runs its sweeps at every tick.
Sweeping ==
  /\ \A e \in Exec : WF_vars(ExpireLocal(e))
  /\ \A u \in Unit : WF_vars(SweepExpired(u))
  /\ WF_vars(Recover)
\* No process beats for ever: it reports, its node timeout ends it, or it dies.
\* Nothing else is promised to happen, not even that a result arrives.
StopsBeating(e) == <>[](exec[e].signal = "late")
FairSpec == Spec /\ Sweeping
LiveSpec == FairSpec /\ \A e \in Exec : StopsBeating(e)

-----------------------------------------------------------------------------
(* Type invariant.                                                         *)

\* Every row holds values of its columns.
TypeOK ==
  /\ job \in JobRow
  /\ nodeStatus \in [Node -> NodeStatuses]
  /\ nodeGen \in [Node -> Generations]
  /\ shard \in [ShardUnit -> ShardRow]
  /\ exec \in [Exec -> ExecRow]
  /\ request \in [Unit -> RequestRow]
  /\ view \in [held : BOOLEAN, generation : Generations, target : Node \cup {NoTarget}]
  /\ cache \in [generation : Generations, target : Node \cup {NoTarget}, nodes : SUBSET Node]
  /\ inflight \subseteq [unit : Unit, generation : Generations]

-----------------------------------------------------------------------------
(* Ownership: what the rows of one attempt say about each other.           *)

\* An active lease on a plain node owns it: the node runs under the lease's
\* own generation, which is the job's.  No reset, sweep, expiry or late result
\* of another attempt ever takes the node away from under a live lease.
LeaseOwnsNode ==
  \A e \in Exec : Active(e) /\ exec[e].unit \notin ShardUnit =>
    /\ nodeStatus[NodeOf(e)] = "running"
    /\ exec[e].generation = job.generation

\* An active lease of the current generation on a shard is the one the
\* running shard row names; so two attempts never execute one shard, whatever
\* requeues, recoveries and rematerialised fan-outs happened before.
LeaseOwnsShard ==
  \A e \in Exec : Active(e) /\ exec[e].unit \in ShardUnit /\ ~Stale(e) =>
    shard[exec[e].unit] = [status |-> "running", by |-> e]

\* Two active leases never cover one unit within a generation: the code pool,
\* the remote claim, a requeue and a reset race for the same node.
NoDoubleExecution ==
  \A e, f \in Exec : Active(e) /\ Active(f) /\ exec[e].unit = exec[f].unit
                     /\ exec[e].generation = exec[f].generation => e = f

\* A running plain node has an active lease, so something can still end it;
\* and a running node carries the current stamp, so that the orphan recovery's
\* generation gate accepts it.
RunningIsOwned ==
  \A n \in Node : nodeStatus[n] = "running" =>
    /\ nodeGen[n] = job.generation
    /\ n \notin Sharded => \E e \in Exec : Active(e) /\ NodeOf(e) = n

\* An active remote lease is the one a claimed or reporting request of its
\* generation names: the Worker-loss sweep, its only reaper, selects by it.
RemoteLeaseIsTracked ==
  \A e \in Exec : Active(e) /\ exec[e].lane = "remote" =>
    Tracks(exec[e].unit, e) /\ request[exec[e].unit].generation = exec[e].generation

\* A held request names a lease row that still exists: the sweep skips a
\* request without one for ever.
HeldRequestHasLease ==
  \A u \in Unit : request[u].state \in Held =>
    /\ request[u].by \in Exec
    /\ exec[request[u].by].unit = u /\ exec[request[u].by].lane = "remote"
    /\ exec[request[u].by].lease \notin {"none", "deleted"}

\* A run reads running exactly while its lease is active: no run of a deleted,
\* expired or released lease stays open, in particular on the stale arms.
RunsSettleWithLeases ==
  \A e \in Exec : exec[e].run = "running" <=> Active(e)

Ownership ==
  /\ LeaseOwnsNode /\ LeaseOwnsShard /\ NoDoubleExecution /\ RunningIsOwned
  /\ RemoteLeaseIsTracked /\ HeldRequestHasLease /\ RunsSettleWithLeases

\* What makes Ownership inductive: an active lease covers a unit, an identity
\* without a run has no lease, and no attempt carries an epoch of the future.
AttemptShape ==
  \A e \in Exec :
    /\ Active(e) => exec[e].unit \in Unit
    /\ Unused(e) => exec[e].lease = "none"
    /\ exec[e].generation <= job.generation

OwnershipInv == TypeOK /\ AttemptShape /\ Ownership

-----------------------------------------------------------------------------
(* Dependency order.                                                       *)

\* A node that has left the runnable statuses has all its producers completed,
\* although the scheduler decides on a cached read, enqueues later, and a
\* rerun of a producer may land at any point in between.
ProducersCompleted ==
  \A n \in Node : nodeStatus[n] \notin Runnable =>
    \A d \in Deps[n] : nodeStatus[d] = "completed"

\* A job is only completed with every node: no direct or derived status write
\* closes it early, and no reset reopens a node without reopening the job.
CompletedJobIsDone ==
  job.status = "completed" => \A n \in Node : nodeStatus[n] = "completed"

\* What makes ProducersCompleted inductive.  Whatever the scheduler or the broker
\* still holds of the current generation (a candidate, a closure, a request, a
\* lease) is for a node inside the target whose producers are completed.
DepsDone(n) == \A d \in Deps[n] : nodeStatus[d] = "completed"
MayRun(n) == n \in Allowed(job.target) /\ DepsDone(n)

ViewFits ==
  /\ view.generation <= job.generation
  /\ view.held /\ view.generation = job.generation => job.target \in {view.target, NoTarget}
CacheFits ==
  /\ cache.generation <= job.generation
  /\ cache.generation = job.generation => \A n \in cache.nodes : MayRun(n)
ClosuresFit ==
  \A f \in inflight : /\ f.generation <= job.generation
                      /\ f.generation = job.generation => MayRun(f.unit[1])
RequestsFit ==
  \A u \in Unit : request[u].state # "none" =>
    /\ request[u].generation <= job.generation
    /\ request[u].generation = job.generation => MayRun(u[1])
LeasesFit == \A e \in Exec : Active(e) /\ ~Stale(e) => DepsDone(NodeOf(e))

WorkFits == ViewFits /\ CacheFits /\ ClosuresFit /\ RequestsFit /\ LeasesFit
DispatchInv == OwnershipInv /\ WorkFits /\ ProducersCompleted /\ CompletedJobIsDone

-----------------------------------------------------------------------------
(* Action properties.                                                      *)

\* An attempt only starts on a job that is neither held nor closed, inside the
\* target's closure, and after its producers; the remote claim checks neither
\* the target nor the producers, it relies on the generation of the request.
StartIsAuthorized ==
  [][\A e \in Exec : ~Active(e) /\ Active(e)' =>
       /\ ~job.paused /\ job.status \notin TerminalJob
       /\ NodeOf(e)' \in Allowed(job.target)
       /\ \A d \in Deps[NodeOf(e)'] : nodeStatus[d] = "completed"]_vars

\* However a lease of an older generation ends (result, expiry, Worker loss),
\* the rows a reset has rewritten since are left alone.
StaleNeverFlips ==
  [][\A e \in Exec : Active(e) /\ exec[e].generation # job.generation /\ ~Active(e)' =>
       UNCHANGED <<job, nodeStatus, nodeGen>>]_vars

\* A completed node is only undone by a mutation, which bumps the generation.
CompletedIsFinal ==
  [][\A n \in Node : nodeStatus[n] = "completed" /\ nodeStatus'[n] # "completed" =>
       job'.generation = job.generation + 1]_vars

-----------------------------------------------------------------------------
(* Refinement: leases are a fenced lock.                                   *)

Holds == {[attempt |-> e, resource |-> exec[e].unit, epoch |-> exec[e].generation] :
            e \in {f \in Exec : Active(f)}}
Settled == {e \in Exec : exec[e].lease \in {"released", "expired", "deleted"}}
Lock == INSTANCE FencedLock WITH
          Attempt <- Exec, Resource <- Unit, Fenceable <- ShardUnit,
          epoch <- job.generation, held <- Holds, spent <- Settled

\* Every step of the scheduler, the lease writers, the broker and the operators
\* is a step of the fenced lock or leaves it alone: an attempt is granted its
\* unit once and alone, a lease ends once, several never end in one step, and a
\* reset never raises the generation while a lease of a plain node is active.
LeasesAreFencedLock == Lock!LockSpec

-----------------------------------------------------------------------------
(* What the repository says and the code does not keep.                    *)

\* sharding_requeue.py: the shard row of a lost Worker is restored in the same
\* sweep transaction "or the shard strands": a row that reads running under a
\* running node is bound to a live lease.
RunningShardIsLive ==
  \A u \in ShardUnit : shard[u].status = "running" /\ nodeStatus[u[1]] = "running" =>
    Active(shard[u].by) /\ exec[shard[u].by].unit = u

\* job_pause.py: run-to pauses "stay owned by the continue flow", so a job held
\* by its reached target, with nothing running, is in the status that the
\* continue flow accepts.
TargetPauseIsContinuable ==
  job.paused /\ job.reason = "target_reached" /\ job.status \notin TerminalJob
    /\ (\A n \in Node : nodeStatus[n] # "running") => job.status = "paused"

-----------------------------------------------------------------------------
(* Liveness.                                                               *)

\* A plain node does not stay running for ever.
RunningNodeEnds ==
  \A n \in Node \ Sharded : nodeStatus[n] = "running" ~> nodeStatus[n] # "running"

\* A job does not stay running for ever when nothing of it executes, although
\* the Worker-loss sweep requeues without deriving the job status.
RunningJobEnds == job.status = "running" ~> job.status # "running"

\* A claimed request is closed or requeued, also when the Host crashed
\* between the finish and mark_done.
HeldRequestEnds ==
  \A u \in Unit : request[u].state \in Held ~> request[u].state \notin Held
=============================================================================
