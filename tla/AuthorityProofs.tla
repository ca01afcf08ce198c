-------------------------- MODULE AuthorityProofs --------------------------
(***************************************************************************)
(* What may run: an attempt only starts on an open job, inside the target, *)
(* after its producers; a completed node and a closed job stay true; and   *)
(* the end of an outdated attempt changes nothing.  For every workflow and *)
(* any number of attempts.                                                 *)
(*                                                                         *)
(* The scheduler decides on rows it read earlier, so the argument is about *)
(* what it still holds: DispatchInv is inductive because, within one       *)
(* generation, completed nodes stay completed and the target only widens.  *)
(* A step is Steady and creates no work outside MayRun, or it is a reset.  *)
(***************************************************************************)
EXTENDS OwnershipProofs

\* Within a generation: completed nodes stay so, a node leaves the runnable
\* statuses after its producers,
NodesSteady ==
  \A n \in Node :
    /\ nodeStatus[n] = "completed" => nodeStatus'[n] = "completed"
    /\ nodeStatus'[n] \notin Runnable => nodeStatus[n] \notin Runnable \/ DepsDone(n)
\* the target only widens, and a job closes with all its nodes.
JobSteady ==
  /\ job'.generation = job.generation
  /\ job'.target \in {job.target, NoTarget}
  /\ job'.status = "completed" =>
       job.status = "completed" \/ \A n \in Node : nodeStatus'[n] = "completed"
Steady == NodesSteady /\ JobSteady

\* Work of generation g for node n, created by this step, is authorised.
Fits(g, n) == g <= job.generation /\ (g = job.generation => MayRun(n))

SchedulerFrame ==
  /\ view'.generation <= job.generation
  /\ view'.held => view' = view \/ (view'.generation = job.generation /\ view'.target = job.target)
  /\ cache' = cache \/ (/\ cache'.generation <= job.generation
                        /\ \A n \in cache'.nodes : Fits(cache'.generation, n))
  /\ \A f \in inflight' : f \in inflight \/ Fits(f.generation, f.unit[1])
RequestFrame ==
  \A u \in Unit :
    \/ request'[u].state = "none"
    \/ request[u].state # "none" /\ request'[u].generation = request[u].generation
    \/ Fits(request'[u].generation, u[1])

\* An attempt that is active after the step was so before, or starts with
\* authority; the end of an outdated one leaves the job and its nodes alone.
Authorised(e) ==
  /\ exec'[e].generation = job.generation
  /\ ~job.paused /\ job.status \notin TerminalJob
  /\ MayRun(exec'[e].unit[1])
LeaseFrame ==
  \A e \in Exec :
    /\ Active(e)' => \/ /\ Active(e) /\ exec'[e].unit = exec[e].unit
                        /\ exec'[e].generation = exec[e].generation
                     \/ Authorised(e)
    /\ Active(e) /\ Stale(e) /\ ~Active(e)' => UNCHANGED <<job, nodeStatus, nodeGen>>

\* A reset: a node it leaves alone keeps its producers, no attempt and no work
\* of the new generation exists yet.
ResetStep ==
  /\ job'.generation = job.generation + 1 /\ job'.status = "queued"
  /\ exec' = exec /\ UNCHANGED scheduler
  /\ \A u \in Unit : request'[u] = request[u] \/ request'[u].state = "none"
  /\ \A n \in Node : nodeStatus'[n] \notin Runnable =>
       \A d \in Deps[n] : nodeStatus'[d] = "completed"

AuthorityStep ==
  (Steady /\ SchedulerFrame /\ RequestFrame /\ LeaseFrame) \/ ResetStep

-----------------------------------------------------------------------------
(* Either kind of step keeps DispatchInv.                                  *)

\* The producers of a node are nodes.
LEMMA DepsAreNodes == \A n \in Node : Deps[n] \subseteq Node
BY WorkflowAssumption

\* Authority lasts for the generation.
LEMMA AuthorityLasts ==
  ASSUME Steady, NEW n \in Node
  PROVE  /\ DepsDone(n) => DepsDone(n)'
         /\ MayRun(n) => MayRun(n)'
<1>1. DepsDone(n) => DepsDone(n)'
  BY DepsAreNodes DEF DepsDone, Steady, NodesSteady
<1>2. job'.target = job.target \/ Allowed(job'.target) = Node
  BY DEF Steady, JobSteady, Allowed
<1> QED BY <1>1, <1>2 DEF MayRun

LEMMA SteadyKeeps ==
  ASSUME DispatchInv, TypeOK', Steady, SchedulerFrame, RequestFrame, LeaseFrame
  PROVE  (WorkFits /\ ProducersCompleted /\ CompletedJobIsDone)'
<1> USE DEF DispatchInv, WorkFits
<1>1. job'.generation = job.generation
  BY DEF Steady, JobSteady
<1>2. ViewFits'
  BY <1>1 DEF ViewFits, SchedulerFrame, Steady, JobSteady
<1>3. CacheFits'
  <2>1. cache'.nodes \subseteq Node
    BY DEF TypeOK
  <2>2. CASE cache' = cache
    BY <1>1, <2>1, <2>2, AuthorityLasts DEF CacheFits
  <2>3. CASE cache' # cache
    BY <1>1, <2>1, <2>3, AuthorityLasts DEF CacheFits, SchedulerFrame, Fits
  <2> QED BY <2>2, <2>3
<1>4. ClosuresFit'
  <2> SUFFICES ASSUME NEW f \in inflight'
               PROVE  /\ f.generation <= job'.generation
                      /\ f.generation = job'.generation => MayRun(f.unit[1])'
    BY DEF ClosuresFit
  <2>1. f.unit[1] \in Node
    BY UnitType DEF TypeOK, AnyUnit
  <2>2. Fits(f.generation, f.unit[1])
    BY DEF SchedulerFrame, ClosuresFit, Fits
  <2> QED BY <1>1, <2>1, <2>2, AuthorityLasts DEF Fits
<1>5. RequestsFit'
  <2> SUFFICES ASSUME NEW u \in Unit, request'[u].state # "none"
               PROVE  /\ request'[u].generation <= job'.generation
                      /\ request'[u].generation = job'.generation => MayRun(u[1])'
    BY DEF RequestsFit
  <2>1. u[1] \in Node
    BY PlainNode
  <2>2. Fits(request'[u].generation, u[1])
    BY DEF RequestFrame, RequestsFit, Fits
  <2> QED BY <1>1, <2>1, <2>2, AuthorityLasts DEF Fits
<1>6. LeasesFit'
  <2> SUFFICES ASSUME NEW e \in Exec, exec'[e].lease = "active",
                      exec'[e].generation = job'.generation
               PROVE  \A d \in Deps[exec'[e].unit[1]] : nodeStatus'[d] = "completed"
    BY DEF LeasesFit, Stale, NodeOf, Active, DepsDone
  <2>1. exec'[e].unit[1] \in Node /\ DepsDone(exec'[e].unit[1])
    <3>1. CASE Authorised(e)
      BY <3>1, AllowedType DEF Authorised, MayRun, OwnershipInv, TypeOK, JobRow
    <3>2. CASE Active(e) /\ exec'[e].unit = exec[e].unit /\ exec'[e].generation = exec[e].generation
      <4>1. exec[e].unit \in Unit
        BY <3>2 DEF OwnershipInv, AttemptShape
      <4>2. exec[e].unit[1] \in Node
        BY <4>1, PlainNode
      <4>3. DepsDone(exec[e].unit[1])
        BY <1>1, <3>2 DEF LeasesFit, Stale, NodeOf
      <4> QED BY <3>2, <4>2, <4>3
    <3> QED BY <3>1, <3>2 DEF LeaseFrame, Active
  <2> QED BY <2>1, AuthorityLasts DEF DepsDone
<1>7. ProducersCompleted'
  <2> SUFFICES ASSUME NEW n \in Node, nodeStatus'[n] \notin Runnable
               PROVE  DepsDone(n)'
    BY DEF ProducersCompleted, DepsDone
  <2>1. DepsDone(n)
    BY DEF Steady, NodesSteady, ProducersCompleted, DepsDone
  <2> QED BY <2>1, AuthorityLasts
<1>8. CompletedJobIsDone'
  BY DEF CompletedJobIsDone, Steady, NodesSteady, JobSteady
<1> QED BY <1>2, <1>3, <1>4, <1>5, <1>6, <1>7, <1>8

LEMMA ResetStepKeeps ==
  ASSUME DispatchInv, TypeOK', ResetStep
  PROVE  (WorkFits /\ ProducersCompleted /\ CompletedJobIsDone)'
<1> USE DEF DispatchInv, WorkFits
<1>1. job.generation \in Nat /\ job'.generation = job.generation + 1
  BY EpochNat DEF OwnershipInv, TypeOK, JobRow, ResetStep
<1>2. ViewFits'
  <2>1. view' = view /\ view.generation \in Nat
    BY EpochNat DEF ResetStep, scheduler, OwnershipInv, TypeOK
  <2> QED BY <1>1, <2>1 DEF ViewFits
<1>3. CacheFits'
  <2>1. cache' = cache /\ cache.generation \in Nat
    BY EpochNat DEF ResetStep, scheduler, OwnershipInv, TypeOK
  <2> QED BY <1>1, <2>1 DEF CacheFits
<1>4. ClosuresFit'
  <2>1. inflight' = inflight /\ \A f \in inflight : f.generation \in Nat
    BY EpochNat DEF ResetStep, scheduler, OwnershipInv, TypeOK
  <2> QED BY <1>1, <2>1 DEF ClosuresFit
<1>5. RequestsFit'
  <2>1. \A u \in Unit : request[u].generation \in Nat
    BY EpochNat DEF OwnershipInv, TypeOK, RequestRow
  <2>2. \A u \in Unit : request'[u].state # "none" =>
          request'[u] = request[u] /\ request[u].generation <= job.generation
    BY DEF ResetStep, RequestsFit
  <2> QED BY <1>1, <2>1, <2>2 DEF RequestsFit
<1>6. LeasesFit'
  <2>1. \A e \in Exec : exec[e].generation \in Nat
    BY EpochNat DEF OwnershipInv, TypeOK, ExecRow
  <2>2. \A e \in Exec : exec'[e] = exec[e] /\ exec[e].generation <= job.generation
    BY DEF ResetStep, OwnershipInv, AttemptShape
  <2>3. \A e \in Exec : exec'[e].generation # job'.generation
    BY <1>1, <2>1, <2>2
  <2> QED BY <2>3 DEF LeasesFit, Stale
<1>7. ProducersCompleted' /\ CompletedJobIsDone'
  BY DEF ResetStep, ProducersCompleted, CompletedJobIsDone
<1> QED BY <1>2, <1>3, <1>4, <1>5, <1>6, <1>7

-----------------------------------------------------------------------------
(* What the actions write.                                                 *)

\* sync_job_status closes a job only with all its nodes, and the run-to pause
\* that may follow does not close it; neither touches the target.
LEMMA SyncSteady ==
  ASSUME TypeOK, NEW n, job' \in {SyncJob(job, nodeStatus'), PauseOnTarget(SyncJob(job, nodeStatus'), n)}
  PROVE  JobSteady
<1>1. job \in JobRow
  BY DEF TypeOK
<1>2. job'.generation = job.generation
  BY <1>1, SyncGeneration
<1> DEFINE synced == SyncJob(job, nodeStatus')
<1>3. synced \in JobRow /\ synced.target = job.target
  BY <1>1, SyncType DEF SyncJob, JobRow
<1>4. synced.status = "completed" => \A m \in Node : nodeStatus'[m] = "completed"
  BY <1>1 DEF SyncJob, DerivedStatus, JobRow
<1> HIDE DEF synced
<1>5. job' = synced \/ job' = PauseOnTarget(synced, n)
  BY DEF synced
<1>6. job'.target = job.target /\ (job'.status = "completed" => synced.status = "completed")
  BY <1>3, <1>5 DEF PauseOnTarget, JobRow
<1> QED BY <1>2, <1>4, <1>6 DEF JobSteady

\* A direct write of another status.
LEMMA StatusSteady ==
  ASSUME TypeOK, NEW st \in JobStatuses \ {"completed"}, job' = [job EXCEPT !.status = st]
  PROVE  JobSteady
BY DEF TypeOK, JobRow, JobSteady

\* No write.
LEMMA JobFrame ==
  ASSUME job' = job PROVE JobSteady
BY DEF JobSteady
LEMMA NodesFrame ==
  ASSUME nodeStatus' = nodeStatus PROVE NodesSteady
BY DEF NodesSteady

\* One node takes a status: not out of completed, and not past its producers.
LEMMA NodeSteady ==
  ASSUME TypeOK, NEW n \in Node, NEW st, nodeStatus' = [nodeStatus EXCEPT ![n] = st],
         nodeStatus[n] # "completed",
         st \in Runnable \/ nodeStatus[n] \notin Runnable \/ DepsDone(n)
  PROVE  NodesSteady
BY DEF TypeOK, NodesSteady

\* The scheduler's memory is left alone.
LEMMA SchedulerIdle ==
  ASSUME DispatchInv, UNCHANGED scheduler PROVE SchedulerFrame
BY DEF DispatchInv, WorkFits, ViewFits, SchedulerFrame, scheduler

LEMMA RequestsIdle ==
  ASSUME request' = request PROVE RequestFrame
BY DEF RequestFrame

\* A request is closed.
LEMMA CloseFits ==
  ASSUME TypeOK, NEW u \in Unit, CloseRequest(u) PROVE RequestFrame
BY DEF TypeOK, CloseRequest, RequestFrame, NoRequest

\* No attempt starts or ends.
LEMMA KeptLeases ==
  ASSUME OwnershipInv, \A e \in Exec : KeepsLease(e) PROVE LeaseFrame
BY DEF LeaseFrame, KeepsLease, Active, Unused, OwnershipInv, AttemptShape

LEMMA ExecIdle ==
  ASSUME OwnershipInv, exec' = exec PROVE LeaseFrame
BY KeptLeases DEF KeepsLease, Unused

\* An attempt starts.
LEMMA StartedFits ==
  ASSUME OwnershipInv, NEW u \in Unit, NEW e \in Exec, NEW lane,
         exec' = [exec EXCEPT ![e] = NewAttempt(u, lane)], Unused(e),
         ~job.paused, job.status \notin TerminalJob, MayRun(u[1])
  PROVE  LeaseFrame
<1>1. exec'[e] = NewAttempt(u, lane) /\ \A f \in Exec : f # e => exec'[f] = exec[f]
  BY DEF OwnershipInv, TypeOK
<1>2. Authorised(e) /\ ~Active(e)
  BY <1>1 DEF NewAttempt, Authorised, OwnershipInv, AttemptShape, Active
<1> QED BY <1>1, <1>2 DEF LeaseFrame, Active

\* An attempt ends.
LEMMA EndedFits ==
  ASSUME OwnershipInv, NEW e \in Exec, exec'[e].lease # "active",
         \A f \in Exec : f # e => exec'[f] = exec[f],
         Stale(e) => UNCHANGED <<job, nodeStatus, nodeGen>>
  PROVE  LeaseFrame
BY DEF LeaseFrame, Active, Stale

\* A unit that can start has a node that is not completed; the claim makes it
\* run.
LEMMA StartSteady ==
  ASSUME TypeOK, NEW u \in Unit, NEW e, CanStart(u), StartUnit(u, e), MayRun(u[1])
  PROVE  NodesSteady
<1>1. u[1] \in Node
  BY PlainNode
<1>2. nodeStatus[u[1]] # "completed"
  BY DEF CanStart, Runnable
<1> QED BY <1>1, <1>2, NodeSteady DEF StartUnit, MayRun

\* A failure without a lease.
LEMMA RecordSteady ==
  ASSUME TypeOK, NEW n \in Node, NEW e \in Exec, RecordFailure(n, e), DepsDone(n)
  PROVE  NodesSteady
BY NodeSteady DEF RecordFailure, Runnable

\* The candidates in the cache are nodes; those of the current generation may run.
LEMMA CandidatesFit ==
  ASSUME DispatchInv, cache.generation = job.generation, NEW n \in cache.nodes
  PROVE  n \in Node /\ MayRun(n) /\ DepsDone(n)
BY DEF DispatchInv, WorkFits, CacheFits, OwnershipInv, TypeOK, MayRun

-----------------------------------------------------------------------------
(* The actions, by component.                                              *)

LEMMA SchedulerAuthority == DispatchInv /\ SchedulerNext => AuthorityStep
<1> SUFFICES ASSUME DispatchInv, SchedulerNext
             PROVE  Steady /\ SchedulerFrame /\ RequestFrame /\ LeaseFrame
  BY DEF AuthorityStep
<1> DEFINE goal == Steady /\ SchedulerFrame /\ RequestFrame /\ LeaseFrame
<1>a. OwnershipInv /\ TypeOK
  BY DEF DispatchInv, OwnershipInv
<1>b. job.generation \in Nat
  BY <1>a, EpochNat DEF TypeOK, JobRow
<1> USE <1>a DEF Steady
<1>1. CASE ReadJob
  <2>1. view' = [held |-> TRUE, generation |-> job.generation, target |-> job.target]
    BY <1>1 DEF ReadJob
  <2>2. SchedulerFrame
    BY <1>1, <1>b, <2>1 DEF ReadJob, SchedulerFrame
  <2> QED BY <1>1, <2>2, JobFrame, NodesFrame, RequestsIdle, ExecIdle DEF ReadJob, rows
<1>2. CASE Evaluate
  <2>1. \A n \in cache'.nodes : cache'.generation = job.generation => MayRun(n)
    <3> SUFFICES ASSUME NEW n \in Allowed(view.target), Ready(n),
                        view.generation = job.generation
                 PROVE  MayRun(n)
      BY <1>2 DEF Evaluate
    <3>1. job.target \in {view.target, NoTarget}
      BY <1>2 DEF Evaluate, DispatchInv, WorkFits, ViewFits
    <3>2. n \in Allowed(job.target)
      BY <3>1, AllowedType DEF Allowed, TypeOK
    <3> QED BY <3>2 DEF Ready, MayRun, DepsDone
  <2>2. cache'.generation = view.generation /\ view.generation <= job.generation
    BY <1>2 DEF Evaluate, DispatchInv, WorkFits, ViewFits
  <2>3. view' = NoView /\ inflight' = inflight /\ UNCHANGED rows
    BY <1>2 DEF Evaluate
  <2>4. SchedulerFrame
    BY <1>b, <2>1, <2>2, <2>3 DEF SchedulerFrame, NoView, Fits
  <2> QED BY <2>3, <2>4, JobFrame, NodesFrame, RequestsIdle, ExecIdle DEF rows
<1>3. ASSUME NEW n \in Sharded, NEW inputs \in SUBSET Shard, MaterializeShards(n, inputs)
      PROVE  goal
  <2>1. n \in Node /\ DepsDone(n)
    BY <1>3, CandidatesFit DEF MaterializeShards
  <2>2. NodesSteady
    BY <1>3, <2>1, NodesFrame, NodeSteady DEF MaterializeShards, Runnable
  <2>3. JobSteady
    BY <1>3, JobFrame, SyncSteady DEF MaterializeShards
  <2> QED BY <1>3, <2>2, <2>3, SchedulerIdle, RequestsIdle, ExecIdle DEF MaterializeShards
<1>4. ASSUME NEW u \in Unit, Dispatch(u) PROVE goal
  <2> DEFINE closure == [unit |-> u, generation |-> cache.generation]
  <2>1. UNCHANGED rows /\ view' = view /\ cache' = cache /\ inflight' = inflight \cup {closure}
    BY <1>4 DEF Dispatch
  <2>2. Fits(cache.generation, u[1])
    BY <1>4 DEF Dispatch, DispatchInv, WorkFits, CacheFits, Fits
  <2>3. SchedulerFrame
    BY <2>1, <2>2 DEF SchedulerFrame, DispatchInv, WorkFits, ViewFits
  <2> QED BY <2>1, <2>3, JobFrame, NodesFrame, RequestsIdle, ExecIdle DEF rows
<1>5. ASSUME NEW f \in inflight, inflight' = inflight \ {f}, UNCHANGED <<view, cache>>
      PROVE  SchedulerFrame /\ f.unit \in Unit /\ f.unit[1] \in Node
             /\ Fits(f.generation, f.unit[1])
  <2>1. SchedulerFrame
    BY <1>5 DEF SchedulerFrame, DispatchInv, WorkFits, ViewFits
  <2>2. f.unit \in Unit
    BY DEF TypeOK
  <2> QED BY <2>1, <2>2, PlainNode DEF DispatchInv, WorkFits, ClosuresFit, Fits
<1>6. ASSUME NEW f \in inflight, Enqueue(f) PROVE goal
  <2>1. SchedulerFrame /\ f.unit \in Unit /\ Fits(f.generation, f.unit[1])
    BY <1>5, <1>6 DEF Enqueue
  <2>2. RequestFrame
    <3>1. CASE request' = request
      BY <3>1, RequestsIdle
    <3>2. CASE request' = [request EXCEPT ![f.unit] = [NoRequest EXCEPT !.state = "queued",
                                                  !.generation = f.generation]]
      <4>1. request'[f.unit].generation = f.generation
        BY <2>1, <3>2 DEF TypeOK, NoRequest
      <4>2. \A u \in Unit : u # f.unit => request'[u] = request[u]
        BY <3>2 DEF TypeOK
      <4> QED BY <2>1, <4>1, <4>2 DEF RequestFrame
    <3> QED BY <1>6, <3>1, <3>2 DEF Enqueue
  <2> QED BY <1>6, <2>1, <2>2, JobFrame, NodesFrame, ExecIdle DEF Enqueue
<1>7. ASSUME NEW u \in Unit, NEW e \in Exec, ClaimLocal(u, e) PROVE goal
  <2>1. MayRun(u[1])
    BY <1>7, CandidatesFit DEF ClaimLocal
  <2>2. NodesSteady
    BY <1>7, <2>1, StartSteady DEF ClaimLocal
  <2>3. JobSteady
    BY <1>7, StatusSteady DEF ClaimLocal, JobStatuses
  <2>4. LeaseFrame
    BY <1>7, <2>1, StartedFits DEF ClaimLocal
  <2> QED BY <1>7, <2>2, <2>3, <2>4, SchedulerIdle, RequestsIdle DEF ClaimLocal
<1>8. ASSUME NEW g \in Gate, Park(g) PROVE goal
  <2>1. g \in Node /\ DepsDone(g)
    BY <1>8, CandidatesFit DEF Park
  <2>2. NodesSteady
    BY <1>8, <2>1, NodeSteady DEF Park, Runnable
  <2>3. JobSteady
    BY <1>8, SyncSteady DEF Park
  <2> QED BY <1>8, <2>2, <2>3, SchedulerIdle, RequestsIdle, ExecIdle DEF Park
<1>9. ASSUME NEW n \in Node, NEW e \in Exec, FailConfig(n, e) PROVE goal
  <2>1. NodesSteady
    BY <1>9, CandidatesFit, RecordSteady DEF FailConfig
  <2>2. JobSteady
    BY <1>9, SyncSteady DEF FailConfig
  <2>3. LeaseFrame
    BY <1>9, FailureQuiet, KeptLeases DEF FailConfig
  <2> QED BY <1>9, <2>1, <2>2, <2>3, SchedulerIdle, RequestsIdle DEF FailConfig
<1>10. ASSUME NEW f \in inflight, NEW e \in Exec, FailEnqueue(f, e) PROVE goal
  <2>1. SchedulerFrame /\ f.unit[1] \in Node /\ Fits(f.generation, f.unit[1])
    BY <1>5, <1>10 DEF FailEnqueue
  <2>2. RequestFrame
    BY <1>10, RequestsIdle DEF FailEnqueue
  <2>3. CASE UNCHANGED <<job, nodeStatus, exec>>
    BY <2>1, <2>2, <2>3, JobFrame, NodesFrame, ExecIdle
  <2>4. CASE /\ f.generation = job.generation /\ RecordFailure(f.unit[1], e)
             /\ job' = SyncJob(job, nodeStatus')
    <3>1. NodesSteady
      BY <2>1, <2>4, RecordSteady DEF Fits, MayRun
    <3>2. JobSteady
      BY <2>4, SyncSteady
    <3>3. LeaseFrame
      BY <2>1, <2>4, FailureQuiet, KeptLeases
    <3> QED BY <2>1, <2>2, <3>1, <3>2, <3>3
  <2> QED BY <1>10, <2>3, <2>4 DEF FailEnqueue
<1> QED
  BY <1>1, <1>2, <1>3, <1>4, <1>6, <1>7, <1>8, <1>9, <1>10 DEF SchedulerNext

\* An active attempt executes a node; a current one has the node's producers
\* behind it, and the node of a plain one, or the row of its shard, to itself.
LEMMA AttemptFits ==
  ASSUME DispatchInv, NEW e \in Exec, Active(e)
  PROVE  /\ NodeOf(e) \in Node
         /\ ~Stale(e) => DepsDone(NodeOf(e))
         /\ ~Stale(e) /\ ~BoundToShard(e) => nodeStatus[NodeOf(e)] = "running"
<1> USE DEF DispatchInv, OwnershipInv
<1>1. NodeOf(e) \in Node
  BY PlainNode DEF AttemptShape, NodeOf
<1>2. ~Stale(e) => DepsDone(NodeOf(e))
  BY DEF WorkFits, LeasesFit
<1>3. ~Stale(e) /\ ~BoundToShard(e) => nodeStatus[NodeOf(e)] = "running"
  <2>1. exec[e].unit \in ShardUnit /\ ~Stale(e) => BoundToShard(e)
    <3> SUFFICES ASSUME exec[e].unit \in ShardUnit, ~Stale(e) PROVE BoundToShard(e)
      OBVIOUS
    <3>1. shard[exec[e].unit] = [status |-> "running", by |-> e]
      BY DEF Ownership, LeaseOwnsShard
    <3>2. shard[exec[e].unit].by = e
      BY <3>1
    <3> QED BY <3>2 DEF BoundToShard
  <2> QED BY <2>1 DEF Ownership, LeaseOwnsNode
<1> QED BY <1>1, <1>2, <1>3

\* The end of a shard flips the node only for a current attempt.
LEMMA SettleShardSteady ==
  ASSUME DispatchInv, NEW e \in Exec, Active(e), NEW outcome, SettleShard(e, outcome)
  PROVE  Steady /\ (Stale(e) => UNCHANGED <<job, nodeStatus>>)
<1>a. TypeOK
  BY DEF DispatchInv, OwnershipInv
<1> DEFINE n == NodeOf(e)
           aggregate == Aggregate([shard EXCEPT ![exec[e].unit].status = outcome], n)
<1>1. CASE UNCHANGED <<nodeStatus, job>>
  BY <1>1, NodesFrame, JobFrame DEF Steady
<1>2. CASE /\ ~Stale(e)
           /\ nodeStatus' = IF nodeStatus[n] \in Runnable \cup {"running"}
                            THEN [nodeStatus EXCEPT ![n] = aggregate] ELSE nodeStatus
           /\ job' = IF aggregate = "completed" THEN PauseOnTarget(SyncJob(job, nodeStatus'), n)
                     ELSE SyncJob(job, nodeStatus')
  <2>1. n \in Node /\ DepsDone(n)
    BY <1>2, AttemptFits
  <2> HIDE DEF n, aggregate
  <2>2. JobSteady
    BY <1>a, <1>2, SyncSteady
  <2>3. NodesSteady
    BY <1>a, <1>2, <2>1, NodeSteady, NodesFrame DEF Runnable
  <2> QED BY <1>2, <2>2, <2>3 DEF Steady
<1> QED BY <1>1, <1>2 DEF SettleShard

LEMMA LeaseAuthority == DispatchInv /\ LeaseNext => AuthorityStep
<1> SUFFICES ASSUME DispatchInv, LeaseNext
             PROVE  Steady /\ SchedulerFrame /\ RequestFrame /\ LeaseFrame
  BY DEF AuthorityStep
<1> DEFINE goal == Steady /\ SchedulerFrame /\ RequestFrame /\ LeaseFrame
<1>a. OwnershipInv /\ TypeOK
  BY DEF DispatchInv, OwnershipInv
<1> USE <1>a
<1>1. ASSUME NEW e \in Exec, NEW lease \in {"released", "expired"}, NEW run, Active(e),
             EndAttempt(e, lease, run), UNCHANGED <<nodeGen, request, scheduler>>,
             Steady, Stale(e) => UNCHANGED <<job, nodeStatus>>
      PROVE  goal
  <2>1. exec'[e].lease # "active" /\ \A f \in Exec : f # e => exec'[f] = exec[f]
    BY <1>1, EndRow
  <2>2. LeaseFrame
    BY <1>1, <2>1, EndedFits
  <2> QED BY <1>1, <2>2, SchedulerIdle, RequestsIdle
<1>2. ASSUME NEW e \in Exec, NEW outcome \in Outcomes, Finish(e, outcome) PROVE goal
  <2> DEFINE settled == IF outcome = "completed" THEN "completed" ELSE "failed"
  <2>1. Active(e) /\ EndAttempt(e, "released", settled)
    BY <1>2 DEF Finish
  <2>2. Steady /\ (Stale(e) => UNCHANGED <<job, nodeStatus>>)
    <3>1. CASE BoundToShard(e)
      <4>1. SettleShard(e, settled)
        BY <1>2, <3>1 DEF Finish
      <4> HIDE DEF settled
      <4> QED BY <2>1, <4>1, SettleShardSteady
    <3>2. CASE ~BoundToShard(e) /\ Stale(e)
      BY <1>2, <3>2, NodesFrame, JobFrame DEF Finish, Steady
    <3>3. CASE ~BoundToShard(e) /\ ~Stale(e)
      <4>1. SettleNode(e, outcome)
        BY <1>2, <3>3 DEF Finish
      <4>2. NodeOf(e) \in Node /\ nodeStatus[NodeOf(e)] = "running"
        BY <2>1, <3>3, AttemptFits
      <4>3. \E st \in {"completed", "failed", "pending"} :
              nodeStatus' = [nodeStatus EXCEPT ![NodeOf(e)] = st]
        BY <4>1 DEF SettleNode, Outcomes
      <4>4. NodesSteady
        BY <4>2, <4>3, NodeSteady DEF Runnable
      <4>5. JobSteady
        <5>1. job' \in {SyncJob(job, nodeStatus'),
                        PauseOnTarget(SyncJob(job, nodeStatus'), NodeOf(e))}
          BY <4>1 DEF SettleNode
        <5> QED BY <5>1, SyncSteady
      <4> QED BY <3>3, <4>4, <4>5 DEF Steady
    <3> QED BY <3>1, <3>2, <3>3
  <2>3. UNCHANGED <<nodeGen, request, scheduler>>
    BY <1>2 DEF Finish
  <2> HIDE DEF settled
  <2> QED BY <1>1, <2>1, <2>2, <2>3
<1>3. ASSUME NEW e \in Exec, ExpireLocal(e) PROVE goal
  <2>1. Active(e) /\ EndAttempt(e, "expired", "failed") /\ UNCHANGED <<nodeGen, request, scheduler>>
    BY <1>3 DEF ExpireLocal
  <2>2. Steady /\ (Stale(e) => UNCHANGED <<job, nodeStatus>>)
    <3>1. CASE BoundToShard(e)
      BY <1>3, <2>1, <3>1, SettleShardSteady DEF ExpireLocal
    <3>2. CASE ~BoundToShard(e) /\ Stale(e)
      BY <1>3, <3>2, NodesFrame, JobFrame DEF ExpireLocal, Steady
    <3>3. CASE ~BoundToShard(e) /\ ~Stale(e)
      <4>1. NodeOf(e) \in Node /\ nodeStatus[NodeOf(e)] = "running"
        BY <2>1, <3>3, AttemptFits
      <4>2. NodesSteady
        BY <1>3, <3>3, <4>1, NodeSteady DEF ExpireLocal, Runnable
      <4>3. JobSteady
        BY <1>3, <3>3, StatusSteady DEF ExpireLocal, JobStatuses
      <4> QED BY <3>3, <4>2, <4>3 DEF Steady
    <3> QED BY <3>1, <3>2, <3>3
  <2> QED BY <1>1, <2>1, <2>2
<1>4. CASE Recover
  <2>1. exec' = exec
    BY <1>4 DEF Recover, OwnershipInv, Ownership, RunsSettleWithLeases, TypeOK
  <2>2. \A n \in Node : nodeStatus'[n] = nodeStatus[n]
                       \/ (nodeStatus[n] = "running" /\ nodeStatus'[n] = "pending")
    BY <1>4 DEF Recover
  <2>3. NodesSteady
    BY <2>2 DEF NodesSteady, Runnable
  <2>4. JobSteady
    BY <1>4, SyncSteady DEF Recover
  <2> QED BY <1>4, <2>1, <2>3, <2>4, SchedulerIdle, RequestsIdle, ExecIdle DEF Recover, Steady
<1>5. ASSUME NEW e \in Exec, Heartbeat(e) \/ FallSilent(e) PROVE goal
  <2>1. LeaseFrame
    BY <1>5, SignalKeeps, KeptLeases DEF Heartbeat, FallSilent
  <2> QED BY <1>5, <2>1, NodesFrame, JobFrame, SchedulerIdle, RequestsIdle
          DEF Heartbeat, FallSilent, Steady
<1> QED BY <1>2, <1>3, <1>4, <1>5 DEF LeaseNext

LEMMA BrokerAuthority == DispatchInv /\ BrokerNext => AuthorityStep
<1> SUFFICES ASSUME DispatchInv, BrokerNext
             PROVE  Steady /\ SchedulerFrame /\ RequestFrame /\ LeaseFrame
  BY DEF AuthorityStep
<1> DEFINE goal == Steady /\ SchedulerFrame /\ RequestFrame /\ LeaseFrame
<1>a. OwnershipInv /\ TypeOK
  BY DEF DispatchInv, OwnershipInv
<1> USE <1>a
<1>b. \A u \in Unit : request[u].state # "none" /\ ~StaleRequest(u) => MayRun(u[1])
  BY DEF DispatchInv, WorkFits, RequestsFit, StaleRequest
<1>1. ASSUME NEW u \in Unit, NEW e \in Exec, ClaimRemote(u, e) PROVE goal
  <2>1. MayRun(u[1])
    BY <1>1, <1>b DEF ClaimRemote
  <2>2. NodesSteady
    BY <1>1, <2>1, StartSteady DEF ClaimRemote
  <2>3. JobSteady
    BY <1>1, StatusSteady DEF ClaimRemote, JobStatuses
  <2>4. LeaseFrame
    BY <1>1, <2>1, StartedFits DEF ClaimRemote, JobHeld, ClaimableJob, TerminalJob
  <2>5. /\ request[u].state # "none" /\ request'[u].generation = request[u].generation
        /\ \A w \in Unit : w # u => request'[w] = request[w]
    <3>1. request[u] \in RequestRow
      BY DEF TypeOK
    <3> QED BY <1>1, <3>1 DEF ClaimRemote, RequestRow, TypeOK
  <2>6. RequestFrame
    BY <2>5 DEF RequestFrame
  <2> QED BY <1>1, <2>2, <2>3, <2>4, <2>6, SchedulerIdle DEF ClaimRemote, Steady
<1>2. ASSUME NEW u \in Unit, CancelAtClaim(u) \/ SweepStaleQueued(u) PROVE goal
  BY <1>2, NodesFrame, JobFrame, SchedulerIdle, ExecIdle, CloseFits
     DEF CancelAtClaim, SweepStaleQueued, Steady
<1>3. ASSUME NEW u \in Unit, Release(u) PROVE goal
  <2>1. /\ request[u].state # "none" /\ request'[u].generation = request[u].generation
        /\ \A w \in Unit : w # u => request'[w] = request[w]
    <3>1. request[u] \in RequestRow
      BY DEF TypeOK
    <3> QED BY <1>3, <3>1 DEF Release, RequestRow, TypeOK
  <2>2. RequestFrame
    BY <2>1 DEF RequestFrame
  <2> QED BY <1>3, <2>2, NodesFrame, JobFrame, SchedulerIdle, ExecIdle DEF Release, Steady
<1>4. ASSUME NEW e \in Exec, MarkDone(e) PROVE goal
  <2>1. RequestFrame
    <3>1. CASE exec[e].unit \in Unit
      BY <1>4, <3>1, CloseFits DEF MarkDone
    <3>2. CASE exec[e].unit \notin Unit
      BY <1>4, <3>2, RequestsIdle DEF MarkDone, CloseRequest, TypeOK
    <3> QED BY <3>1, <3>2
  <2>2. LeaseFrame
    BY <1>4, SignalKeeps, KeptLeases DEF MarkDone
  <2> QED BY <1>4, <2>1, <2>2, NodesFrame, JobFrame, SchedulerIdle DEF MarkDone, Steady
\* What a swept request says of its lease.
<1>5. ASSUME NEW u \in Unit, SweepCandidate(u)
      PROVE  /\ request[u].by \in Exec
             /\ Active(request[u].by) /\ Stale(request[u].by) => StaleRequest(u)
  <2> DEFINE e == request[u].by
  <2>1. e \in Exec /\ exec[e].unit = u /\ exec[e].lane = "remote"
    BY <1>5 DEF SweepCandidate, OwnershipInv, Ownership, HeldRequestHasLease
  <2>2. Active(e) => request[u].generation = exec[e].generation
    BY <2>1 DEF OwnershipInv, Ownership, RemoteLeaseIsTracked
  <2> QED BY <2>1, <2>2 DEF Stale, StaleRequest
<1>6. ASSUME NEW u \in Unit, SweepSettled(u) PROVE goal
  <2>1. LeaseFrame
    BY <1>5, <1>6, SignalKeeps, KeptLeases DEF SweepSettled
  <2> QED BY <1>6, <2>1, NodesFrame, JobFrame, SchedulerIdle, CloseFits DEF SweepSettled, Steady
<1>7. ASSUME NEW u \in Unit, SweepCandidate(u), DeleteLease(request[u].by), Active(request[u].by),
             Stale(request[u].by) => UNCHANGED <<job, nodeStatus, nodeGen>>
      PROVE  LeaseFrame
  <2>1. request[u].by \in Exec
    BY <1>5, <1>7
  <2>2. /\ exec'[request[u].by].lease # "active"
        /\ \A f \in Exec : f # request[u].by => exec'[f] = exec[f]
    BY <1>7, <2>1, DeleteRow
  <2> QED BY <1>7, <2>1, <2>2, EndedFits
<1>8. ASSUME NEW u \in Unit, SweepCancel(u) PROVE goal
  <2>1. LeaseFrame
    BY <1>7, <1>8 DEF SweepCancel
  <2> QED BY <1>8, <2>1, NodesFrame, JobFrame, SchedulerIdle, CloseFits DEF SweepCancel, Steady
<1>9. ASSUME NEW u \in Unit, SweepRequeue(u) PROVE goal
  <2>1. LeaseFrame
    BY <1>5, <1>7, <1>9 DEF SweepRequeue
  <2>2. u[1] \in Node
    BY PlainNode
  <2>3. NodesSteady
    BY <1>9, <2>2, NodeSteady DEF SweepRequeue, Runnable
  <2>4. /\ request[u].state # "none" /\ request'[u].generation = request[u].generation
        /\ \A w \in Unit : w # u => request'[w] = request[w]
    <3>1. request[u] \in RequestRow
      BY DEF TypeOK
    <3> QED BY <1>9, <3>1 DEF SweepRequeue, SweepCandidate, Held, RequestRow, TypeOK
  <2>5. RequestFrame
    BY <2>4 DEF RequestFrame
  <2> QED BY <1>9, <2>1, <2>3, <2>5, JobFrame, SchedulerIdle DEF SweepRequeue, Steady
<1>10. ASSUME NEW u \in Unit, SweepFail(u) PROVE goal
  <2>1. LeaseFrame
    BY <1>5, <1>7, <1>10 DEF SweepFail
  <2>2. u[1] \in Node
    BY PlainNode
  <2>3. NodesSteady
    BY <1>10, <2>2, NodeSteady, NodesFrame DEF SweepFail, Runnable
  <2>4. JobSteady
    BY <1>10, JobFrame, SyncSteady DEF SweepFail
  <2> QED BY <1>10, <2>1, <2>3, <2>4, SchedulerIdle, CloseFits DEF SweepFail, Steady
<1>11. ASSUME NEW u \in Unit, NEW e \in Exec, SweepUnclaimable(u, e) PROVE goal
  <2>1. u[1] \in Node /\ MayRun(u[1])
    BY <1>11, <1>b, PlainNode DEF SweepUnclaimable
  <2>2. CASE UNCHANGED <<job, nodeStatus, exec>>
    BY <1>11, <2>2, NodesFrame, JobFrame, SchedulerIdle, CloseFits, ExecIdle
       DEF SweepUnclaimable, Steady
  <2>3. CASE /\ RecordFailure(u[1], e)
             /\ job' = IF job.status = "completed" THEN job ELSE [job EXCEPT !.status = "failed"]
    <3>1. NodesSteady
      BY <2>1, <2>3, RecordSteady DEF MayRun
    <3>2. JobSteady
      BY <2>3, JobFrame, StatusSteady DEF JobStatuses
    <3>3. LeaseFrame
      BY <2>1, <2>3, FailureQuiet, KeptLeases
    <3> QED BY <1>11, <3>1, <3>2, <3>3, SchedulerIdle, CloseFits DEF SweepUnclaimable, Steady
  <2> QED BY <1>11, <2>2, <2>3 DEF SweepUnclaimable
<1> QED
  BY <1>1, <1>2, <1>3, <1>4, <1>6, <1>8, <1>9, <1>10, <1>11 DEF BrokerNext, SweepExpired

-----------------------------------------------------------------------------
(* Resets.                                                                 *)

\* The reset of a node and of what is downstream of it takes every consumer
\* of a node it takes.
LEMMA DownstreamClosed ==
  ASSUME NEW n \in Node, NEW m \in Node, NEW d \in Deps[m], d \in {n} \cup Downstream(n)
  PROVE  m \in {n} \cup Downstream(n)
<1>1. d \in Node
  BY DepsAreNodes
<1>2. \A S \in SUBSET Node : m \in S /\ DepClosed(S) => d \in S
  BY DEF DepClosed
<1>3. \A S \in SUBSET Node : d \in S /\ DepClosed(S) => n \in S
  BY <1>1 DEF Downstream, Closure
<1>4. n \in Closure[m]
  BY <1>2, <1>3 DEF Closure
<1> QED BY <1>4 DEF Downstream

LEMMA MutationAuthority == DispatchInv /\ MutationNext => AuthorityStep
<1> SUFFICES ASSUME DispatchInv, MutationNext PROVE AuthorityStep
  OBVIOUS
<1>a. OwnershipInv /\ TypeOK
  BY DEF DispatchInv, OwnershipInv
<1> USE <1>a DEF AuthorityStep
<1>1. ASSUME NEW S, CancelQueued(S)
      PROVE  \A u \in Unit : request'[u] = request[u] \/ request'[u].state = "none"
  BY <1>1 DEF CancelQueued, NoRequest
<1>2. ASSUME NEW n \in Node, NEW control \in JobRow, control.generation = job.generation,
             MarkForRerun(n, control)
      PROVE  AuthorityStep
  <2> DEFINE affected == {n} \cup Downstream(n)
  <2>1. job'.generation = job.generation + 1 /\ job'.status = "queued"
    BY <1>2 DEF MarkForRerun, JobRow
  <2>2. nodeStatus' = [m \in Node |-> IF m = n THEN "pending"
                                      ELSE IF m \in affected THEN "stale" ELSE nodeStatus[m]]
    BY <1>2 DEF MarkForRerun
  <2>3. ASSUME NEW m \in Node, nodeStatus'[m] \notin Runnable, NEW d \in Deps[m]
        PROVE  nodeStatus'[d] = "completed"
    <3>1. m \notin affected /\ nodeStatus'[m] = nodeStatus[m]
      BY <2>2, <2>3 DEF Runnable
    <3>2. d \in Node /\ d \notin affected
      BY <3>1, DepsAreNodes, DownstreamClosed
    <3>3. nodeStatus[d] = "completed"
      BY <2>3, <3>1 DEF DispatchInv, ProducersCompleted
    <3> HIDE DEF affected
    <3>4. n \in affected
      BY DEF affected
    <3> QED BY <2>2, <3>2, <3>3, <3>4
  <2>4. \A u \in Unit : request'[u] = request[u] \/ request'[u].state = "none"
    BY <1>1, <1>2 DEF MarkForRerun
  <2>5. exec' = exec /\ UNCHANGED scheduler
    BY <1>2 DEF MarkForRerun
  <2>6. ResetStep
    BY <2>1, <2>3, <2>4, <2>5 DEF ResetStep
  <2> QED BY <2>6
<1>3. ASSUME NEW t \in Node
      PROVE  UntilNode(job, t) \in JobRow /\ UntilNode(job, t).generation = job.generation
  BY DEF UntilNode, JobRow, TypeOK
<1>4. ASSUME NEW n \in Node, Rerun(n) PROVE AuthorityStep
  BY <1>2, <1>4 DEF Rerun, TypeOK
<1>5. ASSUME NEW g \in Gate, NEW n \in Node, Rework(g, n) PROVE AuthorityStep
  BY <1>2, <1>5 DEF Rework, TypeOK
<1>6. ASSUME NEW t \in Node, NEW n \in Node, RunToFrom(t, n) PROVE AuthorityStep
  BY <1>2, <1>3, <1>6 DEF RunToFrom
<1>7. ASSUME NEW t \in Node, RunTo(t) PROVE AuthorityStep
  <2> DEFINE reset == {m \in Closure[t] : nodeStatus[m] # "completed"}
  <2>1. job'.generation = job.generation + 1 /\ job'.status = "queued"
    BY <1>3, <1>7 DEF RunTo, JobRow
  <2>2. nodeStatus' = [m \in Node |-> IF m \in reset THEN "pending" ELSE nodeStatus[m]]
    BY <1>7 DEF RunTo
  <2>3. ASSUME NEW m \in Node, nodeStatus'[m] \notin Runnable, NEW d \in Deps[m]
        PROVE  nodeStatus'[d] = "completed"
    <3>1. nodeStatus'[m] = nodeStatus[m]
      BY <2>2, <2>3 DEF Runnable
    <3>2. d \in Node /\ nodeStatus[d] = "completed"
      BY <2>3, <3>1, DepsAreNodes DEF DispatchInv, ProducersCompleted
    <3> QED BY <2>2, <3>2
  <2>4. \A u \in Unit : request'[u] = request[u] \/ request'[u].state = "none"
    BY <1>1, <1>7 DEF RunTo
  <2>5. exec' = exec /\ UNCHANGED scheduler
    BY <1>7 DEF RunTo
  <2>6. ResetStep
    BY <2>1, <2>3, <2>4, <2>5 DEF ResetStep
  <2> QED BY <2>6
<1>8. ASSUME NEW g \in Gate, NEW verdict \in {"completed", "failed"}, Decide(g, verdict)
      PROVE  AuthorityStep
  <2>1. g \in Node
    BY WorkflowAssumption
  <2>2. NodesSteady
    BY <1>8, <2>1, NodeSteady DEF Decide, Runnable
  <2>3. JobSteady
    BY <1>8, SyncSteady DEF Decide
  <2> QED BY <1>8, <2>2, <2>3, SchedulerIdle, RequestsIdle, ExecIdle DEF Decide, Steady
<1>9. ASSUME Pause \/ Resume \/ Continue PROVE AuthorityStep
  <2>1. JobSteady
    BY <1>9, ZenonT(60) DEF Pause, Resume, Continue, TypeOK, JobRow, JobSteady
  <2> QED BY <1>9, <2>1, NodesFrame, SchedulerIdle, RequestsIdle, ExecIdle
          DEF Pause, Resume, Continue, Steady
<1> QED
  BY <1>4, <1>5, <1>6, <1>7, <1>8, <1>9 DEF MutationNext

-----------------------------------------------------------------------------
(* The theorems.                                                           *)

LEMMA InitDispatch == Init => DispatchInv
<1> SUFFICES ASSUME Init PROVE DispatchInv
  OBVIOUS
<1>1. OwnershipInv
  BY InitOwnership
<1>2. WorkFits
  <2>1. job.generation = 0 /\ view.generation = 0 /\ ~view.held
    BY DEF Init, NoView
  <2>2. cache.generation = 0 /\ cache.nodes = {} /\ inflight = {}
    BY DEF Init
  <2>3. \A u \in Unit : request[u].state = "none"
    BY DEF Init, NoRequest
  <2>4. \A e \in Exec : ~Active(e)
    BY DEF Init, Active, UnusedExec
  <2> QED BY <2>1, <2>2, <2>3, <2>4
          DEF WorkFits, ViewFits, CacheFits, ClosuresFit, RequestsFit, LeasesFit
<1>3. ProducersCompleted /\ CompletedJobIsDone
  BY DEF Init, ProducersCompleted, CompletedJobIsDone, Runnable
<1> QED BY <1>1, <1>2, <1>3 DEF DispatchInv

\* Every step is steady or a reset.
LEMMA AuthoritySteps == DispatchInv /\ [Next]_vars => AuthorityStep
<1> SUFFICES ASSUME DispatchInv, [Next]_vars PROVE AuthorityStep
  OBVIOUS
<1>1. CASE UNCHANGED vars
  BY <1>1, NodesFrame, JobFrame, SchedulerIdle, RequestsIdle, ExecIdle
     DEF vars, scheduler, AuthorityStep, Steady, DispatchInv
<1>2. CASE Next
  BY <1>2, SchedulerAuthority, LeaseAuthority, BrokerAuthority, MutationAuthority DEF Next
<1> QED BY <1>1, <1>2

\* DispatchInv is inductive.
LEMMA DispatchStep == DispatchInv /\ [Next]_vars => DispatchInv'
<1> SUFFICES ASSUME DispatchInv, [Next]_vars PROVE DispatchInv'
  OBVIOUS
<1>1. OwnershipInv'
  BY OwnershipStep DEF DispatchInv
<1>2. TypeOK'
  BY <1>1 DEF OwnershipInv
<1>3. (WorkFits /\ ProducersCompleted /\ CompletedJobIsDone)'
  BY <1>2, AuthoritySteps, SteadyKeeps, ResetStepKeeps DEF AuthorityStep
<1> QED BY <1>1, <1>3 DEF DispatchInv

\* A node only leaves the runnable statuses after all its producers, and no
\* rerun, late result or requeue leaves it behind an undone producer.
THEOREM ProducersCompletedHolds == Spec => []ProducersCompleted
<1>1. DispatchInv => ProducersCompleted
  BY DEF DispatchInv
<1> QED BY <1>1, InitDispatch, DispatchStep, PTL DEF Spec

\* A completed job has every node completed: no direct or derived status write
\* closes it early, no reset reopens a node behind its back.
THEOREM CompletedJobIsDoneHolds == Spec => []CompletedJobIsDone
<1>1. DispatchInv => CompletedJobIsDone
  BY DEF DispatchInv
<1> QED BY <1>1, InitDispatch, DispatchStep, PTL DEF Spec

\* An attempt only starts on an open job that is not held, inside the target and
\* after its producers, although neither claim checks all of it.
THEOREM StartIsAuthorizedHolds == Spec => StartIsAuthorized
<1>1. ASSUME DispatchInv, [Next]_vars, NEW e \in Exec, ~Active(e), Active(e)'
      PROVE  /\ ~job.paused /\ job.status \notin TerminalJob
             /\ NodeOf(e)' \in Allowed(job.target)
             /\ \A d \in Deps[NodeOf(e)'] : nodeStatus[d] = "completed"
  <2>1. LeaseFrame
    BY <1>1, AuthoritySteps DEF AuthorityStep, ResetStep, Active
  <2> QED BY <1>1, <2>1 DEF LeaseFrame, Authorised, MayRun, DepsDone, NodeOf
<1>2. DispatchInv /\ [Next]_vars =>
        [\A e \in Exec : ~Active(e) /\ Active(e)' =>
           /\ ~job.paused /\ job.status \notin TerminalJob
           /\ NodeOf(e)' \in Allowed(job.target)
           /\ \A d \in Deps[NodeOf(e)'] : nodeStatus[d] = "completed"]_vars
  BY <1>1
<1> QED BY <1>2, InitDispatch, DispatchStep, PTL DEF Spec, StartIsAuthorized

\* The end of an attempt of an older generation changes neither the job nor a
\* node, whichever of the finish, the expiry and the sweeps ends it.
THEOREM StaleNeverFlipsHolds == Spec => StaleNeverFlips
<1>1. ASSUME DispatchInv, [Next]_vars, NEW e \in Exec, Active(e),
             exec[e].generation # job.generation, ~Active(e)'
      PROVE  UNCHANGED <<job, nodeStatus, nodeGen>>
  <2>1. LeaseFrame
    BY <1>1, AuthoritySteps DEF AuthorityStep, ResetStep, Active
  <2> QED BY <1>1, <2>1 DEF LeaseFrame, Stale
<1>2. DispatchInv /\ [Next]_vars =>
        [\A e \in Exec : Active(e) /\ exec[e].generation # job.generation /\ ~Active(e)' =>
           UNCHANGED <<job, nodeStatus, nodeGen>>]_vars
  BY <1>1
<1> QED BY <1>2, InitDispatch, DispatchStep, PTL DEF Spec, StaleNeverFlips

\* Only a mutation, with its bump of the generation, undoes a completed node.
THEOREM CompletedIsFinalHolds == Spec => CompletedIsFinal
<1>1. ASSUME DispatchInv, [Next]_vars, NEW n \in Node, nodeStatus[n] = "completed",
             nodeStatus'[n] # "completed"
      PROVE  job'.generation = job.generation + 1
  BY <1>1, AuthoritySteps DEF AuthorityStep, ResetStep, Steady, NodesSteady
<1>2. DispatchInv /\ [Next]_vars =>
        [\A n \in Node : nodeStatus[n] = "completed" /\ nodeStatus'[n] # "completed" =>
           job'.generation = job.generation + 1]_vars
  BY <1>1
<1> QED BY <1>2, InitDispatch, DispatchStep, PTL DEF Spec, CompletedIsFinal
=============================================================================
