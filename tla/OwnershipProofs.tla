-------------------------- MODULE OwnershipProofs --------------------------
(***************************************************************************)
(* The rows keep their types; an active lease owns its node or its shard,  *)
(* and nothing runs without one, in every workflow and for any number of   *)
(* attempts; and the core implements FencedLock.                           *)
(*                                                                         *)
(* OwnershipInv is inductive.  A step is one of five kinds for it: it      *)
(* leaves every running row and every active lease alone (Quiet), it       *)
(* starts an attempt, it ends one, it is the orphan recovery, or it is a   *)
(* reset that bumps the generation.                                        *)
(***************************************************************************)
EXTENDS Execution, TLAPS

-----------------------------------------------------------------------------
(* Type correctness.                                                       *)

\* What one lease covers is a node or a shard index of a node.
LEMMA UnitType == Unit \subseteq AnyUnit /\ ShardUnit \subseteq Unit
BY WorkflowAssumption DEF Unit, AnyUnit, ShardUnit

\* The scheduler's candidates are nodes.
LEMMA AllowedType ==
  ASSUME NEW t \in Node \cup {NoTarget} PROVE Allowed(t) \subseteq Node
BY DEF Allowed, Closure

\* sync_job_status writes a job status, whatever the node statuses are.
LEMMA SyncType ==
  ASSUME NEW j \in JobRow, NEW ns
  PROVE  SyncJob(j, ns) \in JobRow
BY DEF SyncJob, DerivedStatus, JobRow, JobStatuses

\* So does the run-to pause that follows it.
LEMMA PauseType ==
  ASSUME NEW j \in JobRow, NEW n PROVE PauseOnTarget(j, n) \in JobRow
BY DEF PauseOnTarget, JobRow, JobStatuses

\* The reset of a fan-out node leaves shard rows.
LEMMA WithoutShardsType ==
  ASSUME NEW S, shard \in [ShardUnit -> ShardRow]
  PROVE  WithoutShards(shard, S) \in [ShardUnit -> ShardRow]
BY DEF WithoutShards, ShardRow, NoShardRow

\* The schema default of every epoch column is an epoch.
LEMMA ZeroGeneration == 0 \in Generations
BY BoundAssumption DEF Generations

\* A reset below the bound stamps an epoch.
LEMMA NextGeneration ==
  ASSUME NEW g \in Generations, g < MaxGen PROVE g + 1 \in Generations
BY BoundAssumption DEF Generations

\* The rows a new job starts with.
LEMMA InitType == Init => TypeOK
<1> SUFFICES ASSUME Init PROVE TypeOK
  OBVIOUS
<1> USE DEF Init
<1>1. job \in JobRow
  BY ZeroGeneration DEF JobRow, JobStatuses
<1>2. nodeStatus \in [Node -> NodeStatuses] /\ nodeGen \in [Node -> Generations]
  BY ZeroGeneration DEF NodeStatuses
<1>3. shard \in [ShardUnit -> ShardRow]
  BY DEF ShardRow, NoShardRow
<1>4. exec \in [Exec -> ExecRow]
  BY ZeroGeneration DEF UnusedExec, ExecRow
<1>5. request \in [Unit -> RequestRow]
  BY ZeroGeneration DEF NoRequest, RequestRow
<1>6. /\ view \in [held : BOOLEAN, generation : Generations, target : Node \cup {NoTarget}]
      /\ cache \in [generation : Generations, target : Node \cup {NoTarget},
                     nodes : SUBSET Node]
  BY ZeroGeneration DEF NoView
<1> QED BY <1>1, <1>2, <1>3, <1>4, <1>5, <1>6 DEF TypeOK

\* The row of an attempt stays well-typed when it ends,
LEMMA RowEnds ==
  ASSUME NEW r \in ExecRow,
         NEW lease \in {"none", "active", "released", "expired", "deleted"},
         NEW run \in {"none", "running", "completed", "failed"},
         NEW signal \in {"fresh", "late"}
  PROVE  [r EXCEPT !.lease = lease, !.run = run, !.signal = signal] \in ExecRow
BY Zenon DEF ExecRow

\* when a failure without a lease is recorded in it,
LEMMA RowFails ==
  ASSUME NEW r \in ExecRow, NEW u \in AnyUnit
  PROVE  [r EXCEPT !.unit = u, !.run = "failed"] \in ExecRow
BY Zenon DEF ExecRow

\* and when its process beats or falls silent.
LEMMA RowSignals ==
  ASSUME NEW r \in ExecRow, NEW signal \in {"fresh", "late"}
  PROVE  [r EXCEPT !.signal = signal] \in ExecRow
BY Zenon DEF ExecRow

\* The process behind an attempt beats or is silent.
LEMMA RowSignal ==
  ASSUME NEW r \in ExecRow PROVE r.signal \in {"fresh", "late"}
BY DEF ExecRow

\* A failed run is a row of an attempt.
LEMMA RowRunFails ==
  ASSUME NEW r \in ExecRow PROVE [r EXCEPT !.run = "failed"] \in ExecRow
BY Zenon DEF ExecRow

\* The job status is a column of its own.
LEMMA JobStatusType ==
  ASSUME NEW j \in JobRow, NEW s \in JobStatuses
  PROVE  [j EXCEPT !.status = s] \in JobRow
BY Zenon DEF JobRow

\* So are the two columns of the pause,
LEMMA JobPauseType ==
  ASSUME NEW j \in JobRow, NEW p \in BOOLEAN,
         NEW reason \in {"", "operator", "target_reached"}
  PROVE  [j EXCEPT !.paused = p, !.reason = reason] \in JobRow
BY Zenon DEF JobRow

\* and the target.
LEMMA JobTargetType ==
  ASSUME NEW j \in JobRow, NEW t \in Node \cup {NoTarget}
  PROVE  [j EXCEPT !.target = t] \in JobRow
BY Zenon DEF JobRow

\* A requeued request is a request.
LEMMA RequestRequeued ==
  ASSUME NEW r \in RequestRow
  PROVE  [r EXCEPT !.state = "queued", !.by = NoExec] \in RequestRow
BY Zenon DEF RequestRow

\* A shard row keeps its owner when its status changes.
LEMMA ShardStatusType ==
  ASSUME NEW r \in ShardRow
  PROVE  [r EXCEPT !.status = "failed"] \in ShardRow
BY Zenon DEF ShardRow

\* One row of the attempts is replaced.
LEMMA RowsUpdate ==
  ASSUME NEW f \in [Exec -> ExecRow], NEW e, NEW r, e \in Exec => r \in ExecRow
  PROVE  [f EXCEPT ![e] = r] \in [Exec -> ExecRow]
OBVIOUS

\* A claim writes well-typed node and shard rows.
LEMMA StartType ==
  ASSUME TypeOK, NEW u \in Unit, NEW e \in Exec, StartUnit(u, e)
  PROVE  /\ nodeStatus' \in [Node -> NodeStatuses]
         /\ nodeGen' \in [Node -> Generations]
         /\ shard' \in [ShardUnit -> ShardRow]
<1>1. nodeStatus' \in [Node -> NodeStatuses]
  BY DEF TypeOK, StartUnit, NodeStatuses
<1>2. nodeGen' \in [Node -> Generations]
  BY DEF TypeOK, StartUnit, JobRow
<1>3. shard' \in [ShardUnit -> ShardRow]
  BY DEF TypeOK, StartUnit, ShardRow
<1> QED BY <1>1, <1>2, <1>3

\* So does a failure recorded without a lease.
LEMMA FailureType ==
  ASSUME TypeOK, NEW n \in Node, NEW e \in Exec, RecordFailure(n, e)
  PROVE  /\ nodeStatus' \in [Node -> NodeStatuses]
         /\ exec' \in [Exec -> ExecRow]
<1>1. nodeStatus' \in [Node -> NodeStatuses]
  BY DEF RecordFailure, NodeStatuses, TypeOK
<1>2. <<n, Whole>> \in AnyUnit
  BY DEF AnyUnit
<1> DEFINE row == [exec[e] EXCEPT !.unit = <<n, Whole>>, !.run = "failed"]
<1>3. row \in ExecRow
  BY <1>2, RowFails DEF TypeOK
<1>4. exec' = [exec EXCEPT ![e] = row]
  BY DEF RecordFailure
<1> HIDE DEF row
<1>5. exec' \in [Exec -> ExecRow]
  BY <1>3, <1>4, RowsUpdate DEF TypeOK
<1> QED BY <1>1, <1>5

\* The Host scheduler writes well-typed rows.
LEMMA SchedulerType == TypeOK /\ SchedulerNext => TypeOK'
<1> SUFFICES ASSUME TypeOK, SchedulerNext PROVE TypeOK'
  OBVIOUS
<1> USE DEF TypeOK
<1>1. CASE ReadJob
  BY <1>1 DEF ReadJob, rows, JobRow
<1>2. CASE Evaluate
  <2>1. Allowed(view.target) \subseteq Node
    BY AllowedType
  <2>2. view' \in [held : BOOLEAN, generation : Generations, target : Node \cup {NoTarget}]
    BY <1>2, ZeroGeneration DEF Evaluate, NoView
  <2> QED BY <1>2, <2>1, <2>2 DEF Evaluate, rows
<1>3. ASSUME NEW n \in Sharded, NEW inputs \in SUBSET Shard, MaterializeShards(n, inputs)
      PROVE TypeOK'
  <2>1. job' \in JobRow
    BY <1>3, SyncType, PauseType DEF MaterializeShards
  <2>2. nodeStatus' \in [Node -> NodeStatuses]
    BY <1>3 DEF MaterializeShards, NodeStatuses
  <2>3. shard' \in [ShardUnit -> ShardRow]
    BY <1>3 DEF MaterializeShards, ShardRow, NoShardRow
  <2> QED BY <1>3, <2>1, <2>2, <2>3 DEF MaterializeShards, scheduler
<1>4. ASSUME NEW u \in Unit, Dispatch(u) PROVE TypeOK'
  BY <1>4 DEF Dispatch, rows
<1>5. ASSUME NEW f \in inflight, Enqueue(f) PROVE TypeOK'
  <2> DEFINE row == [NoRequest EXCEPT !.state = "queued", !.generation = f.generation]
  <2>2. f.generation \in Generations
    OBVIOUS
  <2>3. row \in RequestRow
    BY <2>2 DEF RequestRow, NoRequest
  <2>4. request' = request \/ request' = [request EXCEPT ![f.unit] = row]
    BY <1>5, Zenon DEF Enqueue
  <2> HIDE DEF row
  <2>1. request' \in [Unit -> RequestRow]
    BY <2>3, <2>4
  <2> QED BY <1>5, <2>1 DEF Enqueue
<1>6. ASSUME NEW u \in Unit, NEW e \in Exec, ClaimLocal(u, e) PROVE TypeOK'
  <2>1. exec' \in [Exec -> ExecRow]
    BY <1>6, UnitType DEF ClaimLocal, NewAttempt, ExecRow, JobRow
  <2>2. job' \in JobRow
    BY <1>6 DEF ClaimLocal, JobRow, JobStatuses
  <2>3. /\ nodeStatus' \in [Node -> NodeStatuses]
        /\ nodeGen' \in [Node -> Generations]
        /\ shard' \in [ShardUnit -> ShardRow]
    BY <1>6, StartType DEF ClaimLocal
  <2> QED BY <1>6, <2>1, <2>2, <2>3 DEF ClaimLocal, scheduler
<1>7. ASSUME NEW g \in Gate, Park(g) PROVE TypeOK'
  <2>1. job' \in JobRow
    BY <1>7, SyncType DEF Park
  <2> QED BY <1>7, <2>1 DEF Park, NodeStatuses, JobRow, scheduler
<1>9. ASSUME NEW n \in Node, NEW e \in Exec, FailConfig(n, e) PROVE TypeOK'
  <2>1. job' \in JobRow
    BY <1>9, SyncType DEF FailConfig
  <2> QED BY FailureType, <1>9, <2>1 DEF FailConfig, scheduler
<1>10. ASSUME NEW f \in inflight, NEW e \in Exec, FailEnqueue(f, e) PROVE TypeOK'
  <2>1. f.unit[1] \in Node
    BY UnitType DEF AnyUnit
  <2>2. job' \in JobRow
    BY <1>10, SyncType DEF FailEnqueue
  <2> QED BY FailureType, <1>10, <2>1, <2>2 DEF FailEnqueue
<1> QED
  BY <1>1, <1>2, <1>3, <1>4, <1>5, <1>6, <1>7, <1>9, <1>10 DEF SchedulerNext

\* The end of an attempt replaces its row by a well-typed one.
LEMMA EndType ==
  ASSUME exec \in [Exec -> ExecRow], NEW e \in Exec,
         NEW lease \in {"released", "expired"}, NEW run \in {"completed", "failed"},
         EndAttempt(e, lease, run)
  PROVE  exec' \in [Exec -> ExecRow]
<1>1. exec[e] \in ExecRow
  BY Zenon
<1> DEFINE Row(signal) == [exec[e] EXCEPT !.lease = lease, !.run = run, !.signal = signal]
<1>2. ASSUME NEW signal \in {"fresh", "late"} PROVE Row(signal) \in ExecRow
  BY <1>1, RowEnds
<1>3. exec[e].signal \in {"fresh", "late"}
  BY <1>1, RowSignal
<1>4. \/ exec' = [exec EXCEPT ![e] = Row("late")]
      \/ exec' = [exec EXCEPT ![e] = Row(exec[e].signal)]
  BY Zenon DEF EndAttempt
<1> HIDE DEF Row
<1>5. Row("late") \in ExecRow /\ Row(exec[e].signal) \in ExecRow
  BY <1>2, <1>3
<1> QED BY <1>4, <1>5, RowsUpdate

\* The writers that end an attempt write well-typed rows.
LEMMA LeaseType == TypeOK /\ LeaseNext => TypeOK'
<1> SUFFICES ASSUME TypeOK, LeaseNext PROVE TypeOK'
  OBVIOUS
<1>1. ASSUME NEW e \in Exec, NEW lease \in {"released", "expired"},
             NEW run \in {"completed", "failed"}, EndAttempt(e, lease, run)
      PROVE  exec' \in [Exec -> ExecRow]
  BY <1>1, EndType DEF TypeOK
<1> USE DEF TypeOK
<1>2. ASSUME NEW e \in Exec, NEW outcome \in {"completed", "failed"},
             BoundToShard(e), SettleShard(e, outcome)
      PROVE  /\ job' \in JobRow /\ nodeStatus' \in [Node -> NodeStatuses]
             /\ shard' \in [ShardUnit -> ShardRow]
  <2>1. shard' \in [ShardUnit -> ShardRow]
    BY <1>2 DEF SettleShard, BoundToShard, ShardRow
  <2>2. nodeStatus' \in [Node -> NodeStatuses]
    BY <1>2 DEF SettleShard, NodeStatuses
  <2>3. job' \in JobRow
    BY <1>2, SyncType, PauseType DEF SettleShard
  <2> QED BY <2>1, <2>2, <2>3
<1>3. ASSUME NEW e \in Exec, NEW outcome \in Outcomes, SettleNode(e, outcome)
      PROVE  /\ job' \in JobRow /\ nodeStatus' \in [Node -> NodeStatuses]
             /\ shard' \in [ShardUnit -> ShardRow]
  <2>1. nodeStatus' \in [Node -> NodeStatuses]
    BY <1>3 DEF SettleNode, NodeStatuses, Outcomes
  <2>2. job' \in JobRow
    BY <1>3, SyncType, PauseType DEF SettleNode
  <2> QED BY <1>3, <2>1, <2>2 DEF SettleNode
<1>4. ASSUME NEW e \in Exec, NEW outcome \in Outcomes, Finish(e, outcome) PROVE TypeOK'
  <2>1. exec' \in [Exec -> ExecRow]
    BY <1>1, <1>4 DEF Finish
  <2> QED BY <1>2, <1>3, <1>4, <2>1 DEF Finish, scheduler
<1>5. ASSUME NEW e \in Exec, ExpireLocal(e) PROVE TypeOK'
  <2>1. exec' \in [Exec -> ExecRow]
    BY <1>1, <1>5 DEF ExpireLocal
  <2>2. CASE BoundToShard(e)
    BY <1>2, <1>5, <2>1, <2>2 DEF ExpireLocal, scheduler
  <2>3. CASE ~BoundToShard(e)
    <3>1. job' \in JobRow
      <4>1. job' = job \/ job' = [job EXCEPT !.status = "failed"]
        BY <1>5, <2>3 DEF ExpireLocal
      <4>2. "failed" \in JobStatuses
        BY DEF JobStatuses
      <4> QED BY <4>1, <4>2, JobStatusType
    <3>2. nodeStatus' \in [Node -> NodeStatuses]
      BY <1>5, <2>3 DEF ExpireLocal, NodeStatuses
    <3> QED BY <1>5, <2>1, <2>3, <3>1, <3>2 DEF ExpireLocal, scheduler
  <2> QED BY <2>2, <2>3
<1>6. CASE Recover
  <2>1. /\ nodeStatus' \in [Node -> NodeStatuses]
        /\ shard' \in [ShardUnit -> ShardRow]
    BY <1>6, WithoutShardsType DEF Recover, NodeStatuses
  <2>2. exec' \in [Exec -> ExecRow]
    BY <1>6, RowRunFails DEF Recover
  <2>3. job' \in JobRow
    BY <1>6, SyncType DEF Recover
  <2> QED BY <1>6, <2>1, <2>2, <2>3 DEF Recover, scheduler
<1>7. ASSUME NEW e \in Exec, Heartbeat(e) \/ FallSilent(e) PROVE TypeOK'
  <2>1. PICK signal \in {"fresh", "late"} : exec' = [exec EXCEPT ![e].signal = signal]
    BY <1>7 DEF Heartbeat, FallSilent
  <2> DEFINE row == [exec[e] EXCEPT !.signal = signal]
  <2>2. row \in ExecRow
    BY RowSignals
  <2>3. exec' = [exec EXCEPT ![e] = row]
    BY <2>1
  <2> HIDE DEF row
  <2>4. exec' \in [Exec -> ExecRow]
    BY <2>2, <2>3, RowsUpdate
  <2> QED BY <1>7, <2>4 DEF Heartbeat, FallSilent, scheduler
<1> QED
  BY <1>4, <1>5, <1>6, <1>7 DEF LeaseNext

\* The Agent broker writes well-typed rows.
LEMMA BrokerType == TypeOK /\ BrokerNext => TypeOK'
<1> SUFFICES ASSUME TypeOK, BrokerNext PROVE TypeOK'
  OBVIOUS
<1> USE DEF TypeOK
<1>1. ASSUME NEW u, CloseRequest(u) PROVE request' \in [Unit -> RequestRow]
  BY <1>1, ZeroGeneration DEF CloseRequest, RequestRow, NoRequest
<1>2. ASSUME NEW e, DeleteLease(e) PROVE exec' \in [Exec -> ExecRow]
  <2> DEFINE row == [exec[e] EXCEPT !.lease = "deleted", !.run = "failed", !.signal = "late"]
  <2>1. e \in Exec => row \in ExecRow
    BY RowEnds
  <2>2. exec' = [exec EXCEPT ![e] = row]
    BY <1>2 DEF DeleteLease
  <2> HIDE DEF row
  <2> QED BY <2>1, <2>2, RowsUpdate
<1>3. ASSUME NEW u \in Unit, NEW e \in Exec, ClaimRemote(u, e) PROVE TypeOK'
  <2>1. exec' \in [Exec -> ExecRow]
    BY <1>3, UnitType DEF ClaimRemote, NewAttempt, ExecRow, JobRow
  <2>2. request' \in [Unit -> RequestRow]
    BY <1>3 DEF ClaimRemote, RequestRow
  <2>3. job' \in JobRow
    BY <1>3 DEF ClaimRemote, JobRow, JobStatuses
  <2>4. /\ nodeStatus' \in [Node -> NodeStatuses]
        /\ nodeGen' \in [Node -> Generations]
        /\ shard' \in [ShardUnit -> ShardRow]
    BY <1>3, StartType DEF ClaimRemote
  <2> QED BY <1>3, <2>1, <2>2, <2>3, <2>4 DEF ClaimRemote, scheduler
<1>4. ASSUME NEW u \in Unit, CancelAtClaim(u) \/ SweepStaleQueued(u) PROVE TypeOK'
  BY <1>1, <1>4 DEF CancelAtClaim, SweepStaleQueued, scheduler
<1>5. ASSUME NEW u \in Unit, Release(u) PROVE TypeOK'
  <2>1. request' \in [Unit -> RequestRow]
    BY <1>5 DEF Release, RequestRow
  <2> QED BY <1>5, <2>1 DEF Release, scheduler
<1> HIDE DEF TypeOK
<1>s. ASSUME NEW e, exec' = [exec EXCEPT ![e].signal = "late"]
      PROVE  exec' \in [Exec -> ExecRow]
  <2> DEFINE row == [exec[e] EXCEPT !.signal = "late"]
  <2>1. e \in Exec => row \in ExecRow
    BY RowSignals DEF TypeOK
  <2>2. exec' = [exec EXCEPT ![e] = row]
    BY <1>s
  <2> HIDE DEF row
  <2> QED BY <2>1, <2>2, RowsUpdate DEF TypeOK
<1> USE DEF TypeOK
<1>6. ASSUME NEW e \in Exec, MarkDone(e) PROVE TypeOK'
  <2>1. exec' \in [Exec -> ExecRow]
    BY <1>s, <1>6 DEF MarkDone
  <2> QED BY <1>1, <1>6, <2>1 DEF MarkDone, scheduler
<1>7. ASSUME NEW u \in Unit, SweepSettled(u) PROVE TypeOK'
  <2>1. exec' \in [Exec -> ExecRow]
    BY <1>s, <1>7 DEF SweepSettled
  <2> QED BY <1>1, <1>7, <2>1 DEF SweepSettled, scheduler
<1>8. ASSUME NEW u \in Unit, SweepCancel(u) PROVE TypeOK'
  BY <1>1, <1>2, <1>8 DEF SweepCancel, scheduler
<1>9. ASSUME NEW u \in Unit, SweepRequeue(u) PROVE TypeOK'
  <2>1. exec' \in [Exec -> ExecRow]
    BY <1>2, <1>9 DEF SweepRequeue
  <2>2. shard' \in [ShardUnit -> ShardRow] /\ nodeStatus' \in [Node -> NodeStatuses]
    BY <1>9 DEF SweepRequeue, ShardRow, NodeStatuses
  <2>3. request' \in [Unit -> RequestRow]
    <3> DEFINE row == [request[u] EXCEPT !.state = "queued", !.by = NoExec]
    <3>1. row \in RequestRow
      BY RequestRequeued
    <3>2. request' = [request EXCEPT ![u] = row]
      BY <1>9 DEF SweepRequeue
    <3> HIDE DEF row
    <3> QED BY <3>1, <3>2
  <2> QED BY <1>9, <2>1, <2>2, <2>3 DEF SweepRequeue, scheduler
<1>10. ASSUME NEW u \in Unit, SweepFail(u) PROVE TypeOK'
  <2>1. exec' \in [Exec -> ExecRow] /\ request' \in [Unit -> RequestRow]
    BY <1>1, <1>2, <1>10 DEF SweepFail
  <2>2. shard' \in [ShardUnit -> ShardRow]
    <3> DEFINE row == [shard[u] EXCEPT !.status = "failed"]
    <3>1. u \in ShardUnit => row \in ShardRow
      BY ShardStatusType
    <3>2. shard' = shard \/ shard' = [shard EXCEPT ![u] = row]
      BY <1>10 DEF SweepFail
    <3> HIDE DEF row
    <3> QED BY <3>1, <3>2
  <2>4. nodeStatus' \in [Node -> NodeStatuses]
    BY <1>10 DEF SweepFail, NodeStatuses
  <2>3. job' \in JobRow
    BY <1>10, SyncType DEF SweepFail
  <2> QED BY <1>10, <2>1, <2>2, <2>3, <2>4 DEF SweepFail, scheduler
<1>11. ASSUME NEW u \in Unit, NEW e \in Exec, SweepUnclaimable(u, e) PROVE TypeOK'
  <2>1. request' \in [Unit -> RequestRow] /\ u[1] \in Node
    BY <1>1, <1>11, UnitType DEF SweepUnclaimable, AnyUnit
  <2>2. /\ nodeStatus' \in [Node -> NodeStatuses]
        /\ exec' \in [Exec -> ExecRow]
    BY <1>11, <2>1, FailureType DEF SweepUnclaimable
  <2>3. job' \in JobRow
    <3>1. job' = job \/ job' = [job EXCEPT !.status = "failed"]
      BY <1>11 DEF SweepUnclaimable
    <3>2. "failed" \in JobStatuses
      BY DEF JobStatuses
    <3> QED BY <3>1, <3>2, JobStatusType
  <2> QED BY <1>11, <2>1, <2>2, <2>3 DEF SweepUnclaimable, scheduler
<1> QED
  BY <1>3, <1>4, <1>5, <1>6, <1>7, <1>8, <1>9, <1>10, <1>11 DEF BrokerNext, SweepExpired

\* Pause, resume and continue write the job row alone, with values of its columns.
LEMMA PauseColumnsType ==
  ASSUME job \in JobRow, Pause \/ Resume \/ Continue PROVE job' \in JobRow
<1>1. CASE Pause
  BY <1>1, JobPauseType DEF Pause
<1>2. CASE Resume
  <2> DEFINE j == [job EXCEPT !.paused = FALSE, !.reason = ""]
             status == IF job.status = "paused" THEN "queued" ELSE job.status
  <2>1. j \in JobRow /\ status \in JobStatuses
    BY JobPauseType DEF JobRow, JobStatuses
  <2>2. job' = [j EXCEPT !.status = status]
    BY <1>2 DEF Resume, JobRow
  <2> HIDE DEF j, status
  <2> QED BY <2>1, <2>2, JobStatusType
<1>3. CASE Continue
  <2> DEFINE j == [job EXCEPT !.paused = FALSE, !.reason = ""]
             k == [j EXCEPT !.status = "queued"]
             t == IF job.reason = "target_reached" THEN NoTarget ELSE job.target
  <2>1. j \in JobRow /\ "queued" \in JobStatuses /\ t \in Node \cup {NoTarget}
    BY JobPauseType DEF JobRow, JobStatuses
  <2>2. k \in JobRow
    BY <2>1, JobStatusType
  <2>3. job' = [k EXCEPT !.target = t]
    BY <1>3 DEF Continue, JobRow
  <2> HIDE DEF j, k, t
  <2> QED BY <2>1, <2>2, <2>3, JobTargetType
<1> QED BY <1>1, <1>2, <1>3

\* Operators' mutations write well-typed rows: a reset stamps a generation
\* within the bound.
LEMMA MutationType == TypeOK /\ MutationNext => TypeOK'
<1> SUFFICES ASSUME TypeOK, MutationNext PROVE TypeOK'
  OBVIOUS
<1> USE DEF TypeOK
<1>1. ASSUME NEW S, CancelQueued(S) PROVE request' \in [Unit -> RequestRow]
  BY <1>1, ZeroGeneration DEF CancelQueued, RequestRow, NoRequest
<1>2. ASSUME job.generation < MaxGen PROVE job.generation + 1 \in Generations
  BY <1>2, NextGeneration DEF JobRow
<1>3. ASSUME NEW n \in Node, NEW control \in JobRow,
             control.generation = job.generation, MarkForRerun(n, control)
      PROVE  TypeOK'
  <2>1. job' \in JobRow
    BY <1>2, <1>3 DEF MarkForRerun, JobRow, JobStatuses
  <2>2. nodeStatus' \in [Node -> NodeStatuses]
    BY <1>3 DEF MarkForRerun, NodeStatuses
  <2>3. nodeGen' \in [Node -> Generations]
    BY <1>2, <1>3 DEF MarkForRerun
  <2>4. shard' \in [ShardUnit -> ShardRow] /\ request' \in [Unit -> RequestRow]
    BY <1>1, <1>3, WithoutShardsType DEF MarkForRerun
  <2> QED BY <1>3, <2>1, <2>2, <2>3, <2>4 DEF MarkForRerun, scheduler
<1>4. ASSUME NEW n \in Node, Rerun(n) PROVE TypeOK'
  BY <1>3, <1>4 DEF Rerun
<1>5. ASSUME NEW g \in Gate, NEW n \in Node, Rework(g, n) PROVE TypeOK'
  BY <1>3, <1>5 DEF Rework
<1>6. ASSUME NEW t \in Node
      PROVE  UntilNode(job, t) \in JobRow /\ UntilNode(job, t).generation = job.generation
  BY DEF UntilNode, JobRow
<1>7. ASSUME NEW t \in Node, NEW n \in Node, RunToFrom(t, n) PROVE TypeOK'
  BY <1>3, <1>6, <1>7 DEF RunToFrom
<1>8. ASSUME NEW t \in Node, RunTo(t) PROVE TypeOK'
  <2>1. job' \in JobRow
    BY <1>2, <1>6, <1>8 DEF RunTo, JobRow, JobStatuses
  <2>2. nodeStatus' \in [Node -> NodeStatuses]
    BY <1>8 DEF RunTo, NodeStatuses
  <2>3. nodeGen' \in [Node -> Generations]
    BY <1>2, <1>8 DEF RunTo
  <2>4. shard' \in [ShardUnit -> ShardRow] /\ request' \in [Unit -> RequestRow]
    BY <1>1, <1>8, WithoutShardsType DEF RunTo
  <2> QED BY <1>8, <2>1, <2>2, <2>3, <2>4 DEF RunTo, scheduler
<1>9. ASSUME NEW g \in Gate, NEW verdict \in {"completed", "failed"}, Decide(g, verdict)
      PROVE  TypeOK'
  <2>1. job' \in JobRow
    BY <1>9, SyncType DEF Decide
  <2>2. nodeStatus' \in [Node -> NodeStatuses]
    BY <1>9 DEF Decide, NodeStatuses
  <2> QED BY <1>9, <2>1, <2>2 DEF Decide, scheduler
<1>10. ASSUME Pause \/ Resume \/ Continue PROVE TypeOK'
  <2>1. job' \in JobRow
    BY <1>10, PauseColumnsType
  <2>2. UNCHANGED <<nodeStatus, nodeGen, shard, exec, request, view, cache, inflight>>
    BY <1>10, Zenon DEF Pause, Resume, Continue, scheduler
  <2> QED BY <2>1, <2>2, Zenon
<1> QED
  BY <1>4, <1>5, <1>7, <1>8, <1>9, <1>10 DEF MutationNext

\* Every step writes well-typed rows.
LEMMA TypeStep == TypeOK /\ [Next]_vars => TypeOK'
<1>1. TypeOK /\ UNCHANGED vars => TypeOK'
  BY DEF TypeOK, vars
<1> QED BY <1>1, SchedulerType, LeaseType, BrokerType, MutationType DEF Next

\* Every row holds values of its columns, whatever the scheduler, the lease
\* writers, the broker and the operators do.
THEOREM TypeCorrect == Spec => []TypeOK
<1>1. Init => TypeOK
  BY InitType
<1>2. TypeOK /\ [Next]_vars => TypeOK'
  BY TypeStep
<1> QED BY <1>1, <1>2, PTL DEF Spec

-----------------------------------------------------------------------------
(* Ownership.                                                              *)

\* The part of Ownership that does not speak of requests.
LeaseInv ==
  /\ AttemptShape /\ LeaseOwnsNode /\ LeaseOwnsShard /\ NoDoubleExecution
  /\ RunningIsOwned /\ RunsSettleWithLeases
RequestInv == RemoteLeaseIsTracked /\ HeldRequestHasLease

LEMMA InvParts == OwnershipInv <=> TypeOK /\ LeaseInv /\ RequestInv
BY DEF OwnershipInv, Ownership, LeaseInv, RequestInv

\* Epochs are numbers.
LEMMA EpochNat == \A g \in Generations : g \in Nat
BY BoundAssumption DEF Generations

\* The units of one plain node are one unit.
LEMMA PlainUnit ==
  ASSUME NEW u \in Unit, NEW w \in Unit, u \notin ShardUnit, u[1] = w[1]
  PROVE  u = w
BY DEF Unit, ShardUnit

\* A unit of a plain node is not a shard.
LEMMA PlainNode ==
  ASSUME NEW u \in Unit
  PROVE  u[1] \in Node /\ (u \notin ShardUnit <=> u[1] \notin Sharded)
BY WorkflowAssumption DEF Unit, ShardUnit

-----------------------------------------------------------------------------
(* Steps that touch no running row and no active lease.                    *)

\* The lease of an attempt is as it was, and so is its row while it is active.
KeepsLease(e) ==
  /\ exec'[e].lease = exec[e].lease
  /\ exec'[e].generation = exec[e].generation
  /\ exec'[e].lane = exec[e].lane
  /\ exec'[e].run = "running" <=> exec[e].run = "running"
  /\ Unused(e) \/ (exec'[e].unit = exec[e].unit /\ exec'[e].run # "none")

Quiet ==
  /\ job'.generation = job.generation
  /\ \A n \in Node : nodeStatus'[n] = "running" <=> nodeStatus[n] = "running"
  /\ \A n \in Node : nodeStatus[n] = "running" => nodeGen'[n] = nodeGen[n]
  /\ \A u \in ShardUnit : shard[u].status = "running" => shard'[u] = shard[u]
  /\ \A e \in Exec : KeepsLease(e)

\* They keep every lease where it is.
LEMMA QuietKeeps == LeaseInv /\ Quiet => LeaseInv'
<1> SUFFICES ASSUME LeaseInv, Quiet PROVE LeaseInv'
  OBVIOUS
<1> USE DEF LeaseInv
<1>1. ASSUME NEW e \in Exec
      PROVE  /\ Active(e)' <=> Active(e)
             /\ Active(e) => exec'[e].unit = exec[e].unit
             /\ Stale(e)' <=> Stale(e)
  BY DEF Quiet, KeepsLease, Active, Stale, AttemptShape, Unused
<1>2. AttemptShape'
  BY <1>1 DEF AttemptShape, Quiet, KeepsLease, Unused
<1>3. LeaseOwnsNode'
  <2> SUFFICES ASSUME NEW e \in Exec, Active(e)', exec'[e].unit \notin ShardUnit
               PROVE  /\ nodeStatus'[NodeOf(e)'] = "running"
                      /\ exec'[e].generation = job'.generation
    BY DEF LeaseOwnsNode
  <2>1. Active(e) /\ exec'[e].unit = exec[e].unit /\ exec[e].unit \in Unit
    BY <1>1 DEF AttemptShape
  <2>2. nodeStatus[NodeOf(e)] = "running" /\ exec[e].generation = job.generation
    BY <2>1 DEF LeaseOwnsNode
  <2> QED BY <2>1, <2>2, PlainNode DEF Quiet, KeepsLease, NodeOf
<1>4. LeaseOwnsShard'
  <2> SUFFICES ASSUME NEW e \in Exec, Active(e)', exec'[e].unit \in ShardUnit, ~Stale(e)'
               PROVE  shard'[exec'[e].unit] = [status |-> "running", by |-> e]
    BY DEF LeaseOwnsShard
  <2> QED BY <1>1 DEF LeaseOwnsShard, Quiet
<1>5. NoDoubleExecution'
  BY <1>1 DEF NoDoubleExecution, Quiet, KeepsLease
<1>6. RunningIsOwned'
  BY <1>1 DEF RunningIsOwned, Quiet, NodeOf
<1>7. RunsSettleWithLeases'
  BY <1>1 DEF RunsSettleWithLeases, Quiet, KeepsLease
<1> QED BY <1>2, <1>3, <1>4, <1>5, <1>6, <1>7

\* The requests of such a step: one that is held stays held by its attempt,
\* unless that attempt has ended.
QuietRequests ==
  \A u \in Unit :
    /\ request'[u].state \in Held =>
         /\ request[u].state \in Held /\ request'[u].by = request[u].by
         /\ request'[u].generation = request[u].generation
    /\ request[u].state \in Held =>
         request'[u].state \in Held \/ ~Active(request[u].by)

\* They keep every remote lease with its request.
LEMMA QuietRequestsKeep ==
  OwnershipInv /\ Quiet /\ QuietRequests => RequestInv'
<1> SUFFICES ASSUME LeaseInv, RequestInv, Quiet, QuietRequests PROVE RequestInv'
  BY InvParts
<1>1. RemoteLeaseIsTracked'
  <2> SUFFICES ASSUME NEW e \in Exec, Active(e)', exec'[e].lane = "remote"
               PROVE  /\ Tracks(exec[e].unit, e)'
                      /\ request'[exec'[e].unit].generation = exec'[e].generation
                      /\ exec'[e].unit = exec[e].unit
    BY DEF RemoteLeaseIsTracked, Tracks
  <2>1. /\ Active(e) /\ exec[e].lane = "remote" /\ exec'[e].unit = exec[e].unit
        /\ exec'[e].generation = exec[e].generation /\ exec[e].unit \in Unit
    BY DEF Quiet, KeepsLease, Active, LeaseInv, AttemptShape
  <2>2. /\ request[exec[e].unit].state \in Held /\ request[exec[e].unit].by = e
        /\ request[exec[e].unit].generation = exec[e].generation
    BY <2>1 DEF RequestInv, RemoteLeaseIsTracked, Tracks
  <2> QED BY <2>1, <2>2 DEF QuietRequests, Tracks
<1>2. HeldRequestHasLease'
  <2> SUFFICES ASSUME NEW u \in Unit, request'[u].state \in Held
               PROVE  /\ request'[u].by \in Exec
                      /\ exec'[request'[u].by].unit = u
                      /\ exec'[request'[u].by].lane = "remote"
                      /\ exec'[request'[u].by].lease \notin {"none", "deleted"}
    BY DEF HeldRequestHasLease
  <2>1. request[u].state \in Held /\ request'[u].by = request[u].by
    BY DEF QuietRequests
  <2>2. /\ request[u].by \in Exec /\ exec[request[u].by].unit = u
        /\ exec[request[u].by].lane = "remote"
        /\ exec[request[u].by].lease \notin {"none", "deleted"}
    BY <2>1 DEF RequestInv, HeldRequestHasLease
  <2> QED BY <2>1, <2>2 DEF Quiet, KeepsLease, LeaseInv, AttemptShape
<1> QED BY <1>1, <1>2 DEF RequestInv

-----------------------------------------------------------------------------
(* Steps that start an attempt.                                            *)

Started(u, e, lane) ==
  /\ Unused(e) /\ CanStart(u) /\ StartUnit(u, e)
  /\ exec' = [exec EXCEPT ![e] = NewAttempt(u, lane)]
  /\ job'.generation = job.generation

\* Two claims of one unit cannot both find it startable.
LEMMA NoOwnerYet ==
  ASSUME TypeOK, LeaseInv, NEW u \in Unit, CanStart(u),
         NEW f \in Exec, Active(f), exec[f].unit = u, exec[f].generation = job.generation
  PROVE  FALSE
<1>1. CASE u \in ShardUnit
  <2>1. shard[u] = [status |-> "running", by |-> f]
    BY <1>1 DEF LeaseInv, LeaseOwnsShard, Stale
  <2>2. shard[u].status = "pending"
    BY <1>1 DEF CanStart
  <2> QED BY <2>1, <2>2
<1>2. CASE u \notin ShardUnit
  <2>1. nodeStatus[u[1]] = "running"
    BY <1>2 DEF LeaseInv, LeaseOwnsNode, NodeOf
  <2>2. nodeStatus[u[1]] \in Runnable
    BY <1>2 DEF CanStart
  <2> QED BY <2>1, <2>2 DEF Runnable
<1> QED BY <1>1, <1>2

LEMMA StartKeeps ==
  ASSUME TypeOK, LeaseInv, NEW u \in Unit, NEW e \in Exec, NEW lane,
         Started(u, e, lane)
  PROVE  LeaseInv'
<1> USE DEF LeaseInv
<1>1. ~Active(e)
  BY DEF Started, AttemptShape, Active
<1>2. /\ exec'[e] = NewAttempt(u, lane)
      /\ \A f \in Exec : f # e => exec'[f] = exec[f]
  BY DEF Started, TypeOK
<1>3. /\ Active(e)' /\ exec'[e].unit = u /\ exec'[e].generation = job.generation
      /\ exec'[e].run = "running"
  BY <1>2 DEF Active, NewAttempt
<1>4. job.generation \in Nat /\ job'.generation = job.generation
  BY EpochNat DEF TypeOK, JobRow, Started
<1>5. u[1] \in Node /\ nodeStatus'[u[1]] = "running"
  BY PlainNode DEF Started, StartUnit, TypeOK
<1>6. \A n \in Node : n # u[1] => nodeStatus'[n] = nodeStatus[n] /\ nodeGen'[n] = nodeGen[n]
  BY DEF Started, StartUnit, TypeOK
<1>7. /\ u \in ShardUnit => shard'[u] = [status |-> "running", by |-> e]
      /\ \A w \in ShardUnit : w # u => shard'[w] = shard[w]
  BY DEF Started, StartUnit, TypeOK
<1>8. AttemptShape'
  BY <1>2, <1>3, <1>4 DEF AttemptShape, Active, Unused
<1>9. LeaseOwnsNode'
  <2> SUFFICES ASSUME NEW f \in Exec, Active(f)', exec'[f].unit \notin ShardUnit
               PROVE  /\ nodeStatus'[exec'[f].unit[1]] = "running"
                      /\ exec'[f].generation = job'.generation
    BY DEF LeaseOwnsNode, NodeOf
  <2>1. CASE f = e
    BY <1>3, <1>4, <1>5, <2>1
  <2>2. CASE f # e
    <3>1. Active(f) /\ exec[f] = exec'[f] /\ exec[f].unit \in Unit
      BY <1>2, <2>2 DEF Active, AttemptShape
    <3>2. nodeStatus[exec[f].unit[1]] = "running" /\ exec[f].generation = job.generation
      BY <3>1 DEF LeaseOwnsNode, NodeOf
    <3> QED BY <1>4, <1>5, <1>6, <3>1, <3>2, PlainNode
  <2> QED BY <2>1, <2>2
<1>10. LeaseOwnsShard'
  <2> SUFFICES ASSUME NEW f \in Exec, Active(f)', exec'[f].unit \in ShardUnit,
                      exec'[f].generation = job'.generation
               PROVE  shard'[exec'[f].unit] = [status |-> "running", by |-> f]
    BY DEF LeaseOwnsShard, Stale
  <2>1. CASE f = e
    BY <1>3, <1>7, <2>1
  <2>2. CASE f # e
    <3>1. Active(f) /\ exec[f] = exec'[f] /\ exec[f].generation = job.generation
      BY <1>2, <1>4, <2>2 DEF Active
    <3>2. exec[f].unit # u
      BY <3>1, NoOwnerYet DEF Started
    <3>3. shard[exec[f].unit] = [status |-> "running", by |-> f]
      BY <3>1 DEF LeaseOwnsShard, Stale
    <3> QED BY <1>7, <3>1, <3>2, <3>3
  <2> QED BY <2>1, <2>2
<1>11. NoDoubleExecution'
  <2>1. ASSUME NEW f \in Exec, f # e, Active(f)', exec'[f].unit = u
        PROVE  exec'[f].generation # job.generation
    BY <1>2, <2>1, NoOwnerYet DEF Started, Active
  <2> QED BY <1>2, <1>3, <2>1 DEF NoDoubleExecution, Active
<1>12. RunningIsOwned'
  <2> SUFFICES ASSUME NEW n \in Node, nodeStatus'[n] = "running"
               PROVE  /\ nodeGen'[n] = job'.generation
                      /\ n \notin Sharded =>
                           \E f \in Exec : Active(f)' /\ exec'[f].unit[1] = n
    BY DEF RunningIsOwned, NodeOf
  <2>1. CASE n = u[1]
    <3>1. nodeGen'[n] = job.generation
      <4>1. CASE nodeStatus[n] \in Runnable
        BY <2>1, <4>1 DEF Started, StartUnit, TypeOK
      <4>2. CASE nodeStatus[n] \notin Runnable
        <5>1. nodeStatus[n] = "running"
          BY <2>1, <4>2 DEF Started, CanStart
        <5>2. nodeGen[n] = job.generation
          BY <5>1 DEF RunningIsOwned
        <5> QED BY <2>1, <4>2, <5>2 DEF Started, StartUnit
      <4> QED BY <4>1, <4>2
    <3> QED BY <1>3, <1>4, <2>1, <3>1
  <2>2. CASE n # u[1]
    <3>1. nodeStatus[n] = "running" /\ nodeGen'[n] = nodeGen[n]
      BY <1>6, <2>2
    <3>2. nodeGen[n] = job.generation
          /\ (n \notin Sharded => \E f \in Exec : Active(f) /\ exec[f].unit[1] = n)
      BY <3>1 DEF RunningIsOwned, NodeOf
    <3> QED BY <1>1, <1>2, <1>4, <3>1, <3>2 DEF Active
  <2> QED BY <2>1, <2>2
<1>13. RunsSettleWithLeases'
  BY <1>2, <1>3 DEF RunsSettleWithLeases, Active
<1> QED BY <1>8, <1>9, <1>10, <1>11, <1>12, <1>13

-----------------------------------------------------------------------------
(* Steps that end an attempt.                                              *)

\* The lease and the run of e end; e takes only its own node out of running
\* and writes only a shard row that names it.
Ended(e) ==
  /\ Active(e)
  /\ job'.generation = job.generation /\ nodeGen' = nodeGen
  /\ exec'[e].unit = exec[e].unit /\ exec'[e].generation = exec[e].generation
  /\ exec'[e].lane = exec[e].lane
  /\ exec'[e].lease \in {"released", "expired", "deleted"}
  /\ exec'[e].run \in {"completed", "failed"}
  /\ \A f \in Exec : f # e => exec'[f] = exec[f]
  /\ \A n \in Node : nodeStatus'[n] = "running" => nodeStatus[n] = "running"
  /\ \A n \in Node : n # NodeOf(e) => nodeStatus'[n] = nodeStatus[n]
  /\ exec[e].unit \notin ShardUnit => nodeStatus'[NodeOf(e)] # "running"
  /\ \A u \in ShardUnit : shard'[u] # shard[u] => shard[u].by = e

LEMMA EndKeeps ==
  ASSUME TypeOK, LeaseInv, NEW e \in Exec, Ended(e)
  PROVE  LeaseInv'
<1> USE DEF LeaseInv
<1>1. \A f \in Exec : Active(f)' => f # e /\ Active(f) /\ exec'[f] = exec[f]
  BY DEF Ended, Active
<1>2. exec[e].unit \in Unit
  BY DEF AttemptShape, Ended
<1>3. AttemptShape'
  BY <1>1 DEF AttemptShape, Ended, Active, Unused
<1>4. LeaseOwnsNode'
  <2> SUFFICES ASSUME NEW f \in Exec, Active(f)', exec'[f].unit \notin ShardUnit
               PROVE  /\ nodeStatus'[exec'[f].unit[1]] = "running"
                      /\ exec'[f].generation = job'.generation
    BY DEF LeaseOwnsNode, NodeOf
  <2>1. /\ f # e /\ Active(f) /\ exec'[f] = exec[f] /\ exec[f].unit \in Unit
        /\ exec[f].unit \notin ShardUnit
    BY <1>1 DEF AttemptShape
  <2>2. nodeStatus[exec[f].unit[1]] = "running" /\ exec[f].generation = job.generation
    BY <2>1 DEF LeaseOwnsNode, NodeOf
  <2>3. exec[f].unit[1] # exec[e].unit[1]
    <3> SUFFICES ASSUME exec[f].unit[1] = exec[e].unit[1] PROVE FALSE
      OBVIOUS
    <3>1. exec[e].unit = exec[f].unit
      BY <1>2, <2>1, PlainUnit
    <3>2. exec[e].generation = job.generation
      BY <2>1, <3>1 DEF Ended, LeaseOwnsNode
    <3> QED BY <2>1, <2>2, <3>1, <3>2 DEF Ended, NoDoubleExecution
  <2> QED BY <2>1, <2>2, <2>3, PlainNode DEF Ended, NodeOf
<1>5. LeaseOwnsShard'
  BY <1>1 DEF LeaseOwnsShard, Stale, Ended
<1>6. NoDoubleExecution'
  BY <1>1 DEF NoDoubleExecution
<1>7. RunningIsOwned'
  <2> SUFFICES ASSUME NEW n \in Node, nodeStatus'[n] = "running"
               PROVE  /\ nodeGen'[n] = job'.generation
                      /\ n \notin Sharded =>
                           \E f \in Exec : Active(f)' /\ exec'[f].unit[1] = n
    BY DEF RunningIsOwned, NodeOf
  <2>1. /\ nodeStatus[n] = "running" /\ nodeGen[n] = job.generation
        /\ n \notin Sharded => \E f \in Exec : Active(f) /\ exec[f].unit[1] = n
    BY DEF Ended, RunningIsOwned, NodeOf
  <2>2. ASSUME n \notin Sharded, NEW f \in Exec, Active(f), exec[f].unit[1] = n
        PROVE  f # e
    BY <1>2, <2>2, PlainNode DEF Ended, NodeOf
  <2> QED BY <2>1, <2>2 DEF Ended, Active
<1>8. RunsSettleWithLeases'
  BY <1>1 DEF RunsSettleWithLeases, Ended, Active
<1> QED BY <1>3, <1>4, <1>5, <1>6, <1>7, <1>8

-----------------------------------------------------------------------------
(* The orphan recovery, and the resets that bump the generation.           *)

LEMMA RecoverKeeps == TypeOK /\ LeaseInv /\ Recover => LeaseInv'
<1> SUFFICES ASSUME TypeOK, LeaseInv, Recover PROVE LeaseInv'
  OBVIOUS
<1> USE DEF LeaseInv
<1>1. \A e \in Exec : ~Active(e) /\ exec[e].run # "running"
  BY DEF Recover, RunsSettleWithLeases
<1>2. exec' = exec
  BY <1>1 DEF Recover, TypeOK
<1>3. job'.generation = job.generation
  BY DEF Recover, SyncJob, TypeOK, JobRow
<1>4. \A n \in Node : nodeStatus'[n] # "running"
  BY DEF Recover, RunningIsOwned
<1>5. \A e \in Exec : ~Active(e)'
  BY <1>1, <1>2 DEF Active
<1>6. AttemptShape'
  BY <1>2, <1>3 DEF AttemptShape, Active, Unused
<1>7. LeaseOwnsNode' /\ LeaseOwnsShard' /\ NoDoubleExecution'
  BY <1>5 DEF LeaseOwnsNode, LeaseOwnsShard, NoDoubleExecution
<1>8. RunningIsOwned' /\ RunsSettleWithLeases'
  BY <1>1, <1>2, <1>4, <1>5 DEF RunningIsOwned, RunsSettleWithLeases
<1> QED BY <1>6, <1>7, <1>8

\* A reset is refused while a node runs, and it starts none.
IsReset ==
  /\ ~Busy
  /\ job'.generation = job.generation + 1 /\ exec' = exec
  /\ \A n \in Node : nodeStatus'[n] = "running" => nodeStatus[n] = "running"

\* After it, the leases that are still active are stale: shards whose process
\* has gone silent.
LEMMA ResetKeeps == TypeOK /\ LeaseInv /\ IsReset => LeaseInv'
<1> SUFFICES ASSUME TypeOK, LeaseInv, IsReset PROVE LeaseInv'
  OBVIOUS
<1> USE DEF LeaseInv
<1>1. \A n \in Node : nodeStatus[n] # "running" /\ nodeStatus'[n] # "running"
  BY DEF IsReset, Busy
<1>2. job.generation \in Nat /\ \A e \in Exec : exec[e].generation \in Nat
  BY EpochNat DEF TypeOK, JobRow, ExecRow
<1>3. \A e \in Exec : exec[e].generation <= job.generation
  BY DEF AttemptShape
<1>4. AttemptShape' /\ \A e \in Exec : Stale(e)'
  BY <1>2, <1>3 DEF AttemptShape, Active, Unused, Stale, IsReset
<1>5. LeaseOwnsNode'
  BY <1>1, PlainNode DEF LeaseOwnsNode, AttemptShape, IsReset, Active, NodeOf
<1>6. LeaseOwnsShard' /\ RunningIsOwned'
  BY <1>1, <1>4 DEF LeaseOwnsShard, RunningIsOwned
<1>7. NoDoubleExecution' /\ RunsSettleWithLeases'
  BY DEF NoDoubleExecution, RunsSettleWithLeases, IsReset, Active
<1> QED BY <1>4, <1>5, <1>6, <1>7

-----------------------------------------------------------------------------
(* The requests of the steps that are not quiet.                           *)

\* A result or a local expiry leaves the request for mark_done or the sweep.
LEMMA EndRequestsKeep ==
  ASSUME OwnershipInv, NEW e \in Exec, Ended(e), request' = request,
         exec'[e].lease # "deleted"
  PROVE  RequestInv'
<1> USE InvParts DEF RequestInv
<1>1. \A f \in Exec : Active(f)' => f # e /\ Active(f) /\ exec'[f] = exec[f]
  BY DEF Ended, Active
<1>2. RemoteLeaseIsTracked'
  BY <1>1 DEF RemoteLeaseIsTracked, Tracks
<1>3. HeldRequestHasLease'
  <2> SUFFICES ASSUME NEW u \in Unit, request[u].state \in Held
               PROVE  /\ request[u].by \in Exec
                      /\ exec'[request[u].by].unit = u
                      /\ exec'[request[u].by].lane = "remote"
                      /\ exec'[request[u].by].lease \notin {"none", "deleted"}
    BY DEF HeldRequestHasLease
  <2>1. /\ request[u].by \in Exec /\ exec[request[u].by].unit = u
        /\ exec[request[u].by].lane = "remote"
        /\ exec[request[u].by].lease \notin {"none", "deleted"}
    BY DEF HeldRequestHasLease
  <2> QED BY <2>1 DEF Ended
<1> QED BY <1>2, <1>3

\* The Worker-loss sweep closes or requeues the request of the lease it deletes.
LEMMA SweepRequestsKeep ==
  ASSUME OwnershipInv, NEW u \in Unit, request[u].state \in Held,
         Ended(request[u].by), request'[u].state \notin Held,
         \A w \in Unit : w # u => request'[w] = request[w]
  PROVE  RequestInv'
<1> DEFINE e == request[u].by
<1> USE InvParts DEF RequestInv
<1>1. e \in Exec /\ exec[e].unit = u
  BY DEF HeldRequestHasLease
<1>2. \A f \in Exec : Active(f)' => f # e /\ Active(f) /\ exec'[f] = exec[f]
  BY DEF Ended, Active
<1>3. RemoteLeaseIsTracked'
  <2> SUFFICES ASSUME NEW f \in Exec, Active(f)', exec'[f].lane = "remote"
               PROVE  /\ Tracks(exec[f].unit, f)'
                      /\ request'[exec'[f].unit].generation = exec'[f].generation
                      /\ exec'[f].unit = exec[f].unit
    BY DEF RemoteLeaseIsTracked, Tracks
  <2>1. f # e /\ Active(f) /\ exec'[f] = exec[f] /\ exec[f].unit \in Unit
    BY <1>2 DEF LeaseInv, AttemptShape
  <2>2. /\ request[exec[f].unit].state \in Held /\ request[exec[f].unit].by = f
        /\ request[exec[f].unit].generation = exec[f].generation
    BY <2>1 DEF RemoteLeaseIsTracked, Tracks
  <2> QED BY <2>1, <2>2 DEF Tracks
<1>4. HeldRequestHasLease'
  <2> SUFFICES ASSUME NEW w \in Unit, request'[w].state \in Held
               PROVE  /\ request'[w].by \in Exec
                      /\ exec'[request'[w].by].unit = w
                      /\ exec'[request'[w].by].lane = "remote"
                      /\ exec'[request'[w].by].lease \notin {"none", "deleted"}
    BY DEF HeldRequestHasLease
  <2>1. w # u /\ request'[w] = request[w]
    OBVIOUS
  <2>2. /\ request[w].by \in Exec /\ exec[request[w].by].unit = w
        /\ exec[request[w].by].lane = "remote"
        /\ exec[request[w].by].lease \notin {"none", "deleted"}
    BY <2>1 DEF HeldRequestHasLease
  <2>3. request[w].by # e
    BY <1>1, <2>1, <2>2
  <2> QED BY <2>1, <2>2, <2>3 DEF Ended
<1> QED BY <1>3, <1>4

\* A reset cancels queued requests only.
LEMMA ResetRequestsKeep ==
  ASSUME OwnershipInv, exec' = exec,
         \A u \in Unit : request'[u] = request[u]
                        \/ (request[u].state \notin Held /\ request'[u].state \notin Held)
  PROVE  RequestInv'
<1> USE InvParts DEF RequestInv
<1>1. RemoteLeaseIsTracked'
  BY DEF RemoteLeaseIsTracked, Tracks, Active, LeaseInv, AttemptShape
<1>2. HeldRequestHasLease'
  BY DEF HeldRequestHasLease
<1> QED BY <1>1, <1>2

-----------------------------------------------------------------------------
(* The actions, by kind.                                                   *)

\* Deriving the job status, and the run-to pause, keep the generation.
LEMMA SyncGeneration ==
  ASSUME NEW j \in JobRow, NEW ns, NEW n
  PROVE  /\ SyncJob(j, ns).generation = j.generation
         /\ PauseOnTarget(SyncJob(j, ns), n).generation = j.generation
<1>1. SyncJob(j, ns).generation = j.generation
  BY DEF SyncJob, JobRow
<1>2. SyncJob(j, ns) \in JobRow
  BY SyncType
<1> QED BY <1>1, <1>2 DEF PauseOnTarget, JobRow

\* A step that leaves the rows alone.
LEMMA FrameQuiet ==
  ASSUME TypeOK, LeaseInv, job'.generation = job.generation,
         UNCHANGED <<nodeStatus, nodeGen, shard, exec>>
  PROVE  Quiet
BY DEF Quiet, KeepsLease, Unused

\* Only the signal of an attempt changes.
LEMMA SignalKeeps ==
  ASSUME TypeOK, NEW e \in Exec, NEW signal, exec' = [exec EXCEPT ![e].signal = signal]
  PROVE  \A f \in Exec : KeepsLease(f)
BY DEF TypeOK, ExecRow, KeepsLease, Unused

\* A failure without a lease takes an unused identity and no running node.
LEMMA FailureQuiet ==
  ASSUME TypeOK, NEW n \in Node, NEW e \in Exec, RecordFailure(n, e)
  PROVE  /\ \A m \in Node : nodeStatus'[m] = "running" <=> nodeStatus[m] = "running"
         /\ \A f \in Exec : KeepsLease(f)
<1>1. \A m \in Node : nodeStatus'[m] = "running" <=> nodeStatus[m] = "running"
  BY DEF TypeOK, RecordFailure, Runnable
<1>2. exec[e] \in ExecRow
  BY DEF TypeOK
<1>3. /\ exec'[e].lease = exec[e].lease /\ exec'[e].generation = exec[e].generation
      /\ exec'[e].lane = exec[e].lane /\ exec'[e].run = "failed" /\ exec[e].run = "none"
  BY <1>2 DEF TypeOK, RecordFailure, ExecRow, Unused
<1>4. \A f \in Exec : f # e => exec'[f] = exec[f]
  BY DEF RecordFailure, TypeOK
<1> QED BY <1>1, <1>3, <1>4 DEF KeepsLease, Unused

\* What a quiet step has to show.
LEMMA QuietStep == OwnershipInv /\ Quiet /\ QuietRequests => LeaseInv' /\ RequestInv'
BY InvParts, QuietKeeps, QuietRequestsKeep

\* Requests that do not change, or that no attempt holds before or after.
LEMMA UnheldRequests ==
  ASSUME \A u \in Unit : request'[u] = request[u]
                        \/ (request[u].state \notin Held /\ request'[u].state \notin Held)
  PROVE  QuietRequests
BY DEF QuietRequests

\* The Host scheduler never disturbs an owner.
LEMMA SchedulerOwnership ==
  OwnershipInv /\ SchedulerNext => LeaseInv' /\ RequestInv'
<1> SUFFICES ASSUME OwnershipInv, SchedulerNext PROVE LeaseInv' /\ RequestInv'
  OBVIOUS
<1> USE InvParts
<1>1. CASE ReadJob \/ Evaluate \/ \E u \in Unit : Dispatch(u)
  <2>1. Quiet /\ request' = request
    BY <1>1, FrameQuiet DEF ReadJob, Evaluate, Dispatch, rows
  <2> QED BY <2>1, UnheldRequests, QuietStep
<1>2. ASSUME NEW n \in Sharded, NEW inputs \in SUBSET Shard, MaterializeShards(n, inputs)
      PROVE  LeaseInv' /\ RequestInv'
  <2>1. job'.generation = job.generation
    BY <1>2, SyncGeneration DEF MaterializeShards, TypeOK
  <2>2. \A m \in Node : nodeStatus'[m] = "running" <=> nodeStatus[m] = "running"
    BY <1>2 DEF MaterializeShards, Runnable, TypeOK
  <2>3. \A u \in ShardUnit : shard[u].status = "running" => shard'[u] = shard[u]
    <3> SUFFICES ASSUME NEW u \in ShardUnit, shard[u].status = "running"
                 PROVE  shard'[u] = shard[u]
      OBVIOUS
    <3>1. u[1] # n
      BY <1>2, UnitType DEF MaterializeShards, ShardsWith, UnitsOf
    <3> QED BY <1>2, <3>1 DEF MaterializeShards, TypeOK
  <2>4. exec' = exec /\ nodeGen' = nodeGen /\ request' = request
    BY <1>2 DEF MaterializeShards
  <2>5. Quiet
    BY <2>1, <2>2, <2>3, <2>4 DEF Quiet, KeepsLease, Unused
  <2> QED BY <2>4, <2>5, UnheldRequests, QuietStep
<1>3. ASSUME NEW f \in inflight, Enqueue(f) PROVE LeaseInv' /\ RequestInv'
  <2>1. Quiet
    BY <1>3, FrameQuiet DEF Enqueue
  <2>2. QuietRequests
    <3>1. NoRequest.state \notin Held
      BY DEF NoRequest, Held
    <3>2. f.unit \in Unit
      BY DEF TypeOK
    <3> QED BY <1>3, <3>1, <3>2, UnheldRequests DEF Enqueue, TypeOK, Held, NoRequest
  <2> QED BY <2>1, <2>2, QuietStep
<1>4. ASSUME NEW u \in Unit, NEW e \in Exec, ClaimLocal(u, e)
      PROVE  LeaseInv' /\ RequestInv'
  <2>1. Started(u, e, "local") /\ request' = request
    BY <1>4 DEF Started, ClaimLocal, TypeOK, JobRow
  <2>2. LeaseInv'
    BY <2>1, StartKeeps
  <2>3. exec'[e].lane = "local" /\ \A f \in Exec : f # e => exec'[f] = exec[f]
    BY <2>1 DEF Started, NewAttempt, TypeOK
  <2>4. \A u2 \in Unit : request[u2].state \in Held => request[u2].by # e
    BY <2>1 DEF Started, Unused, LeaseInv, AttemptShape, RequestInv, HeldRequestHasLease
  <2>5. RemoteLeaseIsTracked'
    BY <2>1, <2>3 DEF RemoteLeaseIsTracked, RequestInv, Tracks, Active
  <2>6. HeldRequestHasLease'
    BY <2>1, <2>3, <2>4 DEF HeldRequestHasLease, RequestInv
  <2> QED BY <2>2, <2>5, <2>6 DEF RequestInv
<1>5. ASSUME NEW g \in Gate, Park(g) PROVE LeaseInv' /\ RequestInv'
  <2>1. /\ job'.generation = job.generation /\ exec' = exec /\ shard' = shard
        /\ request' = request
    BY <1>5, SyncGeneration DEF Park, TypeOK
  <2>2. \A m \in Node : nodeStatus'[m] = "running" <=> nodeStatus[m] = "running"
    BY <1>5 DEF Park, Runnable, TypeOK
  <2>3. \A m \in Node : nodeStatus[m] = "running" => nodeGen'[m] = nodeGen[m]
    BY <1>5 DEF Park, Runnable, TypeOK
  <2>4. Quiet
    BY <2>1, <2>2, <2>3 DEF Quiet, KeepsLease, Unused
  <2> QED BY <2>1, <2>4, UnheldRequests, QuietStep
<1>6. ASSUME NEW n \in Node, NEW e \in Exec, RecordFailure(n, e),
             job' = SyncJob(job, nodeStatus'), UNCHANGED <<nodeGen, shard, request>>
      PROVE  LeaseInv' /\ RequestInv'
  <2>1. job'.generation = job.generation
    BY <1>6, SyncGeneration DEF TypeOK
  <2>2. Quiet
    BY <1>6, <2>1, FailureQuiet DEF Quiet
  <2> QED BY <1>6, <2>2, UnheldRequests, QuietStep
<1>7. ASSUME NEW n \in Node, NEW e \in Exec, FailConfig(n, e)
      PROVE  LeaseInv' /\ RequestInv'
  BY <1>6, <1>7 DEF FailConfig
<1>8. ASSUME NEW f \in inflight, NEW e \in Exec, FailEnqueue(f, e)
      PROVE  LeaseInv' /\ RequestInv'
  <2>1. f.unit[1] \in Node
    BY UnitType DEF TypeOK, AnyUnit
  <2>2. CASE UNCHANGED <<job, nodeStatus, exec>>
    <3>1. Quiet /\ request' = request
      BY <1>8, <2>2, FrameQuiet DEF FailEnqueue
    <3> QED BY <3>1, UnheldRequests, QuietStep
  <2> QED BY <1>6, <1>8, <2>1, <2>2 DEF FailEnqueue
<1> QED
  BY <1>1, <1>2, <1>3, <1>4, <1>5, <1>7, <1>8 DEF SchedulerNext

\* The rows of the attempt that ends.
LEMMA EndRow ==
  ASSUME TypeOK, NEW e \in Exec, NEW lease, NEW run, EndAttempt(e, lease, run)
  PROVE  /\ exec'[e].unit = exec[e].unit /\ exec'[e].generation = exec[e].generation
         /\ exec'[e].lane = exec[e].lane
         /\ exec'[e].lease = lease /\ exec'[e].run = run
         /\ \A f \in Exec : f # e => exec'[f] = exec[f]
<1> DEFINE signal == IF exec[e].lane = "local" THEN "late" ELSE exec[e].signal
           row == [exec[e] EXCEPT !.lease = lease, !.run = run, !.signal = signal]
<1>1. exec' = [exec EXCEPT ![e] = row]
  BY DEF EndAttempt
<1>2. exec[e] \in ExecRow
  BY DEF TypeOK
<1>3. /\ row.unit = exec[e].unit /\ row.generation = exec[e].generation
      /\ row.lane = exec[e].lane /\ row.lease = lease /\ row.run = run
  <2> HIDE DEF signal
  <2> QED BY <1>2 DEF ExecRow
<1> HIDE DEF row
<1> QED BY <1>1, <1>3 DEF TypeOK

\* A shard that settles may take its own node out of running, and writes the
\* row that names the attempt.
LEMMA SettleShardKeeps ==
  ASSUME TypeOK, NEW e \in Exec, NEW outcome \in {"completed", "failed"},
         BoundToShard(e), SettleShard(e, outcome)
  PROVE  /\ job'.generation = job.generation
         /\ \A n \in Node : nodeStatus'[n] = "running" => nodeStatus[n] = "running"
         /\ \A n \in Node : n # NodeOf(e) => nodeStatus'[n] = nodeStatus[n]
         /\ \A u \in ShardUnit : shard'[u] # shard[u] => shard[u].by = e
<1>1. job'.generation = job.generation
  BY SyncGeneration DEF SettleShard, TypeOK
<1>2. \A n \in Node : nodeStatus'[n] = "running" => nodeStatus[n] = "running"
  BY DEF SettleShard, TypeOK
<1>3. \A n \in Node : n # NodeOf(e) => nodeStatus'[n] = nodeStatus[n]
  BY DEF SettleShard, TypeOK
<1>4. \A u \in ShardUnit : shard'[u] # shard[u] => shard[u].by = e
  BY DEF SettleShard, BoundToShard, TypeOK
<1> QED BY <1>1, <1>2, <1>3, <1>4

\* However an attempt ends, it takes no node and no shard from another one.
LEMMA LeaseOwnership ==
  OwnershipInv /\ LeaseNext => LeaseInv' /\ RequestInv'
<1> SUFFICES ASSUME OwnershipInv, LeaseNext PROVE LeaseInv' /\ RequestInv'
  OBVIOUS
<1> USE InvParts
<1>1. ASSUME NEW e \in Exec, Ended(e), request' = request, exec'[e].lease # "deleted"
      PROVE  LeaseInv' /\ RequestInv'
  BY <1>1, EndKeeps, EndRequestsKeep
<1>2. ASSUME NEW e \in Exec, BoundToShard(e)
      PROVE  exec[e].unit \in ShardUnit
  BY <1>2 DEF BoundToShard
<1>3. ASSUME NEW e \in Exec, Active(e), Stale(e)
      PROVE  exec[e].unit \in ShardUnit
  BY <1>3 DEF LeaseInv, LeaseOwnsNode, Stale
<1>4. ASSUME NEW e \in Exec, NEW outcome \in Outcomes, Finish(e, outcome)
      PROVE  LeaseInv' /\ RequestInv'
  <2> DEFINE settled == IF outcome = "completed" THEN "completed" ELSE "failed"
  <2>1. EndAttempt(e, "released", settled) /\ Active(e)
    BY <1>4 DEF Finish
  <2>2. request' = request /\ nodeGen' = nodeGen /\ settled \in {"completed", "failed"}
    BY <1>4 DEF Finish
  <2>3. /\ job'.generation = job.generation
        /\ \A n \in Node : nodeStatus'[n] = "running" => nodeStatus[n] = "running"
        /\ \A n \in Node : n # NodeOf(e) => nodeStatus'[n] = nodeStatus[n]
        /\ exec[e].unit \notin ShardUnit => nodeStatus'[NodeOf(e)] # "running"
        /\ \A u \in ShardUnit : shard'[u] # shard[u] => shard[u].by = e
    <3>1. CASE BoundToShard(e)
      <4>1. SettleShard(e, settled)
        BY <1>4, <3>1 DEF Finish
      <4> QED BY <1>2, <2>2, <3>1, <4>1, SettleShardKeeps
    <3>2. CASE ~BoundToShard(e) /\ Stale(e)
      BY <1>3, <1>4, <2>1, <3>2 DEF Finish
    <3>3. CASE ~BoundToShard(e) /\ ~Stale(e)
      <4>1. SettleNode(e, outcome)
        BY <1>4, <3>3 DEF Finish
      <4>2. job'.generation = job.generation /\ shard' = shard
        BY <4>1, SyncGeneration DEF SettleNode, TypeOK
      <4>3. \E st \in {"completed", "failed", "pending"} :
              nodeStatus' = [nodeStatus EXCEPT ![NodeOf(e)] = st]
        BY <4>1 DEF SettleNode, Outcomes
      <4>4. exec[e].unit \in Unit
        BY <2>1 DEF LeaseInv, AttemptShape
      <4>5. NodeOf(e) \in Node
        BY <4>4, PlainNode DEF NodeOf
      <4>6. /\ \A n \in Node : nodeStatus'[n] = "running" => nodeStatus[n] = "running"
            /\ \A n \in Node : n # NodeOf(e) => nodeStatus'[n] = nodeStatus[n]
            /\ nodeStatus'[NodeOf(e)] # "running"
        BY <4>3, <4>5 DEF TypeOK
      <4> QED BY <4>2, <4>6
    <3> QED BY <3>1, <3>2, <3>3
  <2>4. Ended(e) /\ exec'[e].lease # "deleted"
    <3> HIDE DEF settled
    <3> QED BY <2>1, <2>2, <2>3, EndRow DEF Ended
  <2> QED BY <1>1, <2>2, <2>4
<1>5. ASSUME NEW e \in Exec, ExpireLocal(e)
      PROVE  LeaseInv' /\ RequestInv'
  <2>1. EndAttempt(e, "expired", "failed") /\ Active(e)
    BY <1>5 DEF ExpireLocal
  <2>2. request' = request /\ nodeGen' = nodeGen
    BY <1>5 DEF ExpireLocal
  <2>3. /\ job'.generation = job.generation
        /\ \A n \in Node : nodeStatus'[n] = "running" => nodeStatus[n] = "running"
        /\ \A n \in Node : n # NodeOf(e) => nodeStatus'[n] = nodeStatus[n]
        /\ exec[e].unit \notin ShardUnit => nodeStatus'[NodeOf(e)] # "running"
        /\ \A u \in ShardUnit : shard'[u] # shard[u] => shard[u].by = e
    <3>1. CASE BoundToShard(e)
      <4>1. SettleShard(e, "failed")
        BY <1>5, <3>1 DEF ExpireLocal
      <4> QED BY <1>2, <3>1, <4>1, SettleShardKeeps
    <3>2. CASE ~BoundToShard(e) /\ Stale(e)
      BY <1>3, <1>5, <2>1, <3>2 DEF ExpireLocal
    <3>3. CASE ~BoundToShard(e) /\ ~Stale(e)
      <4>1. job'.generation = job.generation /\ shard' = shard
        BY <1>5, <3>3 DEF ExpireLocal, TypeOK, JobRow
      <4>2. NodeOf(e) \in Node
        BY <2>1, PlainNode DEF LeaseInv, AttemptShape, NodeOf
      <4>3. /\ \A n \in Node : nodeStatus'[n] = "running" => nodeStatus[n] = "running"
            /\ \A n \in Node : n # NodeOf(e) => nodeStatus'[n] = nodeStatus[n]
            /\ nodeStatus'[NodeOf(e)] # "running"
        BY <1>5, <3>3, <4>2 DEF ExpireLocal, TypeOK
      <4> QED BY <4>1, <4>3
    <3> QED BY <3>1, <3>2, <3>3
  <2>4. Ended(e) /\ exec'[e].lease # "deleted"
    BY <2>1, <2>2, <2>3, EndRow DEF Ended
  <2> QED BY <1>1, <2>2, <2>4
<1>6. CASE Recover
  <2>1. LeaseInv'
    BY <1>6, RecoverKeeps
  <2>2. exec' = exec /\ request' = request
    BY <1>6 DEF Recover, TypeOK, LeaseInv, RunsSettleWithLeases
  <2> QED BY <2>1, <2>2, ResetRequestsKeep
<1>7. ASSUME NEW e \in Exec, Heartbeat(e) \/ FallSilent(e)
      PROVE  LeaseInv' /\ RequestInv'
  <2>1. \A f \in Exec : KeepsLease(f)
    BY <1>7, SignalKeeps DEF Heartbeat, FallSilent
  <2>2. Quiet /\ request' = request
    BY <1>7, <2>1 DEF Heartbeat, FallSilent, Quiet
  <2> QED BY <2>2, UnheldRequests, QuietStep
<1> QED
  BY <1>4, <1>5, <1>6, <1>7 DEF LeaseNext

\* The row of a lease the sweep deletes.
LEMMA DeleteRow ==
  ASSUME TypeOK, NEW e \in Exec, DeleteLease(e)
  PROVE  /\ exec'[e].unit = exec[e].unit /\ exec'[e].generation = exec[e].generation
         /\ exec'[e].lane = exec[e].lane
         /\ exec'[e].lease = "deleted" /\ exec'[e].run = "failed"
         /\ \A f \in Exec : f # e => exec'[f] = exec[f]
<1>1. exec[e] \in ExecRow
  BY DEF TypeOK
<1> QED BY <1>1 DEF DeleteLease, TypeOK, ExecRow

\* Closing a request leaves the other ones.
LEMMA CloseRow ==
  ASSUME TypeOK, NEW u \in Unit, CloseRequest(u)
  PROVE  /\ request'[u].state \notin Held
         /\ \A w \in Unit : w # u => request'[w] = request[w]
BY DEF CloseRequest, NoRequest, Held, TypeOK

\* The remote claim, the end of a request and the sweeps of lost Workers take
\* nothing from an owner.
LEMMA BrokerOwnership ==
  OwnershipInv /\ BrokerNext => LeaseInv' /\ RequestInv'
<1> SUFFICES ASSUME OwnershipInv, BrokerNext PROVE LeaseInv' /\ RequestInv'
  OBVIOUS
<1> USE InvParts
<1>1. ASSUME NEW u \in Unit, NEW e \in Exec, ClaimRemote(u, e)
      PROVE  LeaseInv' /\ RequestInv'
  <2>1. Started(u, e, "remote")
    BY <1>1 DEF Started, ClaimRemote, TypeOK, JobRow
  <2>2. LeaseInv'
    BY <2>1, StartKeeps
  <2>3. /\ exec'[e].lane = "remote" /\ exec'[e].unit = u /\ exec'[e].lease = "active"
        /\ exec'[e].generation = job.generation
        /\ \A f \in Exec : f # e => exec'[f] = exec[f]
    BY <2>1 DEF Started, NewAttempt, TypeOK
  <2>4. /\ request'[u].state = "claimed" /\ request'[u].by = e
        /\ request'[u].generation = job.generation
        /\ \A w \in Unit : w # u => request'[w] = request[w]
    <3>1. request[u] \in RequestRow
      BY DEF TypeOK
    <3>2. request[u].generation = job.generation
      BY <1>1 DEF ClaimRemote, StaleRequest
    <3> QED BY <1>1, <3>1, <3>2 DEF ClaimRemote, RequestRow, TypeOK
  <2>5. request[u].state \notin Held
    BY <1>1 DEF ClaimRemote, Held
  <2>6. \A w \in Unit : request[w].state \in Held => request[w].by # e
    BY <2>1 DEF Started, Unused, LeaseInv, AttemptShape, RequestInv, HeldRequestHasLease
  <2>7. RemoteLeaseIsTracked'
    <3> SUFFICES ASSUME NEW f \in Exec, Active(f)', exec'[f].lane = "remote"
                 PROVE  /\ request'[exec'[f].unit].state \in Held
                        /\ request'[exec'[f].unit].by = f
                        /\ request'[exec'[f].unit].generation = exec'[f].generation
      BY DEF RemoteLeaseIsTracked, Tracks
    <3>1. CASE f = e
      BY <2>3, <2>4, <3>1 DEF Held
    <3>2. CASE f # e
      <4>1. Active(f) /\ exec'[f] = exec[f] /\ exec[f].unit \in Unit
        BY <2>3, <3>2 DEF Active, LeaseInv, AttemptShape
      <4>2. /\ request[exec[f].unit].state \in Held /\ request[exec[f].unit].by = f
            /\ request[exec[f].unit].generation = exec[f].generation
        BY <4>1 DEF RequestInv, RemoteLeaseIsTracked, Tracks
      <4> QED BY <2>4, <2>5, <4>1, <4>2
    <3> QED BY <3>1, <3>2
  <2>8. HeldRequestHasLease'
    <3> SUFFICES ASSUME NEW w \in Unit, request'[w].state \in Held
                 PROVE  /\ request'[w].by \in Exec
                        /\ exec'[request'[w].by].unit = w
                        /\ exec'[request'[w].by].lane = "remote"
                        /\ exec'[request'[w].by].lease \notin {"none", "deleted"}
      BY DEF HeldRequestHasLease
    <3>1. CASE w = u
      BY <2>3, <2>4, <3>1
    <3>2. CASE w # u
      <4>1. request'[w] = request[w] /\ request[w].by # e
        BY <2>4, <2>6, <3>2
      <4>2. /\ request[w].by \in Exec /\ exec[request[w].by].unit = w
            /\ exec[request[w].by].lane = "remote"
            /\ exec[request[w].by].lease \notin {"none", "deleted"}
        BY <4>1 DEF RequestInv, HeldRequestHasLease
      <4> QED BY <2>3, <4>1, <4>2
    <3> QED BY <3>1, <3>2
  <2> QED BY <2>2, <2>7, <2>8 DEF RequestInv
<1>2. ASSUME NEW u \in Unit, CancelAtClaim(u) \/ SweepStaleQueued(u)
      PROVE  LeaseInv' /\ RequestInv'
  <2>1. Quiet
    BY <1>2, FrameQuiet DEF CancelAtClaim, SweepStaleQueued
  <2>2. QuietRequests
    BY <1>2, CloseRow, UnheldRequests DEF CancelAtClaim, SweepStaleQueued, Held
  <2> QED BY <2>1, <2>2, QuietStep
<1>3. ASSUME NEW u \in Unit, Release(u)
      PROVE  LeaseInv' /\ RequestInv'
  <2>1. Quiet
    BY <1>3, FrameQuiet DEF Release
  <2>2. /\ request'[u].state \in Held /\ request[u].state \in Held
        /\ request'[u].by = request[u].by /\ request'[u].generation = request[u].generation
        /\ \A w \in Unit : w # u => request'[w] = request[w]
    <3>1. request[u] \in RequestRow
      BY DEF TypeOK
    <3> QED BY <1>3, <3>1 DEF Release, RequestRow, TypeOK, Held
  <2>3. QuietRequests
    BY <2>2 DEF QuietRequests
  <2> QED BY <2>1, <2>3, QuietStep
\* The request of an attempt that has ended is closed.
<1>4. ASSUME NEW u \in Unit, NEW e \in Exec, request[u].by = e, ~Active(e),
             CloseRequest(u), exec' = [exec EXCEPT ![e].signal = "late"],
             UNCHANGED <<job, nodeStatus, nodeGen, shard>>
      PROVE  LeaseInv' /\ RequestInv'
  <2>1. Quiet
    BY <1>4, SignalKeeps DEF Quiet
  <2>2. QuietRequests
    BY <1>4, CloseRow DEF QuietRequests
  <2> QED BY <2>1, <2>2, QuietStep
<1>5. ASSUME NEW e \in Exec, MarkDone(e) PROVE LeaseInv' /\ RequestInv'
  <2>1. CASE exec[e].unit \in Unit
    BY <1>4, <1>5, <2>1 DEF MarkDone, Tracks, Active
  <2>2. CASE exec[e].unit \notin Unit
    <3>1. request' = request
      BY <1>5, <2>2 DEF MarkDone, CloseRequest, TypeOK
    <3>2. Quiet
      BY <1>5, SignalKeeps DEF MarkDone, Quiet
    <3> QED BY <3>1, <3>2, UnheldRequests, QuietStep
  <2> QED BY <2>1, <2>2
<1>6. ASSUME NEW u \in Unit, SweepSettled(u) PROVE LeaseInv' /\ RequestInv'
  <2>1. request[u].by \in Exec
    BY <1>6 DEF SweepSettled, SweepCandidate, RequestInv, HeldRequestHasLease
  <2> QED BY <1>4, <1>6, <2>1 DEF SweepSettled
\* The sweeps that delete the lease.
<1>7. ASSUME NEW u \in Unit, SweepCandidate(u), Active(request[u].by),
             DeleteLease(request[u].by), request'[u].state \notin Held,
             \A w \in Unit : w # u => request'[w] = request[w],
             job'.generation = job.generation, nodeGen' = nodeGen,
             \A n \in Node : nodeStatus'[n] = "running" => nodeStatus[n] = "running",
             \A n \in Node : n # u[1] => nodeStatus'[n] = nodeStatus[n],
             u \notin ShardUnit => nodeStatus'[u[1]] # "running",
             \A w \in ShardUnit : shard'[w] # shard[w] => shard[w].by = request[u].by
      PROVE  LeaseInv' /\ RequestInv'
  <2>1. request[u].by \in Exec /\ exec[request[u].by].unit = u
    BY <1>7 DEF SweepCandidate, RequestInv, HeldRequestHasLease
  <2>2. Ended(request[u].by)
    BY <1>7, <2>1, DeleteRow DEF Ended, NodeOf
  <2>3. request[u].state \in Held
    BY <1>7 DEF SweepCandidate
  <2> QED BY <1>7, <2>1, <2>2, <2>3, EndKeeps, SweepRequestsKeep
\* A held request of an active plain lease is current, and its node runs.
<1>8. ASSUME NEW u \in Unit, SweepCandidate(u), Active(request[u].by), u \notin ShardUnit
      PROVE  ~StaleRequest(u) /\ nodeStatus[u[1]] = "running"
  <2> DEFINE e == request[u].by
  <2>1. e \in Exec /\ exec[e].unit = u /\ exec[e].lane = "remote"
    BY <1>8 DEF SweepCandidate, RequestInv, HeldRequestHasLease
  <2>2. exec[e].generation = job.generation /\ nodeStatus[u[1]] = "running"
    BY <1>8, <2>1 DEF LeaseInv, LeaseOwnsNode, NodeOf
  <2>3. request[u].generation = exec[e].generation
    BY <1>8, <2>1 DEF RequestInv, RemoteLeaseIsTracked
  <2> QED BY <2>2, <2>3 DEF StaleRequest
<1>9. ASSUME NEW u \in Unit, SweepCancel(u) PROVE LeaseInv' /\ RequestInv'
  <2>1. u \in ShardUnit
    BY <1>8, <1>9 DEF SweepCancel
  <2> QED BY <1>7, <1>9, <2>1, CloseRow DEF SweepCancel
<1>10. ASSUME NEW u \in Unit, SweepRequeue(u) PROVE LeaseInv' /\ RequestInv'
  <2>1. request'[u].state \notin Held /\ \A w \in Unit : w # u => request'[w] = request[w]
    <3>1. request[u] \in RequestRow
      BY DEF TypeOK
    <3> QED BY <1>10, <3>1 DEF SweepRequeue, RequestRow, TypeOK, Held
  <2>2. u[1] \in Node
    BY PlainNode
  <2>3. /\ \A n \in Node : nodeStatus'[n] = "running" => nodeStatus[n] = "running"
        /\ \A n \in Node : n # u[1] => nodeStatus'[n] = nodeStatus[n]
        /\ nodeStatus'[u[1]] # "running"
    BY <1>10, <2>2 DEF SweepRequeue, TypeOK
  <2>4. exec[request[u].by].unit = u
    BY <1>10 DEF SweepRequeue, SweepCandidate, RequestInv, HeldRequestHasLease
  <2>5. \A w \in ShardUnit : shard'[w] # shard[w] => shard[w].by = request[u].by
    BY <1>10, <2>4 DEF SweepRequeue, BoundToShard, TypeOK
  <2> QED BY <1>7, <1>10, <2>1, <2>3, <2>5 DEF SweepRequeue
<1>11. ASSUME NEW u \in Unit, SweepFail(u) PROVE LeaseInv' /\ RequestInv'
  <2>1. u[1] \in Node
    BY PlainNode
  <2>2. /\ \A n \in Node : nodeStatus'[n] = "running" => nodeStatus[n] = "running"
        /\ \A n \in Node : n # u[1] => nodeStatus'[n] = nodeStatus[n]
        /\ nodeStatus'[u[1]] # "running"
    BY <1>11, <2>1 DEF SweepFail, TypeOK
  <2>3. exec[request[u].by].unit = u
    BY <1>11 DEF SweepFail, SweepCandidate, RequestInv, HeldRequestHasLease
  <2>4. \A w \in ShardUnit : shard'[w] # shard[w] => shard[w].by = request[u].by
    BY <1>11, <2>3 DEF SweepFail, BoundToShard, TypeOK
  <2>5. job'.generation = job.generation
    BY <1>11, SyncGeneration DEF SweepFail, TypeOK
  <2> QED BY <1>7, <1>11, <2>2, <2>4, <2>5, CloseRow DEF SweepFail
<1>12. ASSUME NEW u \in Unit, NEW e \in Exec, SweepUnclaimable(u, e)
       PROVE  LeaseInv' /\ RequestInv'
  <2>1. QuietRequests
    BY <1>12, CloseRow, UnheldRequests DEF SweepUnclaimable, Held
  <2>2. job'.generation = job.generation
    BY <1>12 DEF SweepUnclaimable, TypeOK, JobRow
  <2>3. u[1] \in Node
    BY PlainNode
  <2>4. Quiet
    <3>1. CASE RecordFailure(u[1], e)
      BY <1>12, <2>2, <2>3, <3>1, FailureQuiet DEF SweepUnclaimable, Quiet
    <3>2. CASE UNCHANGED <<job, nodeStatus, exec>>
      BY <1>12, <3>2, FrameQuiet DEF SweepUnclaimable
    <3> QED BY <1>12, <3>1, <3>2 DEF SweepUnclaimable
  <2> QED BY <2>1, <2>4, QuietStep
<1> QED
  BY <1>1, <1>2, <1>3, <1>5, <1>6, <1>9, <1>10, <1>11, <1>12 DEF BrokerNext, SweepExpired

\* A reset finds no node to take: it is refused while one runs.
LEMMA MutationOwnership ==
  OwnershipInv /\ MutationNext => LeaseInv' /\ RequestInv'
<1> SUFFICES ASSUME OwnershipInv, MutationNext PROVE LeaseInv' /\ RequestInv'
  OBVIOUS
<1> USE InvParts
<1>1. ASSUME NEW S, CancelQueued(S), IsReset
      PROVE  LeaseInv' /\ RequestInv'
  <2>1. \A u \in Unit : request'[u] = request[u]
                       \/ (request[u].state \notin Held /\ request'[u].state \notin Held)
    BY <1>1 DEF CancelQueued, NoRequest, Held
  <2>2. exec' = exec
    BY <1>1 DEF IsReset
  <2> QED BY <1>1, <2>1, <2>2, ResetKeeps, ResetRequestsKeep
<1>2. ASSUME NEW n \in Node, NEW control \in JobRow,
             control.generation = job.generation, ~Busy, MarkForRerun(n, control)
      PROVE  LeaseInv' /\ RequestInv'
  <2>1. job'.generation = job.generation + 1
    BY <1>2 DEF MarkForRerun, JobRow
  <2>2. IsReset
    BY <1>2, <2>1 DEF MarkForRerun, IsReset, TypeOK
  <2> QED BY <1>1, <1>2, <2>2 DEF MarkForRerun
<1>3. ASSUME NEW n \in Node, Rerun(n) PROVE LeaseInv' /\ RequestInv'
  BY <1>2, <1>3 DEF Rerun, TypeOK
<1>4. ASSUME NEW g \in Gate, NEW n \in Node, Rework(g, n) PROVE LeaseInv' /\ RequestInv'
  BY <1>2, <1>4 DEF Rework, TypeOK
<1>5. ASSUME NEW t \in Node
      PROVE  UntilNode(job, t) \in JobRow /\ UntilNode(job, t).generation = job.generation
  BY DEF UntilNode, JobRow, TypeOK
<1>6. ASSUME NEW t \in Node, NEW n \in Node, RunToFrom(t, n) PROVE LeaseInv' /\ RequestInv'
  BY <1>2, <1>5, <1>6 DEF RunToFrom
<1>7. ASSUME NEW t \in Node, RunTo(t) PROVE LeaseInv' /\ RequestInv'
  <2>1. job'.generation = job.generation + 1
    BY <1>5, <1>7 DEF RunTo, JobRow
  <2>2. IsReset
    BY <1>7, <2>1 DEF RunTo, IsReset, TypeOK
  <2> QED BY <1>1, <1>7, <2>2 DEF RunTo
<1>8. ASSUME NEW g \in Gate, NEW verdict \in {"completed", "failed"}, Decide(g, verdict)
      PROVE  LeaseInv' /\ RequestInv'
  <2>1. job'.generation = job.generation
    BY <1>8, SyncGeneration DEF Decide, TypeOK
  <2>2. \A m \in Node : nodeStatus'[m] = "running" <=> nodeStatus[m] = "running"
    BY <1>8 DEF Decide, TypeOK
  <2>3. UNCHANGED <<nodeGen, shard, exec, request>>
    BY <1>8 DEF Decide
  <2>4. Quiet
    BY <2>1, <2>2, <2>3 DEF Quiet, KeepsLease, Unused
  <2> QED BY <2>3, <2>4, UnheldRequests, QuietStep
<1>9. ASSUME Pause \/ Resume \/ Continue PROVE LeaseInv' /\ RequestInv'
  <2>1. job'.generation = job.generation
    BY <1>9 DEF Pause, Resume, Continue, TypeOK, JobRow
  <2>2. Quiet /\ request' = request
    BY <1>9, <2>1, FrameQuiet DEF Pause, Resume, Continue
  <2> QED BY <2>2, UnheldRequests, QuietStep
<1> QED
  BY <1>3, <1>4, <1>6, <1>7, <1>8, <1>9 DEF MutationNext

-----------------------------------------------------------------------------
\* A new job has no attempt, no request and no running node.
LEMMA InitOwnership == Init => OwnershipInv
<1> SUFFICES ASSUME Init PROVE OwnershipInv
  OBVIOUS
<1>1. TypeOK
  BY InitType
<1>2. \A e \in Exec : ~Active(e) /\ exec[e] = UnusedExec
  BY DEF Init, Active, UnusedExec
<1>3. AttemptShape
  <2>1. job.generation = 0
    BY DEF Init
  <2>2. \A e \in Exec : exec[e].generation = 0 /\ exec[e].lease = "none"
    BY <1>2 DEF UnusedExec
  <2>3. \A e \in Exec : exec[e].generation <= job.generation
    BY <2>1, <2>2
  <2> QED BY <1>2, <2>2, <2>3 DEF AttemptShape
<1>4. LeaseOwnsNode /\ LeaseOwnsShard /\ NoDoubleExecution /\ RemoteLeaseIsTracked
  BY <1>2 DEF LeaseOwnsNode, LeaseOwnsShard, NoDoubleExecution, RemoteLeaseIsTracked
<1>5. RunningIsOwned
  BY DEF RunningIsOwned, Init
<1>6. RunsSettleWithLeases
  BY <1>2 DEF RunsSettleWithLeases, UnusedExec
<1>7. HeldRequestHasLease
  BY DEF HeldRequestHasLease, Held, Init, NoRequest
<1> QED BY <1>1, <1>3, <1>4, <1>5, <1>6, <1>7 DEF OwnershipInv, Ownership

\* OwnershipInv is inductive.
LEMMA OwnershipStep == OwnershipInv /\ [Next]_vars => OwnershipInv'
<1> SUFFICES ASSUME OwnershipInv, [Next]_vars PROVE OwnershipInv'
  OBVIOUS
<1>1. TypeOK'
  BY TypeStep DEF OwnershipInv
<1>2. LeaseInv' /\ RequestInv'
  <2>1. CASE UNCHANGED vars
    <3>1. Quiet /\ request' = request
      BY <2>1, InvParts, FrameQuiet DEF vars
    <3> QED BY <3>1, UnheldRequests, QuietStep
  <2>2. CASE Next
    BY <2>2, SchedulerOwnership, LeaseOwnership, BrokerOwnership, MutationOwnership DEF Next
  <2> QED BY <2>1, <2>2
<1> QED BY <1>1, <1>2 DEF OwnershipInv, Ownership, LeaseInv, RequestInv

\* An active lease owns its node or its shard, alone in its generation; every
\* running plain node, every open run and every held request has its lease.
\* Claims, results, sweeps and resets of any number of attempts never break it.
THEOREM OwnershipHolds == Spec => []Ownership
<1>1. Init => OwnershipInv
  BY InitOwnership
<1>2. OwnershipInv /\ [Next]_vars => OwnershipInv'
  BY OwnershipStep
<1>3. OwnershipInv => Ownership
  BY DEF OwnershipInv
<1> QED BY <1>1, <1>2, <1>3, PTL DEF Spec

\* In particular no unit is executed twice within a generation.
THEOREM NoDoubleExecutionHolds == Spec => []NoDoubleExecution
<1>1. Ownership => NoDoubleExecution
  BY DEF Ownership
<1> QED BY <1>1, OwnershipHolds, PTL

\* A live lease owns its node under its own, current generation.
THEOREM LeaseOwnsNodeHolds == Spec => []LeaseOwnsNode
<1>1. Ownership => LeaseOwnsNode
  BY DEF Ownership
<1> QED BY <1>1, OwnershipHolds, PTL

\* A running plain node has a live lease, and every running node the stamp the
\* orphan recovery wants.
THEOREM RunningIsOwnedHolds == Spec => []RunningIsOwned
<1>1. Ownership => RunningIsOwned
  BY DEF Ownership
<1> QED BY <1>1, OwnershipHolds, PTL

\* The Worker-loss sweep finds every live remote lease through its request.
THEOREM RemoteLeaseIsTrackedHolds == Spec => []RemoteLeaseIsTracked
<1>1. Ownership => RemoteLeaseIsTracked
  BY DEF Ownership
<1> QED BY <1>1, OwnershipHolds, PTL

\* It finds a lease row for every held request.
THEOREM HeldRequestHasLeaseHolds == Spec => []HeldRequestHasLease
<1>1. Ownership => HeldRequestHasLease
  BY DEF Ownership
<1> QED BY <1>1, OwnershipHolds, PTL

\* A run is open exactly while its lease is.
THEOREM RunsSettleWithLeasesHolds == Spec => []RunsSettleWithLeases
<1>1. Ownership => RunsSettleWithLeases
  BY DEF Ownership
<1> QED BY <1>1, OwnershipHolds, PTL

-----------------------------------------------------------------------------
(***************************************************************************)
(* The execution core implements FencedLock.  Under OwnershipInv a step of *)
(* the core is one of four things to the lock: nothing, a grant, a         *)
(* settlement or a fence.                                                  *)
(***************************************************************************)

\* The lock does not see the step.
Unseen == job'.generation = job.generation /\ \A e \in Exec : KeepsLease(e)
\* The step ends the lease of e and touches no other one.
Ends(e) ==
  /\ Active(e) /\ job'.generation = job.generation
  /\ exec'[e].lease \in {"released", "expired", "deleted"}
  /\ \A f \in Exec : f # e => exec'[f] = exec[f]
\* The step bumps the generation, with no node running.
Resets == ~Busy /\ job'.generation = job.generation + 1 /\ exec' = exec

-----------------------------------------------------------------------------
(* What each kind of step does to the lock.                                *)

LEMMA UnseenStutters ==
  ASSUME OwnershipInv, Unseen
  PROVE  UNCHANGED <<job.generation, Holds, Settled>>
<1>1. ASSUME NEW e \in Exec
      PROVE  /\ Active(e)' <=> Active(e)
             /\ exec'[e].lease = exec[e].lease
             /\ Active(e) => /\ exec'[e].unit = exec[e].unit
                             /\ exec'[e].generation = exec[e].generation
  BY DEF Unseen, KeepsLease, Active, Unused, OwnershipInv, AttemptShape
<1>2. Holds' = Holds
  BY <1>1 DEF Holds
<1>3. Settled' = Settled
  BY <1>1 DEF Settled
<1> QED BY <1>2, <1>3 DEF Unseen

LEMMA StartGrants ==
  ASSUME OwnershipInv, NEW u \in Unit, NEW e \in Exec, NEW lane, Started(u, e, lane)
  PROVE  Lock!Grant(e, u)
<1>1. exec[e].lease = "none"
  BY DEF Started, OwnershipInv, AttemptShape
<1>2. e \notin Settled /\ \A h \in Holds : h.attempt # e
  BY <1>1 DEF Settled, Holds, Active
<1>3. \A h \in Holds : h.resource = u => h.epoch # job.generation
  BY NoOwnerYet, InvParts DEF Started, Holds
<1>4. /\ exec'[e] = NewAttempt(u, lane)
      /\ \A f \in Exec : f # e => exec'[f] = exec[f]
      /\ job'.generation = job.generation
  BY DEF Started, OwnershipInv, TypeOK
<1>5. exec'[e].lease = "active" /\ exec'[e].unit = u /\ exec'[e].generation = job.generation
  BY <1>4 DEF NewAttempt
<1>6. Settled' = Settled
  BY <1>1, <1>4, <1>5 DEF Settled
<1>7. Holds' = Holds \cup {[attempt |-> e, resource |-> u, epoch |-> job.generation]}
  <2> DEFINE row(f) == [attempt |-> f, resource |-> exec[f].unit,
                        epoch |-> exec[f].generation]
  <2>1. \A f \in Exec : Active(f)' <=> f = e \/ Active(f)
    BY <1>4, <1>5 DEF Active
  <2>2. ~Active(e)
    BY <1>1 DEF Active
  <2>3. /\ row(e)' = [attempt |-> e, resource |-> u, epoch |-> job.generation]
        /\ \A f \in Exec : f # e => row(f)' = row(f)
    BY <1>4, <1>5
  <2>4. Holds = {row(f) : f \in {g \in Exec : Active(g)}}
    BY DEF Holds
  <2>5. Holds' = {row(f)' : f \in {g \in Exec : Active(g)'}}
    BY DEF Holds
  <2> HIDE DEF row
  <2> QED BY <2>1, <2>2, <2>3, <2>4, <2>5
<1> QED BY <1>2, <1>3, <1>4, <1>6, <1>7 DEF Lock!Grant

LEMMA EndSettles ==
  ASSUME OwnershipInv, NEW e \in Exec, Ends(e)
  PROVE  \E h \in Holds : Lock!Settle(h)
<1> DEFINE row(f) == [attempt |-> f, resource |-> exec[f].unit,
                      epoch |-> exec[f].generation]
           active == {f \in Exec : Active(f)}
<1>1. row(e) \in Holds
  BY DEF Holds, Ends
<1>2. \A f \in Exec : Active(f)' <=> f # e /\ Active(f)
  BY DEF Ends, Active
<1>3. Holds' = Holds \ {row(e)}
  <2>1. Holds = {row(f) : f \in active} /\ Holds' = {row(f)' : f \in active'}
    BY DEF Holds
  <2>2. active' = active \ {e}
    BY <1>2
  <2>3. \A f \in active \ {e} : row(f)' = row(f)
    BY DEF Ends
  <2>4. \A f \in active \ {e} : row(f) # row(e)
    OBVIOUS
  <2> HIDE DEF row, active
  <2> QED BY <2>1, <2>2, <2>3, <2>4
<1>4. Settled' = Settled \cup {e}
  BY DEF Settled, Ends
<1>5. row(e).attempt = e
  OBVIOUS
<1>6. job'.generation = job.generation
  BY DEF Ends
<1>7. Lock!Settle(row(e))
  <2> HIDE DEF row
  <2> QED BY <1>1, <1>3, <1>4, <1>5, <1>6 DEF Lock!Settle
<1> QED BY <1>1, <1>7

LEMMA ResetFences ==
  ASSUME OwnershipInv, Resets
  PROVE  Lock!Fence
<1>1. \A h \in Holds : h.resource \in ShardUnit
  <2> SUFFICES ASSUME NEW e \in Exec, Active(e), exec[e].unit \notin ShardUnit
               PROVE  FALSE
    BY DEF Holds
  <2>1. exec[e].unit \in Unit /\ nodeStatus[NodeOf(e)] = "running"
    BY DEF OwnershipInv, Ownership, AttemptShape, LeaseOwnsNode
  <2>2. NodeOf(e) \in Node
    BY <2>1, PlainNode DEF NodeOf
  <2> QED BY <2>1, <2>2 DEF Resets, Busy
<1>2. Holds' = Holds /\ Settled' = Settled
  BY DEF Holds, Settled, Active, Resets
<1> QED BY <1>1, <1>2 DEF Lock!Fence, Resets

-----------------------------------------------------------------------------
(* The actions, by component.                                              *)

LockStep == Lock!LockNext \/ UNCHANGED <<job.generation, Holds, Settled>>

LEMMA Steps ==
  ASSUME OwnershipInv
  PROVE  /\ Unseen => LockStep
         /\ \A u \in Unit, e \in Exec : Started(u, e, "local") => LockStep
         /\ \A u \in Unit, e \in Exec : Started(u, e, "remote") => LockStep
         /\ \A e \in Exec : Ends(e) => LockStep
         /\ Resets => LockStep
<1>1. Unseen => LockStep
  BY UnseenStutters DEF LockStep
<1>2. \A u \in Unit, e \in Exec : Started(u, e, "local") => LockStep
  BY StartGrants DEF LockStep, Lock!LockNext
<1>3. \A u \in Unit, e \in Exec : Started(u, e, "remote") => LockStep
  BY StartGrants DEF LockStep, Lock!LockNext
<1>4. \A e \in Exec : Ends(e) => LockStep
  BY EndSettles DEF LockStep, Lock!LockNext
<1>5. Resets => LockStep
  BY ResetFences DEF LockStep, Lock!LockNext
<1> QED BY <1>1, <1>2, <1>3, <1>4, <1>5

\* A step that leaves the attempts alone and keeps the generation.
LEMMA FrameUnseen ==
  ASSUME job'.generation = job.generation, exec' = exec
  PROVE  Unseen
BY DEF Unseen, KeepsLease, Unused

LEMMA SchedulerSteps == OwnershipInv /\ SchedulerNext => LockStep
<1> SUFFICES ASSUME OwnershipInv, SchedulerNext PROVE LockStep
  OBVIOUS
<1> USE InvParts
<1>1. CASE ReadJob \/ Evaluate \/ \E u \in Unit : Dispatch(u)
  BY <1>1, FrameUnseen, Steps DEF ReadJob, Evaluate, Dispatch, rows
<1>2. ASSUME NEW n \in Sharded, NEW inputs \in SUBSET Shard, MaterializeShards(n, inputs)
      PROVE  LockStep
  <2>1. job'.generation = job.generation /\ exec' = exec
    BY <1>2, SyncGeneration DEF MaterializeShards, TypeOK
  <2> QED BY <2>1, FrameUnseen, Steps
<1>3. ASSUME NEW f \in inflight, Enqueue(f) PROVE LockStep
  BY <1>3, FrameUnseen, Steps DEF Enqueue
<1>4. ASSUME NEW u \in Unit, NEW e \in Exec, ClaimLocal(u, e) PROVE LockStep
  <2>1. Started(u, e, "local")
    BY <1>4 DEF Started, ClaimLocal, TypeOK, JobRow
  <2> QED BY <2>1, Steps
<1>5. ASSUME NEW g \in Gate, Park(g) PROVE LockStep
  <2>1. job'.generation = job.generation /\ exec' = exec
    BY <1>5, SyncGeneration DEF Park, TypeOK
  <2> QED BY <2>1, FrameUnseen, Steps
<1>6. ASSUME NEW n \in Node, NEW e \in Exec, RecordFailure(n, e),
             job' = SyncJob(job, nodeStatus')
      PROVE  LockStep
  <2>1. job'.generation = job.generation
    BY <1>6, SyncGeneration DEF TypeOK
  <2>2. Unseen
    BY <1>6, <2>1, FailureQuiet DEF Unseen
  <2> QED BY <2>2, Steps
<1>7. ASSUME NEW n \in Node, NEW e \in Exec, FailConfig(n, e) PROVE LockStep
  BY <1>6, <1>7 DEF FailConfig
<1>8. ASSUME NEW f \in inflight, NEW e \in Exec, FailEnqueue(f, e) PROVE LockStep
  <2>1. f.unit[1] \in Node
    BY UnitType DEF TypeOK, AnyUnit
  <2>2. CASE UNCHANGED <<job, nodeStatus, exec>>
    BY <2>2, FrameUnseen, Steps
  <2> QED BY <1>6, <1>8, <2>1, <2>2 DEF FailEnqueue
<1> QED
  BY <1>1, <1>2, <1>3, <1>4, <1>5, <1>7, <1>8 DEF SchedulerNext

LEMMA LeaseSteps == OwnershipInv /\ LeaseNext => LockStep
<1> SUFFICES ASSUME OwnershipInv, LeaseNext PROVE LockStep
  OBVIOUS
<1> USE InvParts
<1>1. ASSUME NEW e \in Exec, NEW outcome, BoundToShard(e), SettleShard(e, outcome)
      PROVE  job'.generation = job.generation
  BY <1>1, SyncGeneration DEF SettleShard, TypeOK
<1>2. ASSUME NEW e \in Exec, NEW outcome \in Outcomes, Finish(e, outcome)
      PROVE  LockStep
  <2> DEFINE settled == IF outcome = "completed" THEN "completed" ELSE "failed"
  <2>1. EndAttempt(e, "released", settled) /\ Active(e)
    BY <1>2 DEF Finish
  <2>2. job'.generation = job.generation
    <3>1. CASE BoundToShard(e)
      BY <1>1, <1>2, <3>1 DEF Finish
    <3>2. CASE ~BoundToShard(e) /\ ~Stale(e)
      BY <1>2, <3>2, SyncGeneration DEF Finish, SettleNode, TypeOK
    <3> QED BY <1>2, <3>1, <3>2 DEF Finish
  <2>3. Ends(e)
    <3> HIDE DEF settled
    <3> QED BY <2>1, <2>2, EndRow DEF Ends
  <2> QED BY <2>3, Steps
<1>3. ASSUME NEW e \in Exec, ExpireLocal(e) PROVE LockStep
  <2>1. EndAttempt(e, "expired", "failed") /\ Active(e)
    BY <1>3 DEF ExpireLocal
  <2>2. job'.generation = job.generation
    <3>1. CASE BoundToShard(e)
      BY <1>1, <1>3, <3>1 DEF ExpireLocal
    <3>2. CASE ~BoundToShard(e)
      BY <1>3, <3>2 DEF ExpireLocal, TypeOK, JobRow
    <3> QED BY <3>1, <3>2
  <2>3. Ends(e)
    BY <2>1, <2>2, EndRow DEF Ends
  <2> QED BY <2>3, Steps
<1>4. CASE Recover
  <2>1. exec' = exec
    BY <1>4 DEF Recover, TypeOK, LeaseInv, RunsSettleWithLeases
  <2>2. job'.generation = job.generation
    BY <1>4, SyncGeneration DEF Recover, TypeOK
  <2> QED BY <2>1, <2>2, FrameUnseen, Steps
<1>5. ASSUME NEW e \in Exec, Heartbeat(e) \/ FallSilent(e) PROVE LockStep
  <2>1. \A f \in Exec : KeepsLease(f)
    BY <1>5, SignalKeeps DEF Heartbeat, FallSilent
  <2> QED BY <1>5, <2>1, Steps DEF Heartbeat, FallSilent, Unseen
<1> QED
  BY <1>2, <1>3, <1>4, <1>5 DEF LeaseNext

LEMMA BrokerSteps == OwnershipInv /\ BrokerNext => LockStep
<1> SUFFICES ASSUME OwnershipInv, BrokerNext PROVE LockStep
  OBVIOUS
<1> USE InvParts
<1>1. ASSUME NEW u \in Unit, NEW e \in Exec, ClaimRemote(u, e) PROVE LockStep
  <2>1. Started(u, e, "remote")
    BY <1>1 DEF Started, ClaimRemote, TypeOK, JobRow
  <2> QED BY <2>1, Steps
<1>2. ASSUME NEW u \in Unit, CancelAtClaim(u) \/ SweepStaleQueued(u) \/ Release(u)
      PROVE  LockStep
  BY <1>2, FrameUnseen, Steps DEF CancelAtClaim, SweepStaleQueued, Release
<1>3. ASSUME NEW e \in Exec, MarkDone(e) PROVE LockStep
  BY <1>3, SignalKeeps, Steps DEF MarkDone, Unseen
<1>4. ASSUME NEW u \in Unit, SweepSettled(u) PROVE LockStep
  <2>1. request[u].by \in Exec
    BY <1>4 DEF SweepSettled, SweepCandidate, RequestInv, HeldRequestHasLease
  <2> QED BY <1>4, <2>1, SignalKeeps, Steps DEF SweepSettled, Unseen
<1>5. ASSUME NEW u \in Unit, SweepCandidate(u), Active(request[u].by),
             DeleteLease(request[u].by), job'.generation = job.generation
      PROVE  LockStep
  <2>1. request[u].by \in Exec
    BY <1>5 DEF SweepCandidate, RequestInv, HeldRequestHasLease
  <2>2. Ends(request[u].by)
    BY <1>5, <2>1, DeleteRow DEF Ends
  <2> QED BY <2>1, <2>2, Steps
<1>6. ASSUME NEW u \in Unit, SweepCancel(u) \/ SweepRequeue(u) PROVE LockStep
  BY <1>5, <1>6 DEF SweepCancel, SweepRequeue
<1>7. ASSUME NEW u \in Unit, SweepFail(u) PROVE LockStep
  <2>1. job'.generation = job.generation
    BY <1>7, SyncGeneration DEF SweepFail, TypeOK
  <2> QED BY <1>5, <1>7, <2>1 DEF SweepFail
<1>8. ASSUME NEW u \in Unit, NEW e \in Exec, SweepUnclaimable(u, e) PROVE LockStep
  <2>1. job'.generation = job.generation
    BY <1>8 DEF SweepUnclaimable, TypeOK, JobRow
  <2>2. u[1] \in Node
    BY PlainNode
  <2>3. CASE RecordFailure(u[1], e)
    BY <2>1, <2>2, <2>3, FailureQuiet, Steps DEF Unseen
  <2>4. CASE exec' = exec
    BY <2>1, <2>4, FrameUnseen, Steps
  <2> QED BY <1>8, <2>3, <2>4 DEF SweepUnclaimable
<1> QED
  BY <1>1, <1>2, <1>3, <1>4, <1>6, <1>7, <1>8 DEF BrokerNext, SweepExpired

LEMMA MutationSteps == OwnershipInv /\ MutationNext => LockStep
<1> SUFFICES ASSUME OwnershipInv, MutationNext PROVE LockStep
  OBVIOUS
<1> USE InvParts
<1>1. ASSUME NEW n \in Node, NEW control \in JobRow,
             control.generation = job.generation, ~Busy, MarkForRerun(n, control)
      PROVE  LockStep
  <2>1. job'.generation = job.generation + 1 /\ exec' = exec
    BY <1>1 DEF MarkForRerun, JobRow
  <2> QED BY <1>1, <2>1, Steps DEF Resets
<1>2. ASSUME NEW n \in Node, Rerun(n) PROVE LockStep
  BY <1>1, <1>2 DEF Rerun, TypeOK
<1>3. ASSUME NEW g \in Gate, NEW n \in Node, Rework(g, n) PROVE LockStep
  BY <1>1, <1>3 DEF Rework, TypeOK
<1>4. ASSUME NEW t \in Node
      PROVE  UntilNode(job, t) \in JobRow /\ UntilNode(job, t).generation = job.generation
  BY DEF UntilNode, JobRow, TypeOK
<1>5. ASSUME NEW t \in Node, NEW n \in Node, RunToFrom(t, n) PROVE LockStep
  BY <1>1, <1>4, <1>5 DEF RunToFrom
<1>6. ASSUME NEW t \in Node, RunTo(t) PROVE LockStep
  <2>1. job'.generation = job.generation + 1 /\ exec' = exec /\ ~Busy
    BY <1>4, <1>6 DEF RunTo, JobRow
  <2> QED BY <2>1, Steps DEF Resets
<1>7. ASSUME NEW g \in Gate, NEW verdict \in {"completed", "failed"}, Decide(g, verdict)
      PROVE  LockStep
  <2>1. job'.generation = job.generation /\ exec' = exec
    BY <1>7, SyncGeneration DEF Decide, TypeOK
  <2> QED BY <2>1, FrameUnseen, Steps
<1>8. ASSUME Pause \/ Resume \/ Continue PROVE LockStep
  <2>1. job'.generation = job.generation /\ exec' = exec
    BY <1>8 DEF Pause, Resume, Continue, TypeOK, JobRow
  <2> QED BY <2>1, FrameUnseen, Steps
<1> QED
  BY <1>2, <1>3, <1>5, <1>6, <1>7, <1>8 DEF MutationNext

-----------------------------------------------------------------------------
\* Leases implement the fenced lock: in every workflow and for any number of
\* attempts, shards, sweeps and resets, a claim is a grant of a unit nobody
\* holds in this generation, a lease ends once and alone, and the generation
\* only rises while no lease of a plain node is active.
THEOREM ImplementsFencedLock == Spec => LeasesAreFencedLock
<1>1. Init => Lock!Start
  <2> SUFFICES ASSUME Init PROVE Lock!Start
    OBVIOUS
  <2>1. job.generation = 0
    BY DEF Init
  <2>2. \A e \in Exec : exec[e].lease = "none"
    BY DEF Init, UnusedExec
  <2>3. Holds = {} /\ Settled = {}
    BY <2>2 DEF Holds, Settled, Active
  <2> QED BY <2>1, <2>3 DEF Lock!Start
<1>2. OwnershipInv /\ [Next]_vars => [Lock!LockNext]_(Lock!lockVars)
  <2> SUFFICES ASSUME OwnershipInv, [Next]_vars PROVE LockStep
    BY DEF LockStep, Lock!lockVars
  <2>1. CASE UNCHANGED vars
    <3>1. job'.generation = job.generation /\ exec' = exec
      BY <2>1 DEF vars
    <3> QED BY <3>1, FrameUnseen, Steps
  <2>2. CASE Next
    BY <2>2, SchedulerSteps, LeaseSteps, BrokerSteps, MutationSteps DEF Next
  <2> QED BY <2>1, <2>2
<1>3. Spec => []OwnershipInv
  <2>1. Init => OwnershipInv
    BY InitOwnership
  <2>2. OwnershipInv /\ [Next]_vars => OwnershipInv'
    BY OwnershipStep
  <2> QED BY <2>1, <2>2, PTL DEF Spec
<1> QED BY <1>1, <1>2, <1>3, PTL DEF Spec, LeasesAreFencedLock, Lock!LockSpec

=============================================================================
