--------------------------- MODULE JobStatusSync ---------------------------
(***************************************************************************)
(* sync_job_status against the operators who take no lock.  The execution  *)
(* core takes a finish as one step, because everything that writes nodes   *)
(* holds the job-mutation lock.  Pause, resume and continue hold no lock:  *)
(* they are single guarded updates of the jobs row, and READ COMMITTED     *)
(* lets them land between two statements of a sync.  Here a finish is the  *)
(* statements it consists of, up to its update of the jobs row; from there *)
(* on the row lock keeps everybody out until the commit.  Approval gates   *)
(* have no part in it and are left out.                                    *)
(***************************************************************************)
EXTENDS Naturals

CONSTANTS Node, NoTarget, Idle

VARIABLES
  job,        \* jobs: status, execution_paused, pause_reason, target_node_key
  nodeStatus, \* job_nodes.status, as committed
  tx,         \* the transaction that holds the job-mutation lock, or Idle
  continuing  \* what a resume_job has read and not written yet, or Idle

vars == <<job, nodeStatus, tx, continuing>>

Terminal == {"completed", "failed"}

\* The statuses sync_job_status derives, in the order of its queries.
Derived(ns, paused) ==
  IF \E n \in Node : ns[n] = "running" THEN "running"
  ELSE IF \E n \in Node : ns[n] = "failed" THEN "failed"
  ELSE IF paused THEN "paused"
  ELSE IF \A n \in Node : ns[n] = "completed" THEN "completed"
  ELSE "queued"

Init ==
  /\ job \in [status : {"queued"}, paused : {FALSE}, reason : {""},
              target : Node \cup {NoTarget}]
  /\ nodeStatus = [n \in Node |-> "pending"]
  /\ tx = Idle
  /\ continuing = Idle

\* A claim, in a transaction of its own.
Claim(n) ==
  /\ tx = Idle
  /\ nodeStatus[n] = "pending"
  /\ ~job.paused /\ job.status \notin Terminal \cup {"paused"}
  /\ nodeStatus' = [nodeStatus EXCEPT ![n] = "running"]
  /\ job' = [job EXCEPT !.status = "running"]
  /\ UNCHANGED <<tx, continuing>>

\* finish_lease: the lock, and the node's new status in the open transaction.
BeginFinish(n, outcome) ==
  /\ tx = Idle
  /\ nodeStatus[n] = "running"
  /\ tx' = [node |-> n, nodes |-> [nodeStatus EXCEPT ![n] = outcome], status |-> "unread"]
  /\ UNCHANGED <<job, nodeStatus, continuing>>

\* sync_job_status up to the decision: node statuses, then execution_paused.
SyncRead ==
  /\ tx # Idle /\ tx.status = "unread"
  /\ tx' = [tx EXCEPT !.status = Derived(tx.nodes, job.paused)]
  /\ UNCHANGED <<job, nodeStatus, continuing>>

\* The update of jobs.status, _pause_job_on_target_completion, the commit.
SyncWrite ==
  /\ tx # Idle /\ tx.status # "unread"
  /\ LET reached == /\ tx.nodes[tx.node] = "completed"
                    /\ job.target = tx.node /\ tx.status # "completed"
     IN job' = IF reached
               THEN [job EXCEPT !.status = "paused", !.paused = TRUE,
                                !.reason = "target_reached"]
               ELSE [job EXCEPT !.status = tx.status]
  /\ nodeStatus' = tx.nodes
  /\ tx' = Idle
  /\ UNCHANGED continuing

\* mark_execution_paused
Pause ==
  /\ ~job.paused /\ job.status \notin Terminal
  /\ job' = [job EXCEPT !.paused = TRUE, !.reason = "operator"]
  /\ UNCHANGED <<nodeStatus, tx, continuing>>

\* clear_execution_paused
Resume ==
  /\ job.paused /\ job.reason # "target_reached"
  /\ job' = [job EXCEPT !.paused = FALSE, !.reason = "",
                        !.status = IF @ = "paused" THEN "queued" ELSE @]
  /\ UNCHANGED <<nodeStatus, tx, continuing>>

\* resume_job: the select that picks the branch,
ContinueRead ==
  /\ continuing = Idle /\ job.status = "paused"
  /\ continuing' = job.reason
  /\ UNCHANGED <<job, nodeStatus, tx>>

\* and the update guarded by what was read, or the conflict.
ContinueWrite ==
  /\ continuing # Idle
  /\ job' = IF job.status = "paused" /\ job.reason = continuing
            THEN [job EXCEPT !.status = "queued", !.paused = FALSE, !.reason = "",
                             !.target = IF continuing = "target_reached" THEN NoTarget ELSE @]
            ELSE job
  /\ continuing' = Idle
  /\ UNCHANGED <<nodeStatus, tx>>

Next ==
  \/ \E n \in Node : Claim(n)
  \/ \E n \in Node, outcome \in {"completed", "failed", "pending"} : BeginFinish(n, outcome)
  \/ SyncRead
  \/ SyncWrite
  \/ Pause
  \/ Resume
  \/ ContinueRead
  \/ ContinueWrite
Spec == Init /\ [][Next]_vars

\* execution_pause.py: a resumed job "already projected to status='paused' (no
\* running nodes left) returns to queued so dispatch re-enables it".  The
\* projection is therefore never left behind by a resume: a job that reads
\* paused is one whose flag is set, and which a resume can release.
PausedStatusIsHeld == job.status = "paused" => job.paused
=============================================================================
