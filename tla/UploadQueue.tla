---------------------------- MODULE UploadQueue ----------------------------
(***************************************************************************)
(* The delivery of a result after the process ended: the bulk lane, the    *)
(* report lane with its retries, and the teardown that lets the next       *)
(* attempt into the directory.  A task ends when the Host has answered     *)
(* for good, when its lease is condemned, or, with its marker kept for     *)
(* the next start, when it is aborted.                                     *)
(***************************************************************************)
EXTENDS WorkerState

At(l, stage) == task[l].stage = stage
Goto(l, stage) == task' = [task EXCEPT ![l].stage = stage]

\* LaneScheduler._pump_locked: a task starts when a slot is free.  The slots
\* are taken and given back by other executions' deliveries as well.
FreeSlots == Lanes - others - (IF \E l \in Lease : InLane(l) THEN 1 ELSE 0)

OtherStarts ==
  /\ FreeSlots > 0
  /\ others' = others + 1
  /\ UNCHANGED <<hostVars, threadVars, dir, beatVars, queueVars, crashes>>

OtherEnds ==
  /\ others > 0
  /\ others' = others - 1
  /\ UNCHANGED <<hostVars, threadVars, dir, beatVars, queueVars, crashes>>

\* _deliver_bulk arms the lease with register_upload: it never displaces the
\* entry of a newer attempt, and is condemned by finding one.
Arm(l) ==
  /\ At(l, "queued")
  /\ FreeSlots > 0
  /\ \/ /\ entry # None /\ entry.lease # l
        /\ lost' = [lost EXCEPT ![l].task = TRUE]
        /\ Goto(l, "bulk")
        /\ UNCHANGED entry
     \/ /\ entry # None => entry.lease = l
        /\ lost' = [lost EXCEPT ![l].task = @ \/ (Mine(l) /\ Condemned(entry))]
        /\ entry' = [lease |-> l, era |-> "task", quiesced |-> FALSE]
        /\ task' = [task EXCEPT ![l].stage = "bulk", ![l].rebound = Mine(l)]
  /\ UNCHANGED <<hostVars, threadVars, dir, active, depth, beat, others, crashes>>

\* _bulk_transfer ran through: the archive is final, the report lane is next.
BulkDone(l) ==
  /\ At(l, "bulk")
  /\ Goto(l, "ready")
  /\ UNCHANGED <<hostVars, threadVars, dir, beatVars, active, depth, others, crashes>>

\* One of its checks, or an interrupted transfer, saw the lease condemned.
BulkLost(l) ==
  /\ At(l, "bulk")
  /\ lost[l].task
  /\ Goto(l, "dropping")
  /\ UNCHANGED <<hostVars, threadVars, dir, beatVars, active, depth, others, crashes>>

\* It raised: aborted, the marker is kept.
BulkCrash(l) ==
  /\ At(l, "bulk")
  /\ ~lost[l].task
  /\ Goto(l, "finalize")
  /\ UNCHANGED <<hostVars, threadVars, dir, beatVars, active, depth, others, crashes>>

\* report_task: quiesce, then one attempt per turn of the loop.
StartReport(l) ==
  /\ At(l, "ready")
  /\ FreeSlots > 0
  /\ SetQuiesced(l, TRUE)
  /\ Goto(l, "loop")
  /\ UNCHANGED <<hostVars, threadVars, dir, lost, beat, active, depth, others, crashes>>

Send(l) ==
  /\ At(l, "loop")
  /\ ~lost[l].task
  /\ Goto(l, "sent")
  /\ flying' = flying \cup {l}
  /\ UNCHANGED <<host, closed, threadVars, dir, beatVars, active, depth, others, crashes>>

\* The check at the head of the loop, or TransferStopped within the request.
ReportLost(l) ==
  /\ At(l, "loop") \/ At(l, "sent")
  /\ lost[l].task
  /\ task' = [task EXCEPT ![l].stage = "dropping", ![l].answer = "none"]
  /\ UNCHANGED <<hostVars, threadVars, dir, beatVars, active, depth, others, crashes>>

\* Faulty: the backoff does not resume the beats.
TransportFailsSilently(l) ==
  /\ At(l, "sent")
  /\ task' = [task EXCEPT ![l].stage = "backoff", ![l].answer = "none"]
  /\ UNCHANGED <<hostVars, threadVars, dir, beatVars, active, depth, others, crashes>>

\* A network error or a transient status, whatever became of the request:
\* beats resume for the time of the backoff.
TransportFails(l) ==
  /\ At(l, "sent")
  /\ task' = [task EXCEPT ![l].stage = "backoff", ![l].answer = "none"]
  /\ SetQuiesced(l, FALSE)
  /\ UNCHANGED <<hostVars, threadVars, dir, lost, beat, active, depth, others, crashes>>

\* The backoff, or the rewriting of the archive, is over.
RetryReport(l) ==
  /\ At(l, "backoff") \/ At(l, "rewriting")
  /\ SetQuiesced(l, TRUE)
  /\ Goto(l, "loop")
  /\ UNCHANGED <<hostVars, threadVars, dir, lost, beat, active, depth, others, crashes>>

\* Faulty: an authentication failure is taken for a verdict on the result.
ReceiveFinalAny(l) ==
  /\ At(l, "sent") /\ task[l].answer \in {"204", "409", "401"}
  /\ Goto(l, "dropping")
  /\ UNCHANGED <<hostVars, threadVars, dir, beatVars, active, depth, others, crashes>>

\* 204 and 409 are final; 401 aborts and keeps the marker.
ReceiveFinal(l) ==
  /\ At(l, "sent") /\ task[l].answer \in {"204", "409", "401"}
  /\ Goto(l, IF task[l].answer = "401" THEN "finalize" ELSE "dropping")
  /\ UNCHANGED <<hostVars, threadVars, dir, beatVars, active, depth, others, crashes>>

\* ReportDegradeGate.on_rejection: the archive is rewritten to report a
\* failure, once, and once more when the first rewrite kept the archive.
Degrade(answer, degraded) ==
  IF answer = "413" /\ degraded # "recycled" THEN {"recycled"}
  ELSE IF answer = "4xx" /\ degraded = "no" THEN {"kept", "recycled"}
  ELSE {}

ReceiveRejection(l) ==
  /\ At(l, "sent") /\ task[l].answer \in {"413", "4xx"}
  /\ LET rewritten == Degrade(task[l].answer, task[l].degraded)
     IN \/ /\ rewritten = {}
           /\ Goto(l, "dropping")
           /\ UNCHANGED entry
        \/ /\ \E d \in rewritten :
                task' = [task EXCEPT ![l].stage = "rewriting", ![l].answer = "none",
                                     ![l].degraded = d]
           /\ SetQuiesced(l, FALSE)
  /\ UNCHANGED <<hostVars, threadVars, dir, lost, beat, active, depth, others, crashes>>

\* drop_marker: another lease's marker is kept; the directory goes with it
\* when it is provably this lease's, and in any case after a delivery.
Dropped(l) ==
  LET unmarked == IF dir.marker \in {None, l} THEN [dir EXCEPT !.marker = None] ELSE dir
  IN IF \/ task[l].answer = "204"
        \/ unmarked.marker = None /\ unmarked.owner = l
     THEN NoDir ELSE unmarked

Drop(l) ==
  /\ At(l, "dropping")
  /\ dir' = Dropped(l)
  /\ Goto(l, "finalize")
  /\ UNCHANGED <<hostVars, threadVars, beatVars, active, depth, others, crashes>>

\* Anything else that raises in the report lane: aborted, the marker is kept.
ReportCrash(l) ==
  /\ task[l].stage \in {"loop", "sent", "rewriting", "dropping"}
  /\ Goto(l, "finalize")
  /\ UNCHANGED <<hostVars, threadVars, dir, beatVars, active, depth, others, crashes>>

\* Faulty: the slot is released only by a task that still has its entry,
FinalizeIfRegistered(l) ==
  /\ At(l, "finalize")
  /\ Mine(l)
  /\ entry' = None
  /\ active' = IF active = l THEN None ELSE active
  /\ depth' = depth - 1
  /\ task' = [task EXCEPT ![l] = DoneTask]
  /\ UNCHANGED <<hostVars, threadVars, dir, lost, beat, others, crashes>>

\* _finalize: stop the beats, then let the next attempt in.
Finalize(l) ==
  /\ At(l, "finalize")
  /\ Prune(l)
  /\ active' = IF active = l THEN None ELSE active
  /\ depth' = depth - 1
  /\ task' = [task EXCEPT ![l] = DoneTask]
  /\ UNCHANGED <<hostVars, threadVars, dir, lost, beat, others, crashes>>

TaskStep(l) ==
  \/ Arm(l)
  \/ BulkDone(l)
  \/ BulkLost(l)
  \/ BulkCrash(l)
  \/ StartReport(l)
  \/ Send(l)
  \/ ReportLost(l)
  \/ TransportFails(l)
  \/ RetryReport(l)
  \/ ReceiveFinal(l)
  \/ ReceiveRejection(l)
  \/ Drop(l)
  \/ ReportCrash(l)
  \/ Finalize(l)
=============================================================================
