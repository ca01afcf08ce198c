------------------------ MODULE ResultCommitBatcher ------------------------
(***************************************************************************)
(* The group commit of results: commit threads park their terminal writes  *)
(* on a queue, one writer drains it, runs all finishes in one transaction  *)
(* and all request closes in another, and hands the verdicts back.  A      *)
(* commit thread that comes after stop() writes for itself.                *)
(***************************************************************************)
EXTENDS TransactionLocks

CONSTANTS
  MaxItems,    \* MAX_ITEMS_PER_TRANSACTION
  Claimed,     \* the jobs of a batch of claims
  MaxAttempts  \* attempts of retry_on_database_conflict

ASSUME BatcherAssumption == /\ {MaxItems, MaxAttempts} \subseteq Nat \ {0}
                            /\ Claimed \subseteq 1..Jobs

VARIABLES
  reports,  \* the execution a commit thread reports on, twice for a repeated report
  lease,    \* executor_leases: "active", "released", or "gone" when swept
  request,  \* agent_execution_requests: "claimed", "done", "queued"
  sub,      \* the commit threads
  queue,    \* items and the sentinel of stop()
  gate,     \* the events _closed and _stop
  writer,   \* where the writer is, and the arm calls of its round
  attempt   \* conflict retries of a transaction so far

rows == <<lease, request, reports>>
batcher == <<sub, queue, gate, writer, attempt>>

ExecOf(s) == reports[s]

Parked == {"finishing", "closing"}
Sentinel == [by |-> None, kind |-> "stop"]
ItemOf(s) == [by |-> s, kind |-> IF sub[s] = "finishing" THEN "finish" ELSE "mark_done"]

BatcherInit ==
  /\ reports \in [Sub -> Exec] /\ reports[1] = 1
  /\ lease = [e \in Exec |-> "active"]
  /\ request = [e \in Exec |-> "claimed"]
  /\ sub = [s \in Sub |-> "ready"]
  /\ queue = <<>>
  /\ gate = [closed |-> FALSE, stop |-> FALSE]
  /\ writer = [at |-> "loop", calls |-> <<>>]
  /\ attempt = [t \in Tx |-> 0]

----------------------------------------------------------------------------
(***************************************************************************)
(* submit() and stop(), each under the batcher's lock.                     *)
(***************************************************************************)
Enqueue(s, kind) ==
  IF ~gate.closed
  THEN queue' = Append(queue, [by |-> s, kind |-> kind]) /\ UNCHANGED plan
  ELSE /\ plan' = [plan EXCEPT ![s] = IF kind = "mark_done" THEN <<Request(ExecOf(s))>>
                                      ELSE <<Job(ExecOf(s)), Lease(ExecOf(s))>>]
       /\ UNCHANGED queue

\* finish_via_batcher, then mark_done of a commit whose finish applied.
Submit(s) ==
  /\ \/ /\ sub[s] = "ready"
        /\ sub' = [sub EXCEPT ![s] = "finishing"]
        /\ Enqueue(s, "finish")
     \/ /\ sub[s] = "finished"
        /\ sub' = [sub EXCEPT ![s] = "closing"]
        /\ Enqueue(s, "mark_done")
  /\ UNCHANGED <<rows, holder, begun, gate, writer, attempt>>

Stop ==
  /\ ~gate.closed
  /\ gate' = [closed |-> TRUE, stop |-> TRUE]
  /\ queue' = Append(queue, Sentinel)
  /\ UNCHANGED <<rows, lockVars, sub, writer, attempt>>

----------------------------------------------------------------------------
(***************************************************************************)
(* The writer's loop, between two arm calls.                               *)
(***************************************************************************)
Call(items, grouped) == [items |-> items, grouped |-> grouped]

\* The items of one kind, in the order of the queue.
OfKind(batch, kind) ==
  LET order == Ascending({i \in DOMAIN batch : batch[i].kind = kind})
  IN [p \in DOMAIN order |-> batch[order[p]]]

\* _run_batch: the round's finishes, then its request closes.
Calls(batch) ==
  LET call(kind) == IF OfKind(batch, kind) = <<>> THEN <<>> ELSE <<Call(OfKind(batch, kind), TRUE)>>
  IN call("finish") \o call("mark_done")

LoopTest ==
  /\ writer.at = "loop" /\ writer.calls = <<>>
  /\ writer' = [writer EXCEPT !.at = IF gate.stop THEN "drain" ELSE "get"]
  /\ UNCHANGED <<rows, lockVars, sub, queue, gate, attempt>>

\* One blocking get, then whatever has arrived, up to the bound or the sentinel.
TakeBatch ==
  /\ writer.at = "get" /\ queue # <<>>
  /\ LET upTo == IF Len(queue) < MaxItems THEN Len(queue) ELSE MaxItems
         ends == {i \in 1..upTo : queue[i] = Sentinel}
         size == IF ends = {} THEN upTo ELSE (CHOOSE i \in ends : TRUE) - 1
         seen == ends # {}
     IN /\ queue' = SubSeq(queue, (IF seen THEN size + 2 ELSE size + 1), Len(queue))
        /\ gate' = [gate EXCEPT !.stop = @ \/ seen]
        /\ writer' = [at |-> "loop", calls |-> Calls(SubSeq(queue, 1, size))]
  /\ UNCHANGED <<rows, lockVars, sub, attempt>>

\* _drain_remaining: what is left, one by one; then the thread ends.
Drain ==
  /\ writer.at = "drain" /\ writer.calls = <<>>
  /\ IF queue = <<>>
     THEN writer' = [writer EXCEPT !.at = "dead"] /\ UNCHANGED queue
     ELSE /\ queue' = Tail(queue)
          /\ writer' = [writer EXCEPT !.calls =
                          IF Head(queue) = Sentinel THEN <<>> ELSE Calls(<<Head(queue)>>)]
  /\ UNCHANGED <<rows, lockVars, sub, gate, attempt>>

----------------------------------------------------------------------------
(***************************************************************************)
(* The two arms.                                                           *)
(***************************************************************************)
Items == Head(writer.calls).items
ExecsOf(items) == {ExecOf(items[i].by) : i \in DOMAIN items}

\* finish_many: the job locks in lock order, then the lease rows in the order
\* in which a batch of heartbeats renews them.
FinishMany(items) ==
  LET execs == {e \in ExecsOf(items) : lease[e] # "gone"}
  IN Each(Job, InLockOrder(execs)) \o Each(Lease, InExecutionOrder(execs))

\* mark_done_many: the request rows in the order of the queue.
MarkDoneMany(items) == [i \in DOMAIN items |-> Request(ExecOf(items[i].by))]

BeginArm ==
  /\ writer.calls # <<>> /\ Idle(Writer)
  /\ plan' = [plan EXCEPT ![Writer] = IF Items[1].kind = "finish" THEN FinishMany(Items)
                                      ELSE MarkDoneMany(Items)]
  /\ UNCHANGED <<rows, holder, begun, batcher>>

\* Faulty: the rows are judged as they were before the shared transaction.
AppliedBefore(items, i) ==
  LET e == ExecOf(items[i].by)
  IN IF items[i].kind = "finish" THEN lease[e] = "active" ELSE request[e] = "claimed"

\* finish_lease and the guarded close: the verdict on the i-th item.
Applied(items, i) ==
  LET e == ExecOf(items[i].by)
  IN /\ IF items[i].kind = "finish" THEN lease[e] = "active" ELSE request[e] = "claimed"
     /\ \A j \in 1..(i - 1) : ExecOf(items[j].by) # e

Verdict(kind, applied) ==
  IF ~applied THEN "rejected" ELSE IF kind = "finish" THEN "finished" ELSE "closed"

\* What a committed transaction over these items leaves.
Write(items) ==
  /\ lease' = IF items[1].kind = "finish"
              THEN [e \in Exec |-> IF e \in ExecsOf(items) /\ lease[e] = "active"
                                   THEN "released" ELSE lease[e]]
              ELSE lease
  /\ request' = IF items[1].kind = "mark_done"
                THEN [e \in Exec |-> IF e \in ExecsOf(items) /\ request[e] = "claimed"
                                     THEN "done" ELSE request[e]]
                ELSE request
  /\ sub' = [s \in Sub |->
               IF \E i \in DOMAIN items : items[i].by = s
               THEN LET i == CHOOSE i \in DOMAIN items : items[i].by = s
                    IN Verdict(items[i].kind, Applied(items, i))
               ELSE sub[s]]
  /\ UNCHANGED reports

\* The commit, and the futures resolved from its verdicts.
CommitArm ==
  /\ Ready(Writer)
  /\ Write(Items)
  /\ End(Writer)
  /\ writer' = [writer EXCEPT !.calls = Tail(@)]
  /\ attempt' = [attempt EXCEPT ![Writer] = 0]
  /\ UNCHANGED <<queue, gate>>

\* Faulty: the items of a failed call are forgotten.
FailedCallDropped ==
  /\ writer' = [writer EXCEPT !.calls = Tail(@)]
  /\ UNCHANGED sub

\* _run_kind: a shared transaction that failed is run again item by item; an
\* item that fails alone gets the exception.
FailedCall ==
  IF Head(writer.calls).grouped
  THEN /\ writer' = [writer EXCEPT !.calls =
                       [i \in DOMAIN Items |-> Call(<<Items[i]>>, FALSE)] \o Tail(@)]
       /\ UNCHANGED sub
  ELSE /\ writer' = [writer EXCEPT !.calls = Tail(@)]
       /\ sub' = [sub EXCEPT ![Items[1].by] = "error"]

RaiseArm ==
  /\ ~Idle(Writer)
  /\ FailedCall
  /\ End(Writer)
  /\ attempt' = [attempt EXCEPT ![Writer] = 0]
  /\ UNCHANGED <<rows, queue, gate>>

\* The direct path of a thread that found the gate closed.
CommitDirect(s) ==
  /\ Ready(s)
  /\ Write(<<ItemOf(s)>>)
  /\ End(s)
  /\ UNCHANGED <<queue, gate, writer, attempt>>

RaiseDirect(s) ==
  /\ ~Idle(s)
  /\ sub' = [sub EXCEPT ![s] = "error"]
  /\ End(s)
  /\ UNCHANGED <<rows, queue, gate, writer, attempt>>
=============================================================================
