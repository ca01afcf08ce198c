-------------------------- MODULE WorkerExecution --------------------------
(***************************************************************************)
(* run_execution and deliver_result: the thread of one claimed execution.  *)
(* It holds the execution mutex from its registration to its end, and      *)
(* touches the directory only behind the barrier of the upload handoff.    *)
(***************************************************************************)
EXTENDS WorkerState

\* The mutex is taken within its bound and the lease registered.  The entry
\* this displaces belongs to a lease the Host has reassigned: it is condemned.
Register(l) ==
  /\ pc[l] = "mutex"
  /\ mutex = None
  /\ mutex' = l
  /\ pc' = [pc EXCEPT ![l] = "fence"]
  /\ lost' = IF entry = None THEN lost ELSE Condemn(entry.lease, entry.era)
  /\ entry' = [lease |-> l, era |-> "exec", quiesced |-> FALSE]
  /\ UNCHANGED <<hostVars, prior, dir, beat, queueVars, others, crashes>>

\* MUTEX_WAIT_BOUND_SECONDS elapsed: the claim is abandoned untouched.
GiveUpMutex(l) ==
  /\ pc[l] = "mutex"
  /\ mutex # None
  /\ pc' = [pc EXCEPT ![l] = "over"]
  /\ UNCHANGED <<hostVars, mutex, prior, dir, beatVars, queueVars, others, crashes>>

\* wait_for_prior, under the handoff's lock: condemn the other lease's upload.
FencePrior(l) ==
  /\ pc[l] = "fence"
  /\ prior' = active
  /\ lost' = IF active \notin {None, l} THEN [lost EXCEPT ![active].task = TRUE] ELSE lost
  /\ pc' = [pc EXCEPT ![l] = "waiting"]
  /\ UNCHANGED <<hostVars, mutex, dir, entry, beat, queueVars, others, crashes>>

\* Faulty: the wait trusts the condemnation and does not wait for the teardown.
PassBarrierAtOnce(l) ==
  /\ pc[l] = "waiting"
  /\ ~lost[l].exec
  /\ pc' = [pc EXCEPT ![l] = "prepare"]
  /\ prior' = None
  /\ UNCHANGED <<hostVars, mutex, dir, beatVars, queueVars, others, crashes>>

PassBarrier(l) ==
  /\ pc[l] = "waiting"
  /\ ~lost[l].exec
  /\ prior # None => ~Live(prior)
  /\ pc' = [pc EXCEPT ![l] = "prepare"]
  /\ prior' = None
  /\ UNCHANGED <<hostVars, mutex, dir, beatVars, queueVars, others, crashes>>

\* The incoming lease died while the old upload drained.
AbandonWait(l) ==
  /\ pc[l] = "waiting"
  /\ lost[l].exec
  /\ Prune(l)
  /\ mutex' = None
  /\ prior' = None
  /\ pc' = [pc EXCEPT ![l] = "over"]
  /\ UNCHANGED <<hostVars, dir, lost, beat, queueVars, others, crashes>>

\* prepare_execution: a directory with this lease's own pending result is left
\* alone, any other is removed and rebuilt under this lease's owner marker.
Prepare(l) ==
  /\ pc[l] = "prepare"
  /\ IF dir.marker = l
     THEN pc' = [pc EXCEPT ![l] = "discard"] /\ UNCHANGED dir
     ELSE /\ pc' = [pc EXCEPT ![l] = "running"]
          /\ dir' = [owner |-> l, marker |-> None]
  /\ UNCHANGED <<hostVars, mutex, prior, beatVars, queueVars, others, crashes>>

\* The process ended, or preparing or spawning it failed: there is a result.
Exit(l) ==
  /\ pc[l] = "running"
  /\ pc' = [pc EXCEPT ![l] = "exited"]
  /\ UNCHANGED <<hostVars, mutex, prior, dir, beatVars, queueVars, others, crashes>>

\* The lease died before the spawn or during the run: nothing to deliver.
ExitLost(l) ==
  /\ pc[l] = "running"
  /\ lost[l].exec
  /\ pc' = [pc EXCEPT ![l] = "discard"]
  /\ UNCHANGED <<hostVars, mutex, prior, dir, beatVars, queueVars, others, crashes>>

\* release_slot answered 409: the result is moot.
ReleaseRefused(l) ==
  /\ pc[l] = "exited"
  /\ host[l] # "active"
  /\ pc' = [pc EXCEPT ![l] = "discard"]
  /\ UNCHANGED <<hostVars, mutex, prior, dir, beatVars, queueVars, others, crashes>>

\* It succeeded, or it failed and the slot is held until the report; adopt().
ReleaseSlot(l) ==
  /\ pc[l] = "exited"
  /\ pc' = [pc EXCEPT ![l] = "submit"]
  /\ UNCHANGED <<hostVars, mutex, prior, dir, beatVars, queueVars, others, crashes>>

\* UploadQueue.submit: handoff, pending marker, bulk lane; the thread ends.
Submit(l) ==
  /\ pc[l] = "submit"
  /\ active = None
  /\ active' = l
  /\ depth' = depth + 1
  /\ task' = [task EXCEPT ![l] = NewTask]
  /\ dir' = [dir EXCEPT !.marker = l]
  /\ mutex' = None
  /\ pc' = [pc EXCEPT ![l] = "over"]
  /\ UNCHANGED <<hostVars, prior, beatVars, others, crashes>>

\* A failed submit undoes begin() and stops the heartbeat.  The marker stays
\* when it was the scheduler that refused.
SubmitFails(l) ==
  /\ pc[l] = "submit"
  /\ \E written \in BOOLEAN : dir' = IF written THEN [dir EXCEPT !.marker = l] ELSE dir
  /\ Prune(l)
  /\ mutex' = None
  /\ pc' = [pc EXCEPT ![l] = "over"]
  /\ UNCHANGED <<hostVars, prior, lost, beat, queueVars, others, crashes>>

\* discard_owned_dir: no pending marker, and the owner marker names the lease.
MayDiscard(l) == dir.marker = None /\ dir.owner = l

\* The local-discard tail of deliver_result.
Discard(l) ==
  /\ pc[l] = "discard"
  /\ Prune(l)
  /\ dir' = IF MayDiscard(l) THEN NoDir ELSE dir
  /\ mutex' = None
  /\ pc' = [pc EXCEPT ![l] = "over"]
  /\ UNCHANGED <<hostVars, prior, lost, beat, queueVars, others, crashes>>

ThreadStep(l) ==
  \/ Register(l)
  \/ FencePrior(l)
  \/ PassBarrier(l)
  \/ AbandonWait(l)
  \/ Prepare(l)
  \/ Exit(l)
  \/ ExitLost(l)
  \/ ReleaseRefused(l)
  \/ ReleaseSlot(l)
  \/ Submit(l)
  \/ SubmitFails(l)
  \/ Discard(l)
  \/ GiveUpMutex(l)
=============================================================================
