---------------------------- MODULE WorkerState ----------------------------
(***************************************************************************)
(* One Agent Worker and the leases under which the Host hands it one and   *)
(* the same execution.  The Host requeues an execution whose lease it      *)
(* judged expired, and the Worker may claim it again while the threads of  *)
(* the old attempt still live.  All attempts share one directory           *)
(* (work_root/<execution_id>), one slot of the heartbeat registry, one     *)
(* mutex and one slot of the upload handoff: this module is that shared    *)
(* state, and the operations of the registry on it.  Deliveries of other   *)
(* executions share the lanes of the upload scheduler with this one's.     *)
(***************************************************************************)
EXTENDS Naturals

CONSTANTS
  Lease,        \* the leases the Host may grant for the execution
  None,
  MaxCrash,     \* how often the executor process may die
  Lanes,        \* the slots of the LaneScheduler (its limit)
  WaitFitsLease \* a claim's lease outlives MUTEX_WAIT_BOUND_SECONDS

VARIABLES
  host,    \* the Host's view of each lease
  closed,  \* the request row is done or cancelled
  flying,  \* leases with a result report on its way to the Host
  pc,      \* where the execution thread of each lease is
  mutex,   \* holder of execution_mutex
  prior,   \* the upload task the mutex holder waits for
  dir,     \* execution_owner.json and upload_pending.json of the directory
  entry,   \* BatchHeartbeatRegistry._entries of this execution
  lost,    \* the ownership_lost events: the attempt's and the upload task's
  active,  \* UploadHandoff._active of this execution
  depth,   \* UploadHandoff._depth
  task,    \* the upload task of each lease
  beat,    \* the heartbeat on its way
  others,  \* slots of the LaneScheduler held by other executions' deliveries
  crashes

hostVars   == <<host, closed, flying>>
threadVars == <<pc, mutex, prior>>
queueVars  == <<active, depth, task>>
beatVars   == <<entry, lost, beat>>
vars == <<hostVars, threadVars, dir, beatVars, queueVars, others, crashes>>

----------------------------------------------------------------------------
Opt(S) == S \cup {None}

PC == {"none", "mutex", "fence", "waiting", "prepare", "running", "exited",
       "submit", "discard", "over"}
Stages == {"none", "queued", "bulk", "ready", "loop", "sent", "backoff",
           "rewriting", "dropping", "finalize", "done"}
Answers  == {"none", "204", "409", "401", "413", "4xx"}
Degraded == {"no", "kept", "recycled"}
Verdicts == {"none", "renewed", "lost", "settled"}

Task   == [stage : Stages, answer : Answers, degraded : Degraded, rebound : BOOLEAN]
Dir    == [owner : Opt(Lease), marker : Opt(Lease)]
Entry  == [lease : Lease, era : {"exec", "task"}, quiesced : BOOLEAN]
Beat   == [lease : Lease, era : {"exec", "task"}, verdict : Verdicts]

ASSUME WorkerAssumption ==
  /\ None \notin Lease \cup Entry \cup Beat
  /\ MaxCrash \in Nat
  /\ Lanes \in Nat \ {0}
  /\ WaitFitsLease \in BOOLEAN

NoTask  == [stage |-> "none", answer |-> "none", degraded |-> "no", rebound |-> FALSE]
NewTask == [NoTask EXCEPT !.stage = "queued"]
DoneTask == [NoTask EXCEPT !.stage = "done"]
NoDir   == [owner |-> None, marker |-> None]

\* An upload task the handoff has begun and not finalized.
Live(l) == task[l].stage \notin {"none", "done"}

\* One in a lane: a report keeps its slot through its backoffs and rewritings,
\* between the two lanes (and before the first) a task has none.
InLane(l) == task[l].stage \notin {"none", "queued", "ready", "done"}

----------------------------------------------------------------------------
(***************************************************************************)
(* BatchHeartbeatRegistry.  An entry is an object: the executor's          *)
(* ("exec") and the upload task's ("task") of one lease differ in the      *)
(* ownership_lost event they point to, until register_upload redirects the *)
(* displaced one.                                                          *)
(***************************************************************************)
Mine(l) == entry # None /\ entry.lease = l

\* Setting the event an entry object points to.
Condemn(l, era) ==
  [lost EXCEPT ![l] = IF era = "task" \/ task[l].rebound THEN [@ EXCEPT !.task = TRUE]
                      ELSE [@ EXCEPT !.exec = TRUE]]

Condemned(e) ==
  IF e.era = "task" \/ task[e.lease].rebound THEN lost[e.lease].task ELSE lost[e.lease].exec

\* Faulty: a prune that is not matched with the lease.
PruneAny(l) == entry' = None

Prune(l) == entry' = IF Mine(l) THEN None ELSE entry
SetQuiesced(l, q) == entry' = IF Mine(l) THEN [entry EXCEPT !.quiesced = q] ELSE entry

Init ==
  /\ host = [l \in Lease |-> "unclaimed"]
  /\ closed = FALSE
  /\ flying = {}
  /\ pc = [l \in Lease |-> "none"]
  /\ mutex = None
  /\ prior = None
  /\ dir = NoDir
  /\ entry = None
  /\ lost = [l \in Lease |-> [exec |-> FALSE, task |-> FALSE]]
  /\ active = None
  /\ depth = 0
  /\ task = [l \in Lease |-> NoTask]
  /\ beat = None
  /\ others = 0
  /\ crashes = 0
=============================================================================
