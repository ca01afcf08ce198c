-------------------------- MODULE BranchScheduling --------------------------
(***************************************************************************)
(* One job of a workflow with conditional edges and implicit consumers.    *)
(* The worker's pass reads a job whose row has changed, judges the         *)
(* branches from the files it finds then, writes not_applicable under the  *)
(* generation it read, and caches the ready nodes; nodes run and write     *)
(* their outputs; an operator reruns a node.                               *)
(***************************************************************************)
EXTENDS WorkflowGraph

CONSTANTS
  Definitions,  \* the workflows to look at
  External,     \* the writer of a file that came with the job
  MaxGen        \* bound: reruns

ASSUME SchedulingAssumption ==
  /\ MaxGen \in Nat
  /\ \A d \in Definitions :
       /\ d.inputs \in [Node -> SUBSET Name] /\ d.outputs \in [Node -> SUBSET Name]
       /\ d.edges \subseteq Edge
       /\ \A n \in Node : n \notin walk_downstream(explicit_children(d), {n})

VARIABLES
  def,     \* the definition of the job
  gen,     \* jobs.execution_generation
  job,     \* jobs.status
  status,  \* job_nodes.status
  file,    \* the job directory
  dirty,   \* the jobs row has changed since the mark of the cached evaluation
  pass,    \* what the pass under way has read and judged
  ready,   \* the cached candidates with the generation they were built from
  seen,    \* history: the inputs a node found when it started
  overtaken \* history: nodes that were claimed before a verdict that skips them was written

vars == <<def, gen, job, status, file, dirty, pass, ready, seen, overtaken>>

Generations == 0..MaxGen
File == [value : BOOLEAN, by : Node \cup {External}, generation : Generations]
IdlePass == [phase |-> "idle", generation |-> 0, status |-> [n \in Node |-> "pending"], unselected |-> {}]
NoFiles == [x \in Name |-> Absent]

\* No file is not a file.
ASSUME FileAssumption == Absent \notin File

TypeOK ==
  /\ def \in Definitions /\ gen \in Generations
  /\ job \in {"queued", "running", "completed", "failed"}
  /\ status \in [Node -> NodeStatuses]
  /\ file \in [Name -> File \cup {Absent}] /\ dirty \in BOOLEAN
  /\ pass \in [phase : {"idle", "read", "judged"}, generation : Generations,
               status : [Node -> NodeStatuses], unselected : SUBSET Node]
  /\ ready \in [generation : Generations, nodes : SUBSET Node]
  /\ seen \in [Node -> [Name -> File \cup {Absent}]]
  /\ overtaken \in SUBSET Node

ConditionNames == {e.when.artifact : e \in {f \in def.edges : f.when # Always}}

\* A name that nobody produces comes with the job's material, or never.
Init ==
  /\ def \in Definitions
  /\ gen = 0 /\ job = "queued" /\ status = [n \in Node |-> "pending"]
  /\ file \in [Name -> {Absent} \cup [value : BOOLEAN, by : {External}, generation : {0}]]
  /\ \A x \in Name : file[x] # Absent =>
       /\ artifact_producers(def, x) = {} /\ Consumers(def, x) # {}
       /\ (file[x].value \/ x \in ConditionNames)
  /\ dirty = TRUE /\ pass = IdlePass /\ ready = [generation |-> 0, nodes |-> {}]
  /\ seen = [n \in Node |-> NoFiles] /\ overtaken = {}

\* sync_job_status.
JobStatus(st) ==
  IF \E n \in Node : st[n] = "running" THEN "running"
  ELSE IF \E n \in Node : st[n] = "failed" THEN "failed"
  ELSE IF \A n \in Node : st[n] \in TerminalSuccess THEN "completed"
  ELSE "queued"

-----------------------------------------------------------------------------
(* The worker's pass.                                                      *)

\* collect_ready_candidates: a job that runs nothing is read when its row has
\* changed.  The mark is read before the statuses.
Scan ==
  /\ pass.phase = "idle" /\ job \in {"queued", "running"}
  /\ dirty \/ job = "running"
  /\ dirty' = FALSE
  /\ pass' = [IdlePass EXCEPT !.phase = "read", !.generation = gen, !.status = status]
  /\ UNCHANGED <<def, gen, job, status, file, ready, seen, overtaken>>

\* hydrate_eval_contexts: the verdict, from the statuses that were read.
Judge ==
  /\ pass.phase = "read"
  /\ pass' = [pass EXCEPT !.phase = "judged",
                          !.unselected = evaluate_branches(def, pass.status, file)]
  /\ UNCHANGED <<def, gen, job, status, file, dirty, ready, seen, overtaken>>

WithoutBranches(st) ==
  [n \in Node |-> IF n \in pass.unselected /\ st[n] \in Runnable THEN "not_applicable" ELSE st[n]]

\* Faulty: the verdict is written whatever happened since.
VerdictAlwaysCurrent == TRUE
\* mark_nodes_not_applicable_many compares the generation under the lock.
VerdictCurrent == pass.generation = gen

\* Skipped by the verdict, and claimed since the statuses were read.
ClaimedMeanwhile ==
  {n \in pass.unselected : pass.status[n] \in Runnable
                            /\ status[n] \notin Runnable \cup TerminalSuccess}

\* Faulty: the cache is keyed by the row as it is when the pass is over.
MarkUnderNewRow ==
  /\ pass.phase = "judged"
  /\ status' = IF VerdictCurrent THEN WithoutBranches(status) ELSE status
  /\ ready' = [generation |-> pass.generation,
               nodes |-> find_ready_nodes(def, WithoutBranches(pass.status), file)]
  /\ dirty' = FALSE /\ pass' = IdlePass
  /\ overtaken' = IF VerdictCurrent THEN overtaken \cup ClaimedMeanwhile ELSE overtaken
  /\ UNCHANGED <<def, gen, job, file, seen>>

\* The write leaves the jobs row alone; then evaluate_job_ready.
Mark ==
  /\ pass.phase = "judged"
  /\ status' = IF VerdictCurrent THEN WithoutBranches(status) ELSE status
  /\ ready' = [generation |-> pass.generation,
               nodes |-> find_ready_nodes(def, WithoutBranches(pass.status), file)]
  /\ pass' = IdlePass
  /\ overtaken' = IF VerdictCurrent THEN overtaken \cup ClaimedMeanwhile ELSE overtaken
  /\ UNCHANGED <<def, gen, job, file, dirty, seen>>

-----------------------------------------------------------------------------
(* Attempts and operators.                                                 *)

\* A claim compares the generation of the candidate.
Start(n) ==
  /\ n \in ready.nodes /\ ready.generation = gen
  /\ status[n] \in Runnable /\ job \in {"queued", "running"}
  /\ status' = [status EXCEPT ![n] = "running"] /\ job' = "running" /\ dirty' = TRUE
  /\ seen' = [seen EXCEPT ![n] = [x \in Name |-> IF x \in def.inputs[n] THEN file[x] ELSE Absent]]
  /\ UNCHANGED <<def, gen, file, pass, ready, overtaken>>

\* A completed attempt has written every declared output.
Finish(n) ==
  /\ status[n] = "running"
  /\ status' = [status EXCEPT ![n] = "completed"] /\ job' = JobStatus(status') /\ dirty' = TRUE
  /\ \E value \in [def.outputs[n] \cap ConditionNames -> BOOLEAN] :
       file' = [x \in Name |->
                  IF x \notin def.outputs[n] THEN file[x]
                  ELSE [value |-> IF x \in ConditionNames THEN value[x] ELSE TRUE,
                        by |-> n, generation |-> gen]]
  /\ UNCHANGED <<def, gen, pass, ready, seen, overtaken>>

Fail(n) ==
  /\ status[n] = "running"
  /\ status' = [status EXCEPT ![n] = "failed"] /\ job' = JobStatus(status') /\ dirty' = TRUE
  /\ UNCHANGED <<def, gen, file, pass, ready, seen, overtaken>>

\* raise_if_failed_upstream_in_tx.
FailedUpstream(n, reset) ==
  \/ \E m \in dependency_ancestors(def, n) : status[m] = "failed"
  \/ \E pc \in dependency_children(def) :
       pc[2] \in reset /\ pc[1] \notin reset /\ status[pc[1]] = "failed"

\* commit_rerun.
Rerun(n) ==
  LET reset == rerun_reset_closure(def, n) IN
  /\ gen < MaxGen
  /\ \A m \in Node : status[m] # "running"
  /\ ~FailedUpstream(n, reset)
  /\ gen' = gen + 1 /\ job' = "queued" /\ dirty' = TRUE
  /\ status' = [m \in Node |-> IF m = n THEN "pending"
                               ELSE IF m \in reset THEN "stale" ELSE status[m]]
  /\ file' = [x \in Name |-> IF x \in staging_output_names(def, reset) THEN Absent ELSE file[x]]
  /\ seen' = [m \in Node |-> IF m \in reset THEN NoFiles ELSE seen[m]]
  /\ overtaken' = overtaken \ reset
  /\ UNCHANGED <<def, pass, ready>>

Next ==
  \/ Scan \/ Judge \/ Mark
  \/ \E n \in Node : Start(n) \/ Finish(n) \/ Fail(n) \/ Rerun(n)

Spec == Init /\ [][Next]_vars

-----------------------------------------------------------------------------
(* Properties.                                                             *)

\* A completed node has read what its inputs are now: neither a reset nor a
\* late producer leaves a result that rests on bytes which have been replaced,
\* unless a verdict took a producer for skipped that had been claimed meanwhile
\* (dependency_downstream, has_unfinished_implicit_producer).
FreshInputs ==
  \A n \in Node : status[n] = "completed" =>
    \A x \in def.inputs[n] \ def.outputs[n] :
      seen[n][x] = file[x] \/ artifact_producers(def, x) \cap overtaken # {}

\* A condition on what the branch itself would write is read as false.
SelfGated ==
  \E e \in def.edges : /\ e.when # Always
                       /\ artifact_producers(def, e.when.artifact) \cap branch_gated_keys(def, e.target) # {}

OvertakenCondition(e) == e.when # Always /\ artifact_producers(def, e.when.artifact) \cap overtaken # {}

\* When all nodes have ended, a skipped node is one that the final files skip,
\* and a node that ran has an edge to it that they select: no verdict was given
\* on a condition file that was later rewritten or staged away, unless by a
\* producer that had been claimed before it was taken for skipped
\* (condition_barrier, mark_nodes_not_applicable_many).
VerdictStands ==
  (\A n \in Node : status[n] \in TerminalSuccess) /\ ~SelfGated =>
    \A n \in Node :
      IF status[n] = "not_applicable" THEN n \in evaluate_branches(def, status, file)
      ELSE LET incoming == {e \in def.edges : e.target = n}
           IN  \/ incoming = {} \/ selected_edges(incoming, file) # {}
               \/ \E e \in incoming : OvertakenCondition(e)

LeastReset(n) ==
  LET closed(S) == /\ n \in S
                   /\ Successors(dependency_children(def), S) \subseteq S
                   /\ SharingProducers(def, S) \subseteq S
  IN  \E reset \in SUBSET Node :
        /\ closed(reset) /\ \A S \in SUBSET reset : closed(S) => S = reset
        /\ status' = [m \in Node |-> IF m = n THEN "pending"
                                    ELSE IF m \in reset THEN "stale" ELSE status[m]]

\* A rerun resets the least set with the node, everything that depends on its
\* members, and every producer of a name that a member writes without reading
\* it (rerun_reset_closure against what it is for).
ResetIsLeast == [][\A n \in Node : Rerun(n) => LeastReset(n)]_vars

\* What the worker sees of a job at rest.
AtRest == pass.phase = "idle" /\ ~dirty /\ job = "queued"

\* A job that runs nothing and whose row has not changed is not read again, and
\* need not be for what can start: the cached candidates are the ready nodes
\* (collect_ready_candidates against find_ready_nodes).
NoMissedWakeup == AtRest => ready = [generation |-> gen, nodes |-> find_ready_nodes(def, status, file)]

Waiting == {n \in Node : status[n] \in Runnable}
Stuck == AtRest /\ ready.nodes = {} /\ Waiting # {}

ReadsOwnResult(n) ==
  \E x \in def.inputs[n] :
    (artifact_producers(def, x) \ {n}) \cap dependency_downstream(def, n) # {}
NobodyWrites(n) ==
  \E x \in def.inputs[n] : file[x] = Absent
    /\ \A p \in artifact_producers(def, x) \ {n} : status[p] = "not_applicable"
BelowSkipped(n) ==
  \E e \in selected_edges({f \in def.edges : f.target = n}, file) : status[e.source] = "not_applicable"
Undecided(n) == n \in evaluate_branches(def, status, file)
OnNoSide(n) ==
  LET incoming == {e \in def.edges : e.target = n}
  IN  selected_edges(incoming, file) = {} /\ \E e \in incoming : status[e.source] = "not_applicable"
BelowFailed(n) == \E m \in dependency_ancestors(def, n) : status[m] = "failed"

\* A job that waits for nothing has a node that reads what its own result leads
\* to, an input that nobody will write, a selected edge from a skipped branch, a
\* branch that became decidable by a skip, a node that no edge selects and whose
\* skipped sources never skip it, or a failure that a rerun elsewhere has taken
\* out of the job's status: the barriers add no other way to hang
\* (find_ready_nodes, evaluate_branches).
NothingElseSticks ==
  Stuck => \E n \in Waiting : \/ ReadsOwnResult(n) \/ NobodyWrites(n) \/ BelowSkipped(n)
                             \/ Undecided(n) \/ OnNoSide(n) \/ BelowFailed(n)

\* "j is always on the selected side, the verdict does not gate it": a node
\* that some selected path reaches does not wait for a skipped one.  Not kept
\* where another selected edge comes from a skipped node.
SelectedSideRuns == Stuck => ~ \E n \in Waiting : BelowSkipped(n)

\* An input's producers that have not ended hold a node back: it never runs
\* beside one (has_unfinished_implicit_producer).  Not kept where a verdict is
\* written after the producer it skips was claimed.
BarrierHolds ==
  \A n \in Node : status[n] = "running" =>
    \A x \in def.inputs[n] : \A p \in artifact_producers(def, x) \ {n} : status[p] # "running"

\* "A job's evaluation inputs change only when its jobs row changes": a job
\* whose row has not changed has no branch left to skip.
VerdictsComplete == AtRest => evaluate_branches(def, status, file) \cap Waiting = {}

\* Completed and not_applicable nodes only: the job reads completed
\* (summarize_job_status).  Not kept: nothing derives the status after a skip.
EndedJobReadsCompleted == AtRest => Waiting # {}

=============================================================================
