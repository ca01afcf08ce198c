-------------------------- MODULE BatchOperations --------------------------
(***************************************************************************)
(* An asynchronous batch operation: a selection of jobs that one feeder    *)
(* walks in chunks, while operators pause, resume and cancel it, jobs      *)
(* leave the selection's filter or flip into it and the Host dies.  Jobs   *)
(* are numbered in the order of the keyset; a position (seq) of the        *)
(* operation's list of results is what makes a replayed chunk skip what    *)
(* was already done.                                                       *)
(***************************************************************************)
EXTENDS Integers, FiniteSets, Sequences

CONSTANTS
  Jobs,     \* how many jobs there were when the selection was frozen
  Sizes,    \* bound: how many of them the filter selects
  Firsts,   \* sizes of the page resolved at acceptance (threshold + 1)
  Chunk,    \* JOB_BATCH_OPS_CHUNK_SIZE
  MaxCrash, \* bound: how often the Host dies
  MaxJoins, \* bound: how many times a job flips into the filter
  MaxLeaves, \* bound: how many times a job leaves it
  MaxPacks, \* bound: completion phases are counted up to here
  None

ASSUME BatchAssumption ==
  /\ Firsts \cup {Jobs, Chunk} \subseteq Nat \ {0}
  /\ {MaxCrash, MaxJoins, MaxLeaves, MaxPacks} \subseteq Nat
  /\ None \notin Int

VARIABLES
  kind,      \* "package" has a completion phase, "rerun" a watermark
  op,        \* job_batch_operations: status, next_index, target spec, output
  verdict,   \* job_batch_operation_results: seq -> the job it was recorded for
  matching,  \* jobs that match the filter now
  selected,  \* jobs that matched it when the operation was accepted
  joins,     \* how many times a job flipped into it
  feeder,    \* the chunk in the feeder's hands, or None
  applied,   \* how often a job was mutated
  packages,  \* how often the completion phase ran
  crashes

filter == <<matching, selected, joins>>
tally == <<verdict, applied, packages>>
vars == <<kind, op, tally, filter, feeder, crashes>>

Job == 1..Jobs
Seqs == 0..(Jobs - 1)
Statuses == {"pending", "running", "paused", "completed", "cancelled", "failed"}
Terminal == {"completed", "cancelled", "failed"}

\* The buffered page of the stream, and the chunk in the feeder's hands.
PageOfJobs == [ids : Seq(Job), cursor : Job \cup {None}]
Chunks ==
  [at : {"claimed", "feeding", "recorded", "packing", "advancing", "missed", "interrupted",
         "resumed"},
   start : Nat, base : Nat, spec : PageOfJobs, changed : BOOLEAN,
   todo : SUBSET Seqs, left : SUBSET Seqs, output : BOOLEAN]

ASSUME NoneIsNoChunk == None \notin Chunks

\* The jobs of S in the order of the keyset.
InOrder(S) ==
  [p \in 1..Cardinality(S) |-> CHOOSE j \in S : Cardinality({i \in S : i < j}) = p - 1]

\* resolve_job_ids_page: the next jobs of the filter, and where to go on.
Page(after, limit) ==
  LET rest == InOrder({j \in matching : j > after})
  IN [ids    |-> SubSeq(rest, 1, IF limit < Len(rest) THEN limit ELSE Len(rest)),
      cursor |-> IF limit < Len(rest) THEN rest[limit] ELSE None]

\* How often a job left the filter.
Leaves == Cardinality(selected) + joins - Cardinality(matching)

Init ==
  /\ kind \in {"package", "rerun"}
  /\ matching \in {S \in SUBSET Job \ {{}} : Cardinality(S) \in Sizes}
  /\ selected = matching
  /\ joins = 0
  /\ \E first \in Firsts :
       op = [status |-> "pending", next |-> 0, output |-> FALSE, base |-> 0,
             spec |-> Page(0, first)]
  /\ verdict = [s \in Seqs |-> None]
  /\ feeder = None
  /\ applied = [j \in Job |-> 0]
  /\ packages = 0
  /\ crashes = 0

At(step) == feeder # None /\ feeder.at = step
Total(chunk) == chunk.base + Len(chunk.spec.ids)

----------------------------------------------------------------------------
(***************************************************************************)
(* JobBatchOpsFeeder.consume_once, between two database calls a step.      *)
(***************************************************************************)
\* Faulty: a row left running by a dead feeder is not taken up.
ClaimPending ==
  /\ feeder = None
  /\ op.status = "pending"
  /\ op' = [op EXCEPT !.status = "running"]
  /\ feeder' = [at |-> "claimed", start |-> op.next, base |-> op.base, spec |-> op.spec,
                changed |-> FALSE, todo |-> {}, left |-> {}, output |-> FALSE]
  /\ UNCHANGED <<kind, tally, filter, crashes>>

\* claim_job_batch_operation: a pending row, or a running one whose feeder died.
Claim ==
  /\ feeder = None
  /\ op.status \in {"pending", "running"}
  /\ op' = [op EXCEPT !.status = "running"]
  /\ feeder' = [at |-> "claimed", start |-> op.next, base |-> op.base, spec |-> op.spec,
                changed |-> FALSE, todo |-> {}, left |-> {}, output |-> FALSE]
  /\ UNCHANGED <<kind, tally, filter, crashes>>

\* The watermark gate: the workspace's backlog is full, the claim is released.
Release ==
  /\ At("claimed") /\ kind = "rerun"
  /\ op' = [op EXCEPT !.status = IF @ = "running" THEN "pending" ELSE @]
  /\ feeder' = None
  /\ UNCHANGED <<kind, tally, filter, crashes>>

\* load_chunk, and the probe of the positions already recorded.  The buffer is
\* refilled when the cursor has reached its end and the stream goes on.
Loaded(start) ==
  IF feeder.spec.cursor # None /\ start = Total(feeder)
  THEN [feeder EXCEPT !.spec = Page(feeder.spec.cursor, Chunk), !.base = start, !.changed = TRUE]
  ELSE feeder

EndOf(chunk) ==
  IF chunk.start + Chunk < Total(chunk) THEN chunk.start + Chunk ELSE Total(chunk)

\* Faulty: the positions already recorded are not probed.
UndoneAll(chunk) == chunk.start..(EndOf(chunk) - 1)

Undone(chunk) == {s \in chunk.start..(EndOf(chunk) - 1) : verdict[s] = None}

Load ==
  /\ At("claimed")
  /\ LET chunk == Loaded(feeder.start)
     IN feeder' = [chunk EXCEPT !.at = "feeding", !.todo = Undone(chunk), !.left = Undone(chunk)]
  /\ UNCHANGED <<kind, op, tally, filter, crashes>>

JobAt(s) == feeder.spec.ids[s - feeder.base + 1]

\* run_chunk: the jobs one by one, each mutation a transaction of its own.
RunJob ==
  /\ At("feeding") /\ feeder.left # {}
  /\ LET s == CHOOSE s \in feeder.left : \A t \in feeder.left : s <= t
     IN /\ applied' = [applied EXCEPT ![JobAt(s)] = @ + 1]
        /\ feeder' = [feeder EXCEPT !.left = @ \ {s}]
  /\ UNCHANGED <<kind, op, verdict, packages, filter, crashes>>

\* It raised: every job of the chunk is recorded as failed.
ChunkFails ==
  /\ At("feeding") /\ feeder.left # {}
  /\ feeder' = [feeder EXCEPT !.left = {}]
  /\ UNCHANGED <<kind, op, tally, filter, crashes>>

\* Faulty: a job the handler gave no result for gets no row.
RecordReturned ==
  /\ At("feeding") /\ feeder.left = {}
  /\ verdict' = [s \in Seqs |-> IF s \in feeder.todo \ {feeder.start} THEN JobAt(s) ELSE verdict[s]]
  /\ feeder' = [feeder EXCEPT !.at = "recorded"]
  /\ UNCHANGED <<kind, op, applied, packages, filter, crashes>>

\* insert_job_batch_operation_results, in one transaction after the chunk.
Record ==
  /\ At("feeding") /\ feeder.left = {}
  /\ verdict' = [s \in Seqs |-> IF s \in feeder.todo THEN JobAt(s) ELSE verdict[s]]
  /\ feeder' = [feeder EXCEPT !.at = "recorded"]
  /\ UNCHANGED <<kind, op, applied, packages, filter, crashes>>

IsFinal(chunk) == EndOf(chunk) >= Total(chunk) /\ chunk.spec.cursor = None

\* The package kind reads the row again: an output is reused, and no package
\* is started for an operation that is no longer running.
ReadFresh ==
  /\ At("recorded")
  /\ feeder' = IF kind = "package" /\ IsFinal(feeder) /\ ~op.output /\ op.status = "running"
               THEN [feeder EXCEPT !.at = "packing"]
               ELSE [feeder EXCEPT !.at = "advancing",
                                   !.output = kind = "package" /\ IsFinal(feeder) /\ op.output]
  /\ UNCHANGED <<kind, op, tally, filter, crashes>>

\* run_completion: the archive is built.
Pack ==
  /\ At("packing")
  /\ packages' = IF packages < MaxPacks THEN packages + 1 ELSE packages
  /\ feeder' = [feeder EXCEPT !.at = "advancing", !.output = TRUE]
  /\ UNCHANGED <<kind, op, verdict, applied, filter, crashes>>

\* The columns a chunk writes: cursor, target spec, output.
WithChunk(row) ==
  [row EXCEPT !.next = EndOf(feeder), !.output = @ \/ feeder.output,
              !.base = feeder.base, !.spec = feeder.spec]

\* Faulty: the advance does not look at the status.
AdvanceAnyway ==
  /\ At("advancing")
  /\ op' = [WithChunk(op) EXCEPT !.status = IF IsFinal(feeder) THEN "completed" ELSE "pending"]
  /\ feeder' = None
  /\ UNCHANGED <<kind, tally, filter, crashes>>

\* Faulty: a chunk that ends the buffer is taken for the last one.
AdvanceEarly ==
  /\ At("advancing")
  /\ op' = IF op.status = "running"
           THEN [WithChunk(op) EXCEPT !.status = IF EndOf(feeder) = Total(feeder) THEN "completed"
                                                 ELSE "pending"]
           ELSE op
  /\ feeder' = IF op.status = "running" THEN None ELSE [feeder EXCEPT !.at = "missed"]
  /\ UNCHANGED <<kind, tally, filter, crashes>>

\* advance_job_batch_operation: the update that only a running row accepts.
Advance ==
  /\ At("advancing")
  /\ IF op.status = "running"
     THEN /\ op' = [WithChunk(op) EXCEPT !.status = IF IsFinal(feeder) THEN "completed" ELSE "pending"]
          /\ feeder' = None
     ELSE /\ feeder' = [feeder EXCEPT !.at = "missed"]
          /\ UNCHANGED op
  /\ UNCHANGED <<kind, tally, filter, crashes>>

\* The operator was faster: which of the two guarded updates follows is
\* decided by reading the status again.
ReadMissed ==
  /\ At("missed")
  /\ feeder' = IF op.status \in {"paused", "cancelled"}
               THEN [feeder EXCEPT !.at = "interrupted"]
               ELSE IF op.status = "pending" /\ (feeder.changed \/ feeder.output)
               THEN [feeder EXCEPT !.at = "resumed"]
               ELSE None
  /\ UNCHANGED <<kind, op, tally, filter, crashes>>

\* record_interrupted_job_batch_operation
RecordInterrupted ==
  /\ At("interrupted")
  /\ op' = IF op.status \in {"paused", "cancelled"} THEN WithChunk(op) ELSE op
  /\ feeder' = None
  /\ UNCHANGED <<kind, tally, filter, crashes>>

\* preserve_resumed_job_batch_operation_snapshot
PreserveResumed ==
  /\ At("resumed")
  /\ op' = IF op.status = "pending" /\ op.next = feeder.start
           THEN [WithChunk(op) EXCEPT !.next = op.next] ELSE op
  /\ feeder' = None
  /\ UNCHANGED <<kind, tally, filter, crashes>>

\* The bookkeeping raised: fail_job_batch_operation.
FailOperation ==
  /\ feeder # None
  /\ op' = [op EXCEPT !.status = IF @ \in Terminal THEN @ ELSE "failed"]
  /\ feeder' = None
  /\ UNCHANGED <<kind, tally, filter, crashes>>

\* The Host dies, or that write raised too: the row stays as it is.
Crash ==
  /\ feeder # None
  /\ crashes < MaxCrash
  /\ crashes' = crashes + 1
  /\ feeder' = None
  /\ UNCHANGED <<kind, op, tally, filter>>

FeederStep ==
  \/ Claim
  \/ Load
  \/ RunJob
  \/ Record
  \/ ReadFresh
  \/ Pack
  \/ Advance
  \/ ReadMissed
  \/ RecordInterrupted
  \/ PreserveResumed

----------------------------------------------------------------------------
(***************************************************************************)
(* The operators' compare-and-set transitions, and the rest of the world.  *)
(***************************************************************************)
Transition(from, to) ==
  /\ op.status \in from
  /\ op' = [op EXCEPT !.status = to]
  /\ UNCHANGED <<kind, tally, filter, feeder, crashes>>

Pause  == Transition({"pending", "running"}, "paused")
Resume == Transition({"paused"}, "pending")
Cancel == Transition({"pending", "running", "paused"}, "cancelled")

\* A job is deleted, or its own progress takes it out of the filter.
LeaveFilter(j) ==
  /\ j \in matching
  /\ Leaves < MaxLeaves
  /\ matching' = matching \ {j}
  /\ UNCHANGED <<kind, op, tally, selected, joins, feeder, crashes>>

\* A job older than the freeze comes to match a filter on mutable columns
\* (status, paused, packed, active node, workflow version).
JoinFilter(j) ==
  /\ j \notin matching
  /\ joins < MaxJoins
  /\ joins' = joins + 1
  /\ matching' = matching \cup {j}
  /\ UNCHANGED <<kind, op, tally, selected, feeder, crashes>>

Next ==
  \/ FeederStep
  \/ Release
  \/ ChunkFails
  \/ FailOperation
  \/ Crash
  \/ Pause
  \/ Resume
  \/ Cancel
  \/ \E j \in Job : LeaveFilter(j) \/ JoinFilter(j)

(***************************************************************************)
(* Fairness: the consumer loop runs, and backlogs do not stay full.        *)
(***************************************************************************)
Fairness == WF_vars(FeederStep) /\ SF_vars(Load)
Spec == Init /\ [][Next]_vars /\ Fairness

----------------------------------------------------------------------------
\* The operation's rows and the feeder's chunk have their types.
TypeOK ==
  /\ kind \in {"package", "rerun"}
  /\ op \in [status : Statuses, next : 0..Jobs, base : 0..Jobs, output : BOOLEAN,
             spec : PageOfJobs]
  /\ feeder \in Chunks \cup {None}
  /\ verdict \in [Seqs -> Job \cup {None}]
  /\ matching \subseteq Job /\ selected \subseteq Job
  /\ joins \in 0..MaxJoins
  /\ applied \in [Job -> Nat]
  /\ packages \in 0..MaxPacks

\* selection.py: "batch stream cursor is outside its buffered range" is never
\* raised: whichever update wrote it, the stored buffer meets the cursor.
CursorInBuffer == op.next \in op.base..Total(op)

\* feeder.py: "no selected job is left without a verdict": a completed
\* operation has one for every position, and has been through the stream.
CompletedIsRecorded ==
  op.status = "completed" =>
    /\ op.spec.cursor = None /\ op.next = Total(op)
    /\ \A s \in 0..(op.next - 1) : verdict[s] # None
    /\ kind = "package" => op.output

\* batch-ops-async.md: where a replay fetches a page again, a job that left
\* the filter, or one that took its place, gets no turn: at most one job of the
\* selection for each job that left.
SkipsAreBounded ==
  op.status = "completed" =>
    Cardinality({j \in selected : \A s \in Seqs : verdict[s] # j}) <= Leaves

\* Positions recorded for a job that was recorded before.
Repeats == {s \in Seqs : verdict[s] # None /\ \E t \in Seqs : t < s /\ verdict[t] = verdict[s]}

\* feeder.py, batch-ops-async.md: recorded positions are never executed again.
\* A job is mutated twice only by a crash between its mutation and the record,
\* or because a page fetched again had grown: each job that flipped into the
\* filter costs at most one such repetition.
RepeatsAreAccounted ==
  /\ Cardinality(Repeats) <= joins
  /\ \A j \in Job : applied[j] <= 1 + crashes + joins

\* job_batch_operations.py, pause-wins: neither an advance, nor a released
\* claim, nor the record of an interrupted chunk undoes what the operator
\* decided; the cursor does not go back.
OperatorWins ==
  [][/\ op.status \in Terminal => op'.status = op.status
     /\ op.status = "paused" /\ feeder' # feeder => op'.status \in {"paused", "failed"}
     /\ op'.next >= op.next]_vars

\* Unless it is left paused, an accepted operation ends.
OperationEnds == <>[](op.status # "paused") => <>(op.status \in Terminal)

\* batch-ops-async.md: after a quick resume the package kind "reuses the
\* output already produced and does not repeat the completion hook".  Only a
\* crash between the package and the advance repeats it.  Not kept: a resume
\* between the second read and the record repeats it as well.
PackagedOnce == packages <= 1 + crashes
=============================================================================
