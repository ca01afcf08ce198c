--------------------------- MODULE ArtifactPlane ----------------------------
(***************************************************************************)
(* The bytes of one declared output of one node, on the three planes that  *)
(* must agree: the job directory (read first, an evictable cache), the     *)
(* manifest row job_artifacts, and the object its storage key names.       *)
(*                                                                         *)
(* Results of an attempt arrive as /result requests (a lost answer makes   *)
(* the Worker send another); the maintenance thread re-uploads and evicts; *)
(* the poll thread restores what was evicted; an operator reruns the node  *)
(* or only its consumer; an operator's GC removes orphaned objects.        *)
(***************************************************************************)
EXTENDS Naturals, FiniteSets

CONSTANTS
  Lease,          \* attempts of the node
  Request,        \* /result requests
  Pass,           \* version keys the reconciler may draw
  None,
  MaxGen,         \* bound: reruns
  Fault           \* kinds of fault that may happen, any number of times

Bytes == Lease \cup Request
Key == Request \cup Pass
Faults == {"storage", "commit", "finish", "disk", "crash"}

\* Keys are drawn at random: no two writers draw the same one.
ASSUME PlaneAssumption ==
  /\ None \notin Bytes \cup Key
  /\ Request \cap (Lease \cup Pass) = {}
  /\ MaxGen \in Nat
  /\ Fault \subseteq Faults

VARIABLES
  gen,       \* jobs.execution_generation
  node,      \* job_nodes.status of the producer
  consumer,  \* status of the node that reads the output, the last of the job
  queued,    \* a request of the current generation waits for a Worker
  lease,     \* executor_leases
  staging,   \* the Worker's staging object of an attempt
  row,       \* the manifest row
  object,    \* authority objects by version key
  local,     \* the file in the job directory
  req,       \* threads of /result
  retired,   \* keys waiting for delete_objects_guarded
  recon,     \* reupload_missing
  evict,     \* evict_cache_to_capacity: the bytes it has certified
  poll,      \* hydrate_job_artifacts
  faulted,   \* history: kinds of fault that have happened, but for a stop of the Host
  output,    \* history: the bytes of the result that completed the node
  overrun    \* history: bytes the Host took out of the directory after a look that
             \* was older than they

db == <<gen, node, consumer, queued, lease>>
vars == <<db, staging, row, object, local, req, retired, recon, evict, poll, faulted, output,
          overrun>>

NoRow == [key |-> None, hash |-> None]
RowType == {NoRow} \cup [key : Key, hash : Bytes]
Closed == [pc |-> "closed", lease |-> None, channel |-> "ref", ok |-> TRUE]
Idle == [pc |-> "idle", key |-> None, hash |-> None, seen |-> None]
PollIdle == [pc |-> "idle", generation |-> 0, row |-> NoRow]

TypeOK ==
  /\ gen \in 0..MaxGen
  /\ node \in {"pending", "running", "completed", "failed"}
  /\ consumer \in {"waiting", "running", "completed"} /\ queued \in BOOLEAN
  /\ lease \in [Lease -> [state : {"none", "active", "released", "swept"}, generation : 0..MaxGen]]
  /\ staging \in [Lease -> {"none", "there", "deleted"}]
  /\ row \in RowType
  /\ object \in [Key -> Bytes \cup {None}]
  /\ local \in Bytes \cup {None}
  /\ req \in [Request -> [pc : {"new", "waiting", "verify", "copy", "register", "finish", "closed"},
                          lease : Lease \cup {None}, channel : {"ref", "archive"}, ok : BOOLEAN]]
  /\ retired \subseteq Key
  /\ recon \in [pc : {"idle", "scanned", "hashed", "put"}, key : Key \cup {None},
                hash : Bytes \cup {None}, seen : Bytes \cup {None}]
  /\ evict \in Bytes \cup {None}
  /\ poll \in [pc : {"idle", "read", "rows", "restored"}, generation : 0..MaxGen, row : RowType]
  /\ faulted \subseteq Fault
  /\ output \in Bytes \cup {None} /\ overrun \subseteq Bytes

Init ==
  /\ gen = 0 /\ node = "pending" /\ consumer = "waiting" /\ queued = FALSE
  /\ lease = [l \in Lease |-> [state |-> "none", generation |-> 0]]
  /\ staging = [l \in Lease |-> "none"]
  /\ row = NoRow /\ object = [k \in Key |-> None] /\ local = None
  /\ req = [r \in Request |-> [Closed EXCEPT !.pc = "new"]]
  /\ retired = {} /\ recon = Idle /\ evict = None
  /\ poll = PollIdle
  /\ faulted = {} /\ output = None /\ overrun = {}

Happens(f) == f \in Fault /\ faulted' = faulted \cup {f}
NoFault == UNCHANGED faulted

-----------------------------------------------------------------------------
(* The attempt and the operator.                                           *)

\* A fault-free evaluation of the poll thread enqueues the pending node.
Enqueue ==
  /\ node = "pending" /\ ~queued /\ poll.pc = "idle"
  /\ queued' = TRUE
  /\ UNCHANGED <<gen, node, consumer, lease, staging, row, object, local, req, retired, recon, evict,
                 poll, faulted, output, overrun>>

Claim(l) ==
  /\ queued /\ node = "pending" /\ lease[l].state = "none"
  /\ lease' = [lease EXCEPT ![l] = [state |-> "active", generation |-> gen]]
  /\ node' = "running" /\ queued' = FALSE
  /\ UNCHANGED <<gen, consumer, staging, row, object, local, req, retired, recon, evict, poll, faulted,
                 output, overrun>>

\* The Worker puts its output on the staging key of its execution.
WorkerUpload(l) ==
  /\ lease[l].state # "none" /\ staging[l] = "none"
  /\ staging' = [staging EXCEPT ![l] = "there"]
  /\ UNCHANGED <<db, row, object, local, req, retired, recon, evict, poll, faulted, output, overrun>>

\* The Worker is lost: the sweep drops the lease and queues the node again,
\* in the same generation.
Sweep(l) ==
  /\ lease[l].state = "active"
  /\ lease' = [lease EXCEPT ![l].state = "swept"]
  /\ node' = "pending" /\ queued' = TRUE
  /\ UNCHANGED <<gen, consumer, staging, row, object, local, req, retired, recon, evict, poll, faulted,
                 output, overrun>>

\* The poll thread finds the input of the consumer and dispatches it.
ConsumerStarts ==
  /\ node = "completed" /\ consumer = "waiting" /\ local # None /\ poll.pc = "idle"
  /\ consumer' = "running"
  /\ UNCHANGED <<gen, node, queued, lease, staging, row, object, local, req, retired, recon, evict,
                 poll, faulted, output, overrun>>

ConsumerCompletes ==
  /\ consumer = "running"
  /\ consumer' = "completed"
  /\ UNCHANGED <<gen, node, queued, lease, staging, row, object, local, req, retired, recon, evict,
                 poll, faulted, output, overrun>>

\* commit_rerun of the consumer alone: the output is kept, the generation moves.
RerunConsumer ==
  /\ consumer = "completed" /\ gen < MaxGen
  /\ gen' = gen + 1 /\ consumer' = "waiting"
  /\ UNCHANGED <<node, queued, lease, staging, row, object, local, req, retired, recon, evict, poll,
                 faulted, output, overrun>>

\* The key of the row that this write replaces or deletes, if there was one.
Superseded == {row.key} \ {None}

\* commit_rerun of the producer: in one transaction the local file is staged
\* away, the manifest row deleted and the generation bumped; the object is
\* removed after the commit.
RerunProducer ==
  /\ node \in {"completed", "failed"} /\ consumer # "running" /\ gen < MaxGen
  /\ gen' = gen + 1 /\ node' = "pending" /\ consumer' = "waiting" /\ queued' = FALSE
  /\ row' = NoRow /\ local' = None /\ output' = None /\ overrun' = {}
  /\ retired' = retired \cup Superseded
  /\ UNCHANGED <<lease, staging, object, req, recon, evict, poll, faulted>>

-----------------------------------------------------------------------------
(* A result: completion.py, completion_staged.py, remote_artifact_promote  *)
(* and the guarded promote.                                                *)

BytesOf(r) == IF req[r].channel = "ref" THEN req[r].lease ELSE r
ActiveIn(l) == lease[l].state = "active" /\ lease[l].generation = gen

\* Faulty: the promote trusts the check made before the copy.
GateUnchecked(r) == TRUE
\* lease_artifact_write_current, under the job-mutation lock.
Gate(r) == ActiveIn(req[r].lease)

GoTo(r, pc) == req' = [req EXCEPT ![r].pc = pc]
Fails(r) == req' = [req EXCEPT ![r].pc = "finish", ![r].ok = FALSE]

Report(r, l, ch) ==
  /\ req[r].pc = "new" /\ lease[l].state # "none"
  /\ ch = "ref" => staging[l] # "none"
  /\ req' = [req EXCEPT ![r] = [pc |-> "waiting", lease |-> l, channel |-> ch, ok |-> TRUE]]
  /\ UNCHANGED <<db, staging, row, object, local, retired, recon, evict, poll, faulted, output, overrun>>

\* Faulty: two results of one lease run side by side.
LockFreeAlways(r) == TRUE
\* LeaseCompletionLocks: one request of a lease at a time.
LockFree(r) ==
  \A q \in Request \ {r} :
    ~(req[q].lease = req[r].lease /\ req[q].pc \in {"verify", "copy", "register", "finish"})

Enter(r) ==
  /\ req[r].pc = "waiting" /\ LockFree(r)
  /\ GoTo(r, "verify")
  /\ UNCHANGED <<db, staging, row, object, local, retired, recon, evict, poll, faulted, output, overrun>>

\* verify_remote and the pre-check of promote_all; the mirror of an archive
\* only pre-checks.  A closed gate fails a remote result and skips a mirror.
Verify(r) ==
  /\ req[r].pc = "verify"
  /\ IF req[r].channel = "ref"
     THEN IF staging[req[r].lease] = "there" /\ Gate(r) THEN GoTo(r, "copy") ELSE Fails(r)
     ELSE GoTo(r, IF Gate(r) THEN "copy" ELSE "finish")
  /\ UNCHANGED <<db, staging, row, object, local, retired, recon, evict, poll, faulted, output, overrun>>

\* A storage error fails a remote result; the mirror of an archive is best
\* effort.  The copy may have landed although its answer was lost.
GivesUp(r) == IF req[r].channel = "ref" THEN Fails(r) ELSE GoTo(r, "finish")

Copy(r) ==
  /\ req[r].pc = "copy"
  /\ \/ object' = [object EXCEPT ![r] = BytesOf(r)] /\ GoTo(r, "register") /\ NoFault
     \/ object' \in {object, [object EXCEPT ![r] = BytesOf(r)]} /\ GivesUp(r) /\ Happens("storage")
  /\ UNCHANGED <<db, staging, row, local, retired, recon, evict, poll, output, overrun>>

\* register_rows_guarded and the commit: the gate, the file of a remote
\* result, the row.  The superseded key is removed after the commit.
Registered(r) ==
  /\ row' = [key |-> r, hash |-> BytesOf(r)]
  /\ local' = IF req[r].channel = "ref" THEN BytesOf(r) ELSE local

\* Faulty: promote_all removes the Worker's staging object itself.
RegisterDiscarding(r) ==
  /\ req[r].pc = "register" /\ Gate(r)
  /\ Registered(r) /\ GoTo(r, "finish") /\ NoFault
  /\ retired' = retired \cup Superseded
  /\ staging' = [staging EXCEPT ![req[r].lease] = "deleted"]
  /\ UNCHANGED <<db, object, recon, evict, poll, output, overrun>>

Register(r) ==
  /\ req[r].pc = "register" /\ Gate(r)
  /\ Registered(r) /\ GoTo(r, "finish") /\ NoFault
  /\ retired' = retired \cup Superseded
  /\ UNCHANGED <<db, staging, object, recon, evict, poll, output, overrun>>

RegisterRejected(r) ==
  /\ req[r].pc = "register" /\ ~Gate(r)
  /\ GivesUp(r)
  /\ UNCHANGED <<db, staging, row, object, local, retired, recon, evict, poll, faulted, output, overrun>>

\* The connection dies at the commit.  Rolled back or, its answer lost,
\* committed: either way the file is put back and the result is failed.
CommitLost(r) ==
  /\ req[r].pc = "register" /\ Gate(r) /\ Happens("commit")
  /\ row' \in {row, [key |-> r, hash |-> BytesOf(r)]}
  /\ GivesUp(r)
  /\ UNCHANGED <<db, staging, object, local, retired, recon, evict, poll, output, overrun>>

Released(r) == [lease EXCEPT ![req[r].lease].state = IF @ = "active" THEN "released" ELSE @]
\* The staging objects of a remote result go after a finish that was applied.
Discarded(r) ==
  IF req[r].channel = "ref" /\ req[r].ok /\ lease[req[r].lease].state = "active"
  THEN [staging EXCEPT ![req[r].lease] = "deleted"] ELSE staging

\* finish_lease of an attempt that no longer counts: a lease of an older generation
\* is released, one that is no longer active stays as it is; nothing else changes.
FinishLate(r) ==
  /\ req[r].pc = "finish" /\ ~ActiveIn(req[r].lease)
  /\ lease' = Released(r) /\ staging' = Discarded(r)
  /\ GoTo(r, "closed")
  /\ UNCHANGED <<gen, node, consumer, queued, row, object, local, retired, recon, evict, poll, faulted,
                 output, overrun>>

Settle(r, status) ==
  /\ node' = status /\ lease' = Released(r)
  /\ GoTo(r, "closed")

\* The files of an archive move inside the gate; afterwards the staging
\* objects of a remote result are removed.
Finish(r) ==
  /\ req[r].pc = "finish" /\ ActiveIn(req[r].lease) /\ req[r].ok
  /\ Settle(r, "completed")
  /\ local' = IF req[r].channel = "archive" THEN BytesOf(r) ELSE local
  /\ output' = BytesOf(r)
  /\ staging' = Discarded(r)
  /\ UNCHANGED <<gen, consumer, queued, row, object, retired, recon, evict, poll, faulted, overrun>>

FinishFailed(r) ==
  /\ req[r].pc = "finish" /\ ActiveIn(req[r].lease)
  /\ \/ ~req[r].ok /\ NoFault
     \/ req[r].ok /\ req[r].channel = "archive" /\ Happens("disk")
  /\ Settle(r, "failed")
  /\ UNCHANGED <<gen, consumer, queued, staging, row, object, local, retired, recon, evict, poll, output,
                 overrun>>

\* The finish transaction fails after it moved the files: the lease stays.
FinishLost(r) ==
  /\ req[r].pc = "finish" /\ ActiveIn(req[r].lease) /\ req[r].ok /\ Happens("finish")
  /\ local' = IF req[r].channel = "archive" THEN BytesOf(r) ELSE local
  /\ GoTo(r, "closed")
  /\ UNCHANGED <<db, staging, row, object, retired, recon, evict, poll, output, overrun>>

-----------------------------------------------------------------------------
(* Deletion of objects.                                                    *)

Promoting(k) == k \in Request /\ req[k].pc \in {"copy", "register"}

\* delete_objects_guarded: try-lock on the key, no manifest row names it.
DeleteRetired(k) ==
  /\ k \in retired /\ ~Promoting(k)
  /\ object' = IF row.key = k THEN object ELSE [object EXCEPT ![k] = None]
  /\ retired' = retired \ {k}
  /\ UNCHANGED <<db, staging, row, local, req, recon, evict, poll, faulted, output, overrun>>

\* Faulty: the batch is deleted without asking the manifest again.
OrphanByScan(k) == TRUE
\* apply_gc asks the manifest right before it deletes.
Orphan(k) == row.key # k

\* The grace window outlasts an upload in progress.
GcDelete(k) ==
  /\ object[k] # None /\ Orphan(k) /\ ~Promoting(k) /\ recon.key # k
  /\ object' = [object EXCEPT ![k] = None]
  /\ UNCHANGED <<db, staging, row, local, req, retired, recon, evict, poll, faulted, output, overrun>>

-----------------------------------------------------------------------------
(* The maintenance thread: reupload_missing, then eviction.                *)

\* Some attempt completed inside the window; the manifest is prefetched.
ReconScan ==
  /\ recon.pc = "idle" /\ evict = None
  /\ \E l \in Lease : lease[l].state = "released"
  /\ recon' = [Idle EXCEPT !.pc = "scanned", !.seen = row.hash]
  /\ UNCHANGED <<db, staging, row, object, local, req, retired, evict, poll, faulted, output, overrun>>

\* The row is missing or its hash is not that of the file.
RowStale == recon.seen # local

ReconHash(k) ==
  /\ recon.pc = "scanned" /\ local # None /\ RowStale
  /\ k \notin retired \cup {row.key} /\ object[k] = None
  /\ recon' = [recon EXCEPT !.pc = "hashed", !.key = k, !.hash = local, !.seen = None]
  /\ UNCHANGED <<db, staging, row, object, local, req, retired, evict, poll, faulted, output, overrun>>

ReconNothing ==
  /\ recon.pc = "scanned" /\ (local = None \/ ~RowStale)
  /\ recon' = Idle
  /\ UNCHANGED <<db, staging, row, object, local, req, retired, evict, poll, faulted, output, overrun>>

\* put_stream opens the file again; a missing file or an outage ends the upload.
ReconPut ==
  /\ recon.pc = "hashed"
  /\ \/ local # None /\ object' = [object EXCEPT ![recon.key] = local]
        /\ recon' = [recon EXCEPT !.pc = "put"] /\ NoFault
     \/ local = None /\ recon' = Idle /\ UNCHANGED object /\ NoFault
     \/ recon' = Idle /\ UNCHANGED object /\ Happens("storage")
  /\ UNCHANGED <<db, staging, row, local, req, retired, evict, poll, output, overrun>>

\* _register_row: no gate, no generation.
ReconRegister ==
  /\ recon.pc = "put"
  /\ row' = [key |-> recon.key, hash |-> recon.hash]
  /\ retired' = retired \cup Superseded
  /\ recon' = Idle
  /\ UNCHANGED <<db, staging, object, local, req, evict, poll, faulted, output, overrun>>

Evictable == consumer = "completed" /\ \A l \in Lease : lease[l].state # "active"

\* Faulty: any manifest row certifies the file.
CertifiedByRow == row # NoRow
\* The row's hash is that of the file.
Certified == row.hash = local

EvictSnapshot ==
  /\ evict = None /\ recon.pc = "idle"
  /\ Evictable /\ local # None /\ Certified
  /\ evict' = local
  /\ UNCHANGED <<db, staging, row, object, local, req, retired, recon, poll, faulted, output, overrun>>

\* History: the file that goes is not the one the thread knows of.
RunsOver(known) == overrun' = overrun \cup ({local} \ {None, known})

\* Before each unlink the job and its leases are read again, the row and the file not.
EvictUnlink ==
  /\ evict # None
  /\ IF Evictable THEN local' = None /\ RunsOver(evict) ELSE UNCHANGED <<local, overrun>>
  /\ evict' = None
  /\ UNCHANGED <<db, staging, row, object, req, retired, recon, poll, faulted, output>>

-----------------------------------------------------------------------------
(* Hydration: a consumer may run and its input is not in the job directory.*)

HydrateStart ==
  /\ poll.pc = "idle" /\ consumer = "waiting" /\ local = None
  /\ poll' = [poll EXCEPT !.pc = "read", !.generation = gen]
  /\ UNCHANGED <<db, staging, row, object, local, req, retired, recon, evict, faulted, output, overrun>>

HydrateRows ==
  /\ poll.pc = "read"
  /\ poll' = IF row = NoRow THEN PollIdle
             ELSE [poll EXCEPT !.pc = "rows", !.row = row]
  /\ UNCHANGED <<db, staging, row, object, local, req, retired, recon, evict, faulted, output, overrun>>

\* restore_rows: the object is gone, its hash differs, or it replaces whatever file
\* there is by now.
HydrateRestore ==
  /\ poll.pc = "rows"
  /\ IF object[poll.row.key] = poll.row.hash
     THEN /\ local' = poll.row.hash /\ RunsOver(poll.row.hash)
          /\ poll' = [poll EXCEPT !.pc = "restored", !.row = NoRow]
     ELSE UNCHANGED <<local, overrun>> /\ poll' = PollIdle
  /\ UNCHANGED <<db, staging, row, object, req, retired, recon, evict, faulted, output>>

\* The generation read before the manifest still holds.
SameGeneration == poll.generation = gen

HydrateRecheck ==
  /\ poll.pc = "restored"
  /\ local' = IF SameGeneration THEN local ELSE None
  /\ poll' = PollIdle
  /\ UNCHANGED <<db, staging, row, object, req, retired, recon, evict, faulted, output, overrun>>

\* The Host stops: threads and pending deletions are gone.
HostCrash ==
  /\ "crash" \in Fault
  /\ req' = [r \in Request |-> IF req[r].pc = "new" THEN req[r] ELSE [req[r] EXCEPT !.pc = "closed"]]
  /\ retired' = {} /\ recon' = Idle /\ evict' = None
  /\ poll' = PollIdle
  /\ UNCHANGED <<db, staging, row, object, local, faulted, output, overrun>>

-----------------------------------------------------------------------------
Result(r) ==
  \/ Enter(r) \/ Verify(r) \/ Copy(r) \/ Register(r) \/ RegisterRejected(r)
  \/ FinishLate(r) \/ Finish(r) \/ FinishFailed(r)

Maintenance ==
  \/ ReconScan \/ ReconNothing \/ ReconPut \/ ReconRegister \/ EvictSnapshot \/ EvictUnlink
  \/ \E k \in Pass : ReconHash(k)

Hydrate == HydrateStart \/ HydrateRows \/ HydrateRestore \/ HydrateRecheck

Next ==
  \/ Enqueue \/ ConsumerStarts \/ ConsumerCompletes \/ RerunConsumer \/ RerunProducer
  \/ \E l \in Lease : Claim(l) \/ WorkerUpload(l) \/ Sweep(l)
  \/ \E r \in Request :
       \/ Result(r) \/ CommitLost(r) \/ FinishLost(r)
       \/ \E l \in Lease, ch \in {"ref", "archive"} : Report(r, l, ch)
  \/ \E k \in Key : DeleteRetired(k) \/ GcDelete(k)
  \/ Maintenance \/ Hydrate \/ HostCrash

Spec == Init /\ [][Next]_vars

-----------------------------------------------------------------------------
(* Properties.                                                             *)

\* A row that a guarded promote wrote names an object with the bytes whose hash
\* it records, whatever is deleted, rerun or collected meanwhile
\* (promote_to_authority_guarded, artifact_version_key).
RowHasItsBytes == row.key \in Request => object[row.key] = row.hash

\* While the node is completed, the file in the job directory is the output of
\* the result that completed it: no late result, no swept or earlier attempt, no
\* registration of the reconciler and no restore after an eviction puts other bytes
\* there (EXEC-GENERATION-001, byte plane).  Exempt is an output that was itself run
\* over: restored over by a hydration that had found no file before it landed, or
\* unlinked by an eviction that had certified another file before it landed.  The
\* code does not prevent these two (restore_rows, evict_cache_to_capacity).
LocalIsOutput ==
  node = "completed" /\ local # None /\ output \notin overrun => local = output

\* The attempt a result's bytes come from, and whether its results all came over
\* one channel, or no finish was lost after it had moved its files.
AttemptOf(b) == IF b \in Lease THEN b ELSE req[b].lease
OneChannel(l) ==
  \A q, r \in Request : req[q].lease = l /\ req[r].lease = l => req[q].channel = req[r].channel
Plain(b) == "finish" \notin faulted \/ OneChannel(AttemptOf(b))

\* The bytes of a completed node are somewhere: in the job directory or in the
\* object its row names (EXEC-ARTIFACT-STORE-001).  Exempt are an output that was run
\* over, as in LocalIsOutput, and an attempt that reported over both channels, a
\* finish having been lost: there the reconciler may read one file and upload another.
OutputSurvives ==
  node = "completed" /\ output \notin overrun /\ Plain(output)
  => local = output \/ (row.key # None /\ object[row.key] = output)

\* Of several results of one lease, the row and the node come from the same one,
\* unless a mirror or a commit failed: a row a promote wrote carries the bytes of
\* the result that completed the node (LeaseCompletionLocks).
OneResultPerLease ==
  node = "completed" /\ faulted \cap {"storage", "commit"} = {} /\ row.key \in Request
  => row.hash = output

\* A result whose Worker succeeded fails its node only for an error of storage,
\* commit or disk: a retry after a lost finish still finds what it must verify
\* (discard_staging_refs only after the finish).
OnlyFaultsFail == node = "failed" => faulted \cap {"storage", "commit", "disk"} # {}

\* "a file is only ever unlinked when its job_artifacts row exists"
\* (evict_cache_to_capacity).
UnlinkNeedsRow == [][evict # None /\ evict' = None /\ local # None /\ local' = None
                       => row # NoRow]_vars

\* LocalIsOutput with no exemption: a restore never replaces the file of a node that
\* has completed since the file was found missing.
LocalIsAlwaysOutput == node = "completed" /\ local # None => local = output

-----------------------------------------------------------------------------
(* What holds of every reachable state, stated to be inductive.            *)

Working == {"verify", "copy", "register", "finish"}

\* An attempt that counts is the only one, of this generation, and its node runs.
Attempts ==
  /\ \A l \in Lease :
       /\ lease[l].generation <= gen
       /\ lease[l].state = "active" => lease[l].generation = gen /\ node = "running"
       /\ staging[l] # "none" => lease[l].state # "none"
       /\ staging[l] = "deleted" => lease[l].state = "released"
  /\ \A l, m \in Lease : lease[l].state = "active" /\ lease[m].state = "active" => l = m
  /\ consumer # "waiting" => node = "completed"
  /\ queued => node = "pending"

\* A result belongs to a lease that was granted, and goes on unless it failed;
\* results of one lease take turns.
Results ==
  /\ \A r \in Request :
       IF req[r].pc = "new" THEN req[r].lease = None
       ELSE /\ req[r].lease \in Lease /\ lease[req[r].lease].state # "none"
            /\ req[r].channel = "ref" => staging[req[r].lease] # "none"
            /\ ~req[r].ok => req[r].pc \in {"finish", "closed"}
  /\ \A q, r \in Request :
       q # r /\ req[q].pc \in Working /\ req[r].pc \in Working => req[q].lease # req[r].lease

\* What a promote put under its key stays there as long as a row may name it;
\* the reconciler's key is its own until it has registered it.
Objects ==
  /\ row.key \in Request => /\ req[row.key].pc \in {"finish", "closed"}
                            /\ object[row.key] = row.hash /\ row.hash = BytesOf(row.key)
  /\ \A r \in Request : req[r].pc = "register" => object[r] = BytesOf(r)
  /\ recon.key \in Pass \cup {None}
  /\ recon.pc \in {"hashed", "put"} => /\ recon.hash # None /\ recon.key \in Pass
                                      /\ recon.key \notin retired \cup {row.key}

\* The threads of the Host exclude each other where the code makes them.
Turns ==
  /\ evict # None => recon.pc = "idle"
  /\ poll.pc # "idle" => /\ consumer = "waiting"
                         /\ poll.generation = gen \/ (node = "pending" /\ ~queued)
  /\ poll.pc = "rows" => poll.row # NoRow

PlaneInv == TypeOK /\ Attempts /\ Results /\ Objects /\ Turns

\* Every failed result of the current attempt, and every failed node, has its fault.
Blame ==
  /\ \A r \in Request :
       req[r].pc = "finish" /\ ~req[r].ok /\ ActiveIn(req[r].lease)
       => faulted \cap {"storage", "commit", "disk"} # {}
  /\ OnlyFaultsFail

\* The row of a promote is that of the result about to complete the node.
OneSource ==
  /\ faulted \cap {"storage", "commit"} = {} =>
       \A r \in Request :
         req[r].pc = "finish" /\ req[r].ok /\ ActiveIn(req[r].lease) /\ row.key \in Request
         => row.key = r
  /\ OneResultPerLease

\* Bytes that are, or may still become, the output of the completed node.
Potential(b) ==
  \/ node = "completed" /\ output = b
  \/ b \in Lease /\ ActiveIn(b)
  \/ /\ b \in Request /\ req[b].pc \in Working \cup {"waiting"}
     /\ req[b].channel = "archive" /\ ActiveIn(req[b].lease)

Traces == {local, row.hash, recon.hash, poll.row.hash, evict} \ {None}

\* Bytes somebody holds were reported: as references, or as an archive at its end.
Reported(b) ==
  /\ b \in Lease => \E q \in Request : req[q].lease = b /\ req[q].channel = "ref"
  /\ b \in Request => req[b].pc \in {"finish", "closed"} /\ req[b].channel = "archive"

\* The file is that of the result that is about to complete the node.
Delivered ==
  \A r \in Request :
    /\ req[r].pc = "finish" /\ req[r].ok /\ req[r].channel = "ref" /\ ActiveIn(req[r].lease)
    /\ req[r].lease \notin overrun
    => local = req[r].lease

\* An eviction holds no bytes that an attempt may still deliver.
CertifiedIsPast == evict # None /\ node # "completed" => ~Potential(evict)

\* The file of a completed node is its output; without a file, the row has its hash
\* and nobody overwrites the row, or restores anything else; an eviction that took its
\* bytes for its candidate still has them certified.
Settled ==
  node = "completed" /\ output \notin overrun =>
    /\ output # None
    /\ local \in {None, output}
    /\ local = None => /\ row.key # None /\ row.hash = output
                       /\ recon.pc \in {"idle", "scanned"} /\ evict = None
                       /\ poll.pc = "rows" => poll.row.hash = output
    /\ evict = output => row.hash = output

FileInv == (\A b \in Traces : Reported(b)) /\ Delivered /\ CertifiedIsPast /\ Settled

\* Bytes that can still matter, and that no exemption of OutputSurvives covers.
Matters(b) == Potential(b) /\ b \notin overrun /\ Plain(b)

\* A file that can still matter is the one the reconciler hashed.
FileMatters == recon.pc = "hashed" /\ Matters(recon.hash) => local = recon.hash

\* A key the reconciler wrote may hold other bytes than its row says (the file is
\* read twice), but never if the row's hash can still matter.
KeysMatter ==
  /\ recon.pc = "put" /\ Matters(recon.hash) => object[recon.key] = recon.hash
  /\ row.key \in Pass /\ Matters(row.hash) => object[row.key] = row.hash

SurvivalInv == FileMatters /\ KeysMatter

=============================================================================
