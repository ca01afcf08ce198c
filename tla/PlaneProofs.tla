---------------------------- MODULE PlaneProofs -----------------------------
(***************************************************************************)
(* What is proved of ArtifactPlane for every number of attempts, results,  *)
(* keys and reruns.                                                        *)
(***************************************************************************)
EXTENDS ArtifactPlane, TLAPS

-----------------------------------------------------------------------------
(* Types.                                                                  *)

Thread == [pc : {"new", "waiting", "verify", "copy", "register", "finish", "closed"},
           lease : Lease \cup {None}, channel : {"ref", "archive"}, ok : BOOLEAN]
Attempt == [state : {"none", "active", "released", "swept"}, generation : 0..MaxGen]
Reconciler == [pc : {"idle", "scanned", "hashed", "put"}, key : Key \cup {None},
               hash : Bytes \cup {None}, seen : Bytes \cup {None}]
Poll == [pc : {"idle", "read", "rows", "restored"}, generation : 0..MaxGen, row : RowType]

\* The initial state is of the declared types.
LEMMA InitTypeOK == Init => TypeOK
  <1> SUFFICES ASSUME Init PROVE TypeOK
    OBVIOUS
  <1>1. None \notin Request /\ 0 \in 0..MaxGen
    BY PlaneAssumption DEF Bytes, Key
  <1>2. req \in [Request -> Thread]
    BY DEF Init, Closed, Thread
  <1>3. lease \in [Lease -> Attempt]
    BY <1>1 DEF Init, Attempt
  <1> QED
    BY <1>1, <1>2, <1>3 DEF Init, TypeOK, RowType, Idle, PollIdle, NoRow, Thread, Attempt

\* A claim and a sweep keep the types if the leases keep theirs.
LEMMA LeasesTyped ==
  ASSUME TypeOK, lease' \in [Lease -> Attempt],
         node' \in {"pending", "running"}, queued' \in BOOLEAN,
         UNCHANGED <<gen, consumer, staging, row, object, local, req, retired, recon, evict, poll,
                     faulted, output, overrun>>
  PROVE  TypeOK'
BY DEF TypeOK, Attempt

\* Every step of the poll thread and the operator, of an attempt and of a
\* deletion keeps the types.
LEMMA TypeStepRest ==
  ASSUME TypeOK,
         \/ Enqueue \/ ConsumerStarts \/ ConsumerCompletes \/ RerunConsumer \/ RerunProducer
         \/ \E l \in Lease : Claim(l) \/ WorkerUpload(l) \/ Sweep(l)
         \/ \E k \in Key : DeleteRetired(k) \/ GcDelete(k)
  PROVE  TypeOK'
  <1>1. CASE Enqueue
    BY <1>1 DEF TypeOK, Enqueue
  <1>2. CASE ConsumerStarts
    BY <1>2 DEF TypeOK, ConsumerStarts
  <1>3. CASE ConsumerCompletes
    BY <1>3 DEF TypeOK, ConsumerCompletes
  <1>4. CASE RerunConsumer
    BY <1>4, PlaneAssumption DEF TypeOK, RerunConsumer
  <1>5. CASE RerunProducer
    <2>1. Superseded \subseteq Key
      BY DEF TypeOK, Superseded, RowType, NoRow
    <2>2. row' \in RowType /\ retired' \subseteq Key /\ local' \in Bytes \cup {None}
      BY <1>5, <2>1 DEF TypeOK, RerunProducer, RowType
    <2>3. /\ gen' \in 0..MaxGen /\ node' = "pending" /\ consumer' = "waiting" /\ queued' = FALSE
          /\ output' = None /\ overrun' = {}
      BY <1>5, PlaneAssumption DEF TypeOK, RerunProducer
    <2>4. UNCHANGED <<lease, staging, object, req, recon, evict, poll, faulted>>
      BY <1>5 DEF RerunProducer
    <2> QED
      BY <2>2, <2>3, <2>4 DEF TypeOK
  <1>6. ASSUME NEW l \in Lease, Claim(l) PROVE TypeOK'
    <2>1. [state |-> "active", generation |-> gen] \in Attempt
      BY DEF TypeOK, Attempt
    <2>2. lease' \in [Lease -> Attempt]
      BY <1>6, <2>1 DEF TypeOK, Claim, Attempt
    <2>3. /\ node' = "running" /\ queued' = FALSE
          /\ UNCHANGED <<gen, consumer, staging, row, object, local, req, retired, recon, evict,
                         poll, faulted, output, overrun>>
      BY <1>6 DEF Claim
    <2> QED
      BY <2>2, <2>3, LeasesTyped
  <1>7. ASSUME NEW l \in Lease, WorkerUpload(l) PROVE TypeOK'
    BY <1>7 DEF TypeOK, WorkerUpload, db
  <1>8. ASSUME NEW l \in Lease, Sweep(l) PROVE TypeOK'
    BY <1>8 DEF TypeOK, Sweep
  <1>9. ASSUME NEW k \in Key, DeleteRetired(k) PROVE TypeOK'
    BY <1>9 DEF TypeOK, DeleteRetired, db
  <1>10. ASSUME NEW k \in Key, GcDelete(k) PROVE TypeOK'
    BY <1>10 DEF TypeOK, GcDelete, db
  <1> QED
    BY <1>1, <1>2, <1>3, <1>4, <1>5, <1>6, <1>7, <1>8, <1>9, <1>10

\* The row a write of the manifest leaves, and the keys it retires, are typed.
LEMMA RowsTyped ==
  ASSUME TypeOK, NEW r \in Request, req[r].lease \in Lease
  PROVE  /\ BytesOf(r) \in Bytes
         /\ [key |-> r, hash |-> BytesOf(r)] \in RowType
         /\ Superseded \subseteq Key
BY DEF TypeOK, BytesOf, Bytes, RowType, Key, Superseded, NoRow

\* A thread goes to another place, or fails.
Moves(r) ==
  (\E pc \in {"verify", "copy", "register", "finish", "closed"} : GoTo(r, pc)) \/ Fails(r)

\* The places of a thread keep it typed.
LEMMA ReqTyped ==
  ASSUME TypeOK, NEW r \in Request, Moves(r)
  PROVE  req' \in [Request -> Thread]
  <1>1. req \in [Request -> Thread]
    BY DEF TypeOK, Thread
  <1>2. ASSUME NEW pc \in {"verify", "copy", "register", "finish", "closed"}, GoTo(r, pc)
        PROVE  req' \in [Request -> Thread]
    <2>1. [req[r] EXCEPT !.pc = pc] \in Thread
      BY <1>1 DEF Thread
    <2> QED
      BY <1>1, <1>2, <2>1 DEF GoTo
  <1>3. CASE Fails(r)
    <2>1. [req[r] EXCEPT !.pc = "finish", !.ok = FALSE] \in Thread
      BY <1>1 DEF Thread
    <2>2. req' = [req EXCEPT ![r] = [req[r] EXCEPT !.pc = "finish", !.ok = FALSE]]
      BY <1>1, <1>3 DEF Fails
    <2> QED
      BY <1>1, <2>1, <2>2
  <1> QED
    BY <1>2, <1>3 DEF Moves

\* An attempt that counts is released by its finish, and the finish of one that does
\* not changes no lease: a rerun finds none active.
LEMMA LateFinish ==
  ASSUME TypeOK, Attempts, Results, NEW r \in Request, FinishLate(r)
  PROVE  UNCHANGED <<db, staging>>
  <1>1. PICK l \in Lease : l = req[r].lease
    BY DEF FinishLate, Results
  <1>2. lease[l].state # "active"
    BY <1>1 DEF FinishLate, ActiveIn, Attempts
  <1>3. lease' = lease /\ staging' = staging
    BY <1>1, <1>2 DEF FinishLate, Released, Discarded, TypeOK
  <1> QED
    BY <1>3 DEF FinishLate, db

\* The finish of an attempt that counts releases its lease and drops the staging of a
\* good remote result.
LEMMA Releases ==
  ASSUME TypeOK, NEW r \in Request, NEW l \in Lease, l = req[r].lease, ActiveIn(l)
  PROVE  /\ Released(r) = [lease EXCEPT ![l].state = "released"]
         /\ req[r].ok => Discarded(r) = IF req[r].channel = "ref" THEN [staging EXCEPT ![l] = "deleted"]
                                        ELSE staging
BY DEF Released, Discarded, ActiveIn, TypeOK

\* Every step of a result keeps the types.
LEMMA TypeStepResult ==
  ASSUME TypeOK, Attempts, Results, NEW r \in Request,
         \/ Result(r) \/ CommitLost(r) \/ FinishLost(r)
         \/ \E l \in Lease, ch \in {"ref", "archive"} : Report(r, l, ch)
  PROVE  TypeOK'
  <1>0. req[r].pc # "new" => req[r].lease \in Lease /\ BytesOf(r) \in Bytes
    BY RowsTyped DEF Results
  <1>1. ASSUME NEW l \in Lease, NEW ch \in {"ref", "archive"}, Report(r, l, ch) PROVE TypeOK'
    <2>1. req' \in [Request -> Thread]
      BY <1>1 DEF TypeOK, Report, Thread
    <2>2. UNCHANGED <<db, staging, row, object, local, retired, recon, evict, poll, faulted, output,
                      overrun>>
      BY <1>1 DEF Report
    <2> QED
      BY <2>1, <2>2 DEF TypeOK, Thread, db
  <1>2. Moves(r) => req' \in [Request -> Thread]
    BY ReqTyped
  <1>3. ASSUME Moves(r), UNCHANGED <<db, staging, recon, evict, poll, output, overrun>>,
               row' \in RowType, object' \in [Key -> Bytes \cup {None}],
               local' \in Bytes \cup {None}, retired' \subseteq Key, faulted' \subseteq Fault
        PROVE  TypeOK'
    BY <1>2, <1>3 DEF TypeOK, Thread, db
  <1>4. Enter(r) \/ Verify(r) \/ RegisterRejected(r) \/ FinishLate(r) => TypeOK'
    <2>1. Enter(r) => Moves(r)
      BY DEF Enter, Moves
    <2>2. Verify(r) => Moves(r)
      BY DEF Verify, Moves
    <2>3. RegisterRejected(r) => Moves(r)
      BY DEF RegisterRejected, GivesUp, Moves
    <2>4. FinishLate(r) => Moves(r)
      BY DEF FinishLate, Moves
    <2> QED
      BY <1>3, <2>1, <2>2, <2>3, <2>4, LateFinish DEF Enter, Verify, RegisterRejected, FinishLate, TypeOK
  <1>5. CASE Copy(r)
    <2>1. Moves(r)
      BY <1>5 DEF Copy, GivesUp, Moves
    <2>2. object' \in [Key -> Bytes \cup {None}] /\ faulted' \subseteq Fault
      BY <1>0, <1>5 DEF TypeOK, Copy, Happens, NoFault
    <2> QED
      BY <1>3, <1>5, <2>1, <2>2 DEF TypeOK, Copy
  <1>6. CASE Register(r)
    <2>1. row' \in RowType /\ local' \in Bytes \cup {None} /\ retired' \subseteq Key
      BY <1>0, <1>6, RowsTyped DEF TypeOK, Register, Registered
    <2> QED
      BY <1>3, <1>6, <2>1 DEF TypeOK, Register, NoFault, Moves
  <1>7. CASE CommitLost(r)
    <2>1. Moves(r)
      BY <1>7 DEF CommitLost, GivesUp, Moves
    <2>2. row' \in RowType /\ faulted' \subseteq Fault
      BY <1>0, <1>7, RowsTyped DEF TypeOK, CommitLost, Happens
    <2> QED
      BY <1>3, <1>7, <2>1, <2>2 DEF TypeOK, CommitLost
  <1>8. CASE FinishLost(r)
    <2>1. local' \in Bytes \cup {None} /\ faulted' \subseteq Fault
      BY <1>0, <1>8 DEF TypeOK, FinishLost, Happens
    <2> QED
      BY <1>3, <1>8, <2>1 DEF TypeOK, FinishLost, Moves
  <1>9. ASSUME NEW status \in {"completed", "failed"}, Settle(r, status), req[r].pc = "finish",
               UNCHANGED <<gen, consumer, queued, row, object, retired, recon, evict, poll, overrun>>,
               staging' \in [Lease -> {"none", "there", "deleted"}], faulted' \subseteq Fault,
               local' \in Bytes \cup {None}, output' \in Bytes \cup {None}
        PROVE  TypeOK'
    <2>1. [lease[req[r].lease] EXCEPT !.state = "released"] \in Attempt
      BY <1>0, <1>9 DEF TypeOK, Attempt
    <2>2. lease' \in [Lease -> Attempt]
      BY <1>0, <1>9, <2>1 DEF TypeOK, Settle, Released, Attempt
    <2>3. Moves(r) /\ node' \in {"pending", "running", "completed", "failed"}
      BY <1>9 DEF Settle, Moves
    <2> QED
      BY <1>2, <1>9, <2>2, <2>3 DEF TypeOK, Thread, Attempt
  <1>10. CASE Finish(r)
    <2>1. local' \in Bytes \cup {None} /\ output' \in Bytes \cup {None}
      BY <1>0, <1>10 DEF TypeOK, Finish
    <2>2. staging' \in [Lease -> {"none", "there", "deleted"}]
      BY <1>10 DEF TypeOK, Finish, Discarded
    <2> QED
      BY <1>9, <1>10, <2>1, <2>2 DEF TypeOK, Finish
  <1>11. CASE FinishFailed(r)
    <2>1. faulted' \subseteq Fault
      BY <1>11 DEF TypeOK, FinishFailed, NoFault, Happens
    <2> QED
      BY <1>9, <1>11, <2>1 DEF TypeOK, FinishFailed
  <1> QED
    BY <1>1, <1>4, <1>5, <1>6, <1>7, <1>8, <1>10, <1>11 DEF Result

\* Every step of the maintenance and the poll thread, and a stop of the Host,
\* keeps the types.
LEMMA TypeStepHost ==
  ASSUME TypeOK, Objects, Maintenance \/ Hydrate \/ HostCrash
  PROVE  TypeOK'
  <1>0. /\ PollIdle \in Poll
        /\ row.hash \in Bytes \cup {None} /\ poll.row \in RowType /\ poll.row.hash \in Bytes \cup {None}
        /\ NoRow \in RowType /\ Idle \in Reconciler
    BY PlaneAssumption DEF TypeOK, RowType, NoRow, Idle, Reconciler, PollIdle, Poll
  <1>1. recon \in Reconciler /\ poll \in Poll
    BY DEF TypeOK, Reconciler, Poll
  <1>2. ASSUME UNCHANGED <<db, staging, req, output>>, overrun' \subseteq Bytes, recon' \in Reconciler, poll' \in Poll,
               row' \in RowType, object' \in [Key -> Bytes \cup {None}],
               local' \in Bytes \cup {None}, retired' \subseteq Key, faulted' \subseteq Fault,
               evict' \in Bytes \cup {None}
        PROVE  TypeOK'
    BY <1>2 DEF TypeOK, Reconciler, Poll, db
  <1>3. ReconScan => recon' \in Reconciler
    BY <1>0, <1>1 DEF ReconScan, Reconciler, Idle
  <1>4. ReconScan \/ ReconNothing \/ EvictSnapshot \/ EvictUnlink => TypeOK'
    BY <1>0, <1>1, <1>2, <1>3
       DEF TypeOK, ReconScan, ReconNothing, EvictSnapshot, EvictUnlink, RunsOver
  <1>5. CASE ReconPut
    <2>1. object' \in [Key -> Bytes \cup {None}] /\ faulted' \subseteq Fault
      BY <1>5 DEF TypeOK, ReconPut, NoFault, Happens
    <2>2. recon' \in Reconciler
      BY <1>0, <1>1, <1>5 DEF ReconPut, Reconciler
    <2> QED
      BY <1>1, <1>2, <1>5, <2>1, <2>2 DEF TypeOK, ReconPut
  <1>6. CASE ReconRegister
    <2>1. row' \in RowType /\ retired' \subseteq Key
      BY <1>0, <1>6 DEF TypeOK, ReconRegister, Objects, RowType, Superseded, NoRow, Key
    <2> QED
      BY <1>0, <1>1, <1>2, <1>6, <2>1 DEF TypeOK, ReconRegister
  <1>7. ASSUME NEW k \in Pass, ReconHash(k) PROVE TypeOK'
    <2>1. recon' \in Reconciler
      BY <1>1, <1>7 DEF TypeOK, ReconHash, Key, Reconciler
    <2> QED
      BY <1>1, <1>2, <1>7, <2>1 DEF TypeOK, ReconHash
  <1>8. CASE Hydrate
    <2>1. poll' \in Poll
      BY <1>0, <1>1, <1>8, ZenonT(60)
         DEF TypeOK, Hydrate, HydrateStart, HydrateRows, HydrateRestore, HydrateRecheck, Poll, PollIdle
    <2>2. local' \in Bytes \cup {None} /\ overrun' \subseteq Bytes
      BY <1>0, <1>8
         DEF TypeOK, Hydrate, HydrateStart, HydrateRows, HydrateRestore, HydrateRecheck, RunsOver
    <2>3. UNCHANGED <<db, staging, row, object, req, retired, recon, evict, faulted, output>>
      BY <1>8 DEF Hydrate, HydrateStart, HydrateRows, HydrateRestore, HydrateRecheck
    <2> QED
      BY <1>1, <1>2, <2>1, <2>2, <2>3 DEF TypeOK
  <1>9. CASE HostCrash
    <2>1. req \in [Request -> Thread] /\ \A q \in Request : [req[q] EXCEPT !.pc = "closed"] \in Thread
      BY SMTT(60) DEF TypeOK, Thread
    <2>2. req' \in [Request -> Thread]
      BY <1>9, <2>1 DEF HostCrash
    <2>3. poll' \in Poll
      BY <1>0, <1>1, <1>9 DEF HostCrash, Poll, PollIdle
    <2>4. recon' \in Reconciler /\ retired' \subseteq Key /\ evict' = None
      BY <1>0, <1>9 DEF TypeOK, HostCrash
    <2> QED
      BY <1>9, <2>2, <2>3, <2>4 DEF TypeOK, HostCrash, db, Thread, Poll, PollIdle, Reconciler
  <1> QED
    BY <1>4, <1>5, <1>6, <1>7, <1>8, <1>9 DEF Maintenance

\* A step keeps the types.
LEMMA TypeStep == ASSUME TypeOK, Attempts, Results, Objects, Next PROVE TypeOK'
BY TypeStepRest, TypeStepResult, TypeStepHost DEF Next

-----------------------------------------------------------------------------
(* Attempts and results.                                                   *)

\* The steps that touch the rows of the attempt, or its staging object.
LEMMA DbSteps ==
  ASSUME TypeOK, Attempts, Results, Next
  PROVE  \/ UNCHANGED <<db, staging>>
         \/ Enqueue \/ ConsumerStarts \/ ConsumerCompletes \/ RerunConsumer \/ RerunProducer
         \/ \E l \in Lease : Claim(l) \/ WorkerUpload(l) \/ Sweep(l)
         \/ \E r \in Request : Finish(r) \/ FinishFailed(r)
  <1>1. ASSUME NEW r \in Request,
               \/ Result(r) \/ CommitLost(r) \/ FinishLost(r)
               \/ \E l \in Lease, ch \in {"ref", "archive"} : Report(r, l, ch)
        PROVE  UNCHANGED <<db, staging>> \/ Finish(r) \/ FinishFailed(r)
    BY <1>1, LateFinish
       DEF Result, Enter, Verify, Copy, Register, RegisterRejected, CommitLost, FinishLost, Report
  <1>2. ASSUME \/ \E k \in Key : DeleteRetired(k) \/ GcDelete(k)
               \/ Maintenance \/ Hydrate \/ HostCrash
        PROVE  UNCHANGED <<db, staging>>
    BY <1>2 DEF DeleteRetired, GcDelete, Maintenance, ReconScan, ReconNothing, ReconPut, ReconRegister,
                EvictSnapshot, EvictUnlink, ReconHash, Hydrate, HydrateStart, HydrateRows,
                HydrateRestore, HydrateRecheck, HostCrash
  <1> QED
    BY <1>1, <1>2 DEF Next

\* The end of an attempt: its lease was the active one.
LEMMA SettleKeepsAttempts ==
  ASSUME TypeOK, Attempts, NEW r \in Request, NEW status \in {"completed", "failed"},
         req[r].lease \in Lease, ActiveIn(req[r].lease), Settle(r, status),
         UNCHANGED <<gen, consumer, queued>>,
         \A l \in Lease : staging'[l] # staging[l] =>
           l = req[r].lease /\ staging[l] # "none" /\ staging'[l] = "deleted"
  PROVE  Attempts'
  <1> DEFINE l == req[r].lease
  <1>1. node = "running" /\ ~queued /\ consumer = "waiting"
    BY DEF Attempts, ActiveIn, TypeOK
  <1>2. /\ lease'[l].state = "released" /\ lease'[l].generation = lease[l].generation
        /\ \A m \in Lease \ {l} : lease'[m] = lease[m] /\ lease[m].state # "active"
    <2>1. lease' = [lease EXCEPT ![l].state = "released"]
      BY Releases DEF Settle
    <2> QED
      BY <2>1 DEF TypeOK, Attempts, ActiveIn
  <1> HIDE DEF l
  <1>3. \A m \in Lease : lease'[m].state # "active" /\ lease'[m].generation <= gen'
    BY <1>2 DEF Attempts
  <1>4. \A m \in Lease : /\ staging'[m] # "none" => lease'[m].state # "none"
                         /\ staging'[m] = "deleted" => lease'[m].state = "released"
    BY <1>2 DEF Attempts, l
  <1> QED
    BY <1>1, <1>3, <1>4 DEF Attempts

\* A step keeps what leases, node and consumer say about each other.
LEMMA AttemptsStep == ASSUME TypeOK, Attempts, Results, Next PROVE Attempts'
  <1>1. CASE UNCHANGED <<db, staging>>
    BY <1>1 DEF Attempts, db
  <1>2. CASE Enqueue
    BY <1>2 DEF Attempts, Enqueue
  <1>3. CASE ConsumerStarts
    BY <1>3 DEF Attempts, ConsumerStarts
  <1>4. CASE ConsumerCompletes
    BY <1>4 DEF Attempts, ConsumerCompletes
  <1>5. CASE RerunConsumer
    <2>1. node = "completed" /\ \A l \in Lease : lease[l].state # "active"
      BY <1>5 DEF Attempts, RerunConsumer
    <2>2. \A l \in Lease : lease[l].generation <= gen + 1
      BY DEF Attempts, TypeOK
    <2> QED
      BY <1>5, <2>1, <2>2 DEF Attempts, RerunConsumer
  <1>6. CASE RerunProducer
    <2>1. \A l \in Lease : lease[l].state # "active"
      BY <1>6 DEF Attempts, RerunProducer
    <2>2. \A l \in Lease : lease[l].generation <= gen + 1
      BY DEF Attempts, TypeOK
    <2> QED
      BY <1>6, <2>1, <2>2 DEF Attempts, RerunProducer
  <1>7. ASSUME NEW l \in Lease, Claim(l) PROVE Attempts'
    <2>1. /\ lease'[l] = [state |-> "active", generation |-> gen] /\ node' = "running"
          /\ \A m \in Lease \ {l} : lease'[m] = lease[m] /\ lease[m].state # "active"
          /\ staging' = staging /\ staging[l] = "none" /\ queued' = FALSE /\ gen' = gen
          /\ consumer' = "waiting"
      BY <1>7 DEF Claim, Attempts, TypeOK
    <2>2. gen <= gen
      BY DEF TypeOK
    <2> QED
      BY <2>1, <2>2 DEF Attempts
  <1>8. ASSUME NEW l \in Lease, WorkerUpload(l) PROVE Attempts'
    BY <1>8 DEF Attempts, WorkerUpload, db, TypeOK
  <1>9. ASSUME NEW l \in Lease, Sweep(l) PROVE Attempts'
    <2>1. /\ lease'[l].state = "swept" /\ lease'[l].generation = lease[l].generation
          /\ \A m \in Lease \ {l} : lease'[m] = lease[m] /\ lease[m].state # "active"
          /\ staging' = staging /\ staging[l] # "deleted" /\ gen' = gen
          /\ consumer' = "waiting" /\ node' = "pending"
      BY <1>9 DEF Sweep, Attempts, TypeOK
    <2> QED
      BY <2>1 DEF Attempts
  <1>10. ASSUME NEW r \in Request, Finish(r) PROVE Attempts'
    <2>1. req[r].lease \in Lease /\ (req[r].channel = "ref" => staging[req[r].lease] # "none")
      BY <1>10 DEF Finish, Results
    <2>2. \A l \in Lease : staging'[l] # staging[l] =>
            l = req[r].lease /\ staging[l] # "none" /\ staging'[l] = "deleted"
      BY <1>10, <2>1 DEF Finish, Discarded, TypeOK
    <2> QED
      BY <1>10, <2>1, <2>2, SettleKeepsAttempts DEF Finish
  <1>11. ASSUME NEW r \in Request, FinishFailed(r) PROVE Attempts'
    BY <1>11, SettleKeepsAttempts DEF FinishFailed, Results
  <1> QED
    BY <1>1, <1>2, <1>3, <1>4, <1>5, <1>6, <1>7, <1>8, <1>9, <1>10, <1>11, DbSteps

\* Where the thread of a result may go in one step.
Onward == {<<"waiting", "verify">>, <<"verify", "copy">>, <<"verify", "finish">>,
           <<"copy", "register">>, <<"copy", "finish">>, <<"register", "finish">>,
           <<"finish", "closed">>}
Accepted(r) ==
  /\ req[r].pc = "new" /\ req'[r].pc = "waiting"
  /\ req'[r].lease \in Lease /\ lease[req'[r].lease].state # "none"
  /\ req'[r].channel = "ref" => staging[req'[r].lease] # "none"
  /\ req'[r].ok
Advances(r) ==
  /\ req[r].pc # "new"
  /\ req'[r].lease = req[r].lease /\ req'[r].channel = req[r].channel
  /\ <<req[r].pc, req'[r].pc>> \in Onward \/ req'[r].pc = "closed"
  /\ req'[r].ok = req[r].ok \/ req'[r].pc = "finish"
  /\ req[r].pc = "waiting" /\ req'[r].pc = "verify" => LockFree(r)
  /\ req'[r].pc # "closed" => \A q \in Request \ {r} : req'[q] = req[q]

\* Going to a place, and failing, change that thread alone.
LEMMA MovesOne ==
  ASSUME TypeOK, NEW r \in Request
  PROVE  /\ \A pc : GoTo(r, pc) =>
              /\ req'[r].pc = pc /\ req'[r].ok = req[r].ok
              /\ req'[r].lease = req[r].lease /\ req'[r].channel = req[r].channel
              /\ \A q \in Request \ {r} : req'[q] = req[q]
         /\ Fails(r) =>
              /\ req'[r].pc = "finish" /\ req'[r].ok = FALSE
              /\ req'[r].lease = req[r].lease /\ req'[r].channel = req[r].channel
              /\ \A q \in Request \ {r} : req'[q] = req[q]
  <1>0. req \in [Request -> Thread]
    BY DEF TypeOK, Thread
  <1>1. req[r] \in Thread
    BY <1>0
  <1>2. ASSUME NEW pc, GoTo(r, pc)
        PROVE  /\ req'[r].pc = pc /\ req'[r].ok = req[r].ok
               /\ req'[r].lease = req[r].lease /\ req'[r].channel = req[r].channel
               /\ \A q \in Request \ {r} : req'[q] = req[q]
    <2>1. req'[r] = [req[r] EXCEPT !.pc = pc] /\ \A q \in Request \ {r} : req'[q] = req[q]
      BY <1>0, <1>2 DEF GoTo
    <2> QED
      BY <1>1, <2>1 DEF Thread
  <1>3. ASSUME Fails(r)
        PROVE  /\ req'[r].pc = "finish" /\ req'[r].ok = FALSE
               /\ req'[r].lease = req[r].lease /\ req'[r].channel = req[r].channel
               /\ \A q \in Request \ {r} : req'[q] = req[q]
    <2>1. /\ req'[r] = [req[r] EXCEPT !.pc = "finish", !.ok = FALSE]
          /\ \A q \in Request \ {r} : req'[q] = req[q]
      BY <1>0, <1>3 DEF Fails
    <2> QED
      BY <1>1, <2>1 DEF Thread
  <1> QED
    BY <1>2, <1>3

\* A step of a result moves that result alone.
LEMMA ResultSteps ==
  ASSUME TypeOK, NEW s \in Request, Result(s) \/ CommitLost(s) \/ FinishLost(s)
  PROVE  (\A q \in Request \ {s} : req'[q] = req[q]) /\ Advances(s)
  <1>0. req[s] \in Thread
    BY DEF TypeOK, Thread
  <1>1. ASSUME NEW pc, GoTo(s, pc), req[s].pc # "new",
               <<req[s].pc, pc>> \in Onward, pc = "verify" => LockFree(s)
        PROVE  (\A q \in Request \ {s} : req'[q] = req[q]) /\ Advances(s)
    BY <1>1, MovesOne DEF Advances
  <1>2. ASSUME Fails(s), req[s].pc \in {"verify", "copy", "register"}
        PROVE  (\A q \in Request \ {s} : req'[q] = req[q]) /\ Advances(s)
    BY <1>2, MovesOne DEF Advances, Onward
  <1>3. CASE Enter(s)
    BY <1>1, <1>3 DEF Enter, Onward
  <1>4. CASE Verify(s)
    BY <1>1, <1>2, <1>4 DEF Verify, Onward
  <1>5. CASE Copy(s)
    BY <1>1, <1>2, <1>5 DEF Copy, GivesUp, Onward
  <1>6. CASE Register(s)
    BY <1>1, <1>6 DEF Register, Onward
  <1>7. CASE RegisterRejected(s)
    BY <1>1, <1>2, <1>7 DEF RegisterRejected, GivesUp, Onward
  <1>8. CASE CommitLost(s)
    BY <1>1, <1>2, <1>8 DEF CommitLost, GivesUp, Onward
  <1>9. CASE FinishLate(s)
    BY <1>1, <1>9 DEF FinishLate, Onward
  <1>10. CASE Finish(s)
    BY <1>1, <1>10 DEF Finish, Settle, Onward
  <1>11. CASE FinishFailed(s)
    BY <1>1, <1>11 DEF FinishFailed, Settle, Onward
  <1>12. CASE FinishLost(s)
    BY <1>1, <1>12 DEF FinishLost, Onward
  <1> QED
    BY <1>3, <1>4, <1>5, <1>6, <1>7, <1>8, <1>9, <1>10, <1>11, <1>12 DEF Result

\* The steps that leave every thread where it is.
LEMMA OtherSteps ==
  ASSUME \/ Enqueue \/ ConsumerStarts \/ ConsumerCompletes \/ RerunConsumer \/ RerunProducer
         \/ \E l \in Lease : Claim(l) \/ WorkerUpload(l) \/ Sweep(l)
         \/ \E k \in Key : DeleteRetired(k) \/ GcDelete(k)
         \/ Maintenance \/ Hydrate
  PROVE  req' = req
BY DEF Enqueue, ConsumerStarts, ConsumerCompletes, RerunConsumer, RerunProducer, Claim,
       WorkerUpload, Sweep, DeleteRetired, GcDelete, Maintenance, ReconScan, ReconNothing,
       ReconPut, ReconRegister, EvictSnapshot, EvictUnlink, ReconHash, Hydrate,
       HydrateStart, HydrateRows, HydrateRestore, HydrateRecheck

\* Only its own steps and a stop of the Host move a thread.
LEMMA ActorSteps ==
  ASSUME TypeOK, Next, NEW r \in Request, req'[r] # req[r]
  PROVE  \/ Result(r) \/ CommitLost(r) \/ FinishLost(r) \/ HostCrash
         \/ \E l \in Lease, ch \in {"ref", "archive"} : Report(r, l, ch)
  <1>1. ASSUME NEW s \in Request, NEW l \in Lease, NEW ch \in {"ref", "archive"}, Report(s, l, ch)
        PROVE  s = r
    BY <1>1 DEF Report, TypeOK
  <1>2. ASSUME NEW s \in Request, Result(s) \/ CommitLost(s) \/ FinishLost(s) PROVE s = r
    BY <1>2, ResultSteps
  <1> QED
    BY <1>1, <1>2, OtherSteps DEF Next

\* A thread rests, is accepted, or goes on, whatever step is taken.
LEMMA ThreadSteps ==
  ASSUME TypeOK, Next, NEW r \in Request
  PROVE  req'[r] = req[r] \/ Accepted(r) \/ Advances(r)
  <1>0. req[r] \in Thread
    BY DEF TypeOK, Thread
  <1>1. ASSUME NEW l \in Lease, NEW ch \in {"ref", "archive"}, Report(r, l, ch) PROVE Accepted(r)
    BY <1>1 DEF Report, Accepted, TypeOK
  <1>2. CASE HostCrash
    BY <1>0, <1>2 DEF HostCrash, Advances, Thread
  <1> QED
    BY <1>1, <1>2, ResultSteps, ActorSteps

\* A granted lease stays granted, and an uploaded object was uploaded.
LEMMA GrantsLast ==
  ASSUME TypeOK, Attempts, Results, Next, NEW l \in Lease
  PROVE  /\ lease[l].state # "none" => lease'[l].state # "none"
         /\ staging[l] # "none" => staging'[l] # "none"
  <1>1. ASSUME NEW r \in Request, NEW status, Settle(r, status)
        PROVE  lease[l].state # "none" => lease'[l].state # "none"
    BY <1>1 DEF Settle, Released, TypeOK
  <1>2. ASSUME NEW m \in Lease, Claim(m) \/ WorkerUpload(m) \/ Sweep(m)
        PROVE  /\ lease[l].state # "none" => lease'[l].state # "none"
               /\ staging[l] # "none" => staging'[l] # "none"
    <2>1. CASE Claim(m)
      BY <2>1 DEF Claim, TypeOK
    <2>2. CASE WorkerUpload(m)
      BY <2>2 DEF WorkerUpload, TypeOK, db
    <2>3. CASE Sweep(m)
      BY <2>3 DEF Sweep, TypeOK
    <2> QED
      BY <1>2, <2>1, <2>2, <2>3
  <1>3. ASSUME NEW r \in Request, Finish(r) \/ FinishFailed(r)
        PROVE  staging[l] # "none" => staging'[l] # "none"
    BY <1>3 DEF Finish, FinishFailed, Discarded, TypeOK
  <1>4. ASSUME NEW r \in Request, Finish(r) \/ FinishFailed(r)
        PROVE  lease[l].state # "none" => lease'[l].state # "none"
    BY <1>1, <1>4 DEF Finish, FinishFailed
  <1>5. ASSUME UNCHANGED <<db, staging>> \/ Enqueue \/ ConsumerStarts \/ ConsumerCompletes
                 \/ RerunConsumer \/ RerunProducer
        PROVE  lease' = lease /\ staging' = staging
    BY <1>5 DEF db, Enqueue, ConsumerStarts, ConsumerCompletes, RerunConsumer, RerunProducer
  <1> QED
    BY <1>2, <1>3, <1>4, <1>5, DbSteps

\* A step keeps results on granted leases, and the turns of one lease.
LEMMA ResultsStep == ASSUME TypeOK, Attempts, Results, Next PROVE Results'
  <1>1. ASSUME NEW r \in Request
        PROVE  IF req'[r].pc = "new" THEN req'[r].lease = None
               ELSE /\ req'[r].lease \in Lease /\ lease'[req'[r].lease].state # "none"
                    /\ req'[r].channel = "ref" => staging'[req'[r].lease] # "none"
                    /\ ~req'[r].ok => req'[r].pc \in {"finish", "closed"}
    <2>1. CASE req'[r] = req[r]
      BY <2>1, GrantsLast DEF Results
    <2>2. CASE Accepted(r)
      BY <2>2, GrantsLast DEF Accepted
    <2>3. CASE Advances(r)
      <3>1. /\ req'[r].pc # "new"
            /\ req[r].pc \in {"finish", "closed"} => req'[r].pc \in {"finish", "closed"}
        BY <2>3 DEF Advances, Onward
      <3> QED
        BY <2>3, <3>1, GrantsLast DEF Results, Advances
    <2> QED
      BY <2>1, <2>2, <2>3, ThreadSteps
  <1>2. ASSUME NEW q \in Request, NEW r \in Request, q # r,
               req'[q].pc \in Working, req'[r].pc \in Working
        PROVE  req'[q].lease # req'[r].lease
    <2>1. ASSUME NEW s \in Request, req'[s].pc \in Working
          PROVE  /\ req'[s].lease = req[s].lease
                 /\ req[s].pc \in Working \/ LockFree(s)
                 /\ req'[s] # req[s] => \A p \in Request \ {s} : req'[p] = req[p]
      <3>1. req'[s] = req[s] \/ Advances(s)
        BY <2>1, ThreadSteps DEF Accepted, Working
      <3> QED
        BY <2>1, <3>1 DEF Advances, Onward, Working
    <2>2. CASE req'[q] = req[q] /\ req'[r] = req[r]
      BY <1>2, <2>2 DEF Results
    <2>3. CASE req'[q] # req[q]
      <3>1. req'[r] = req[r] /\ req'[q].lease = req[q].lease /\ (req[q].pc \in Working \/ LockFree(q))
        BY <1>2, <2>1, <2>3
      <3> QED
        BY <1>2, <3>1 DEF Results, LockFree, Working
    <2>4. CASE req'[r] # req[r]
      <3>1. req'[q] = req[q] /\ req'[r].lease = req[r].lease /\ (req[r].pc \in Working \/ LockFree(r))
        BY <1>2, <2>1, <2>4
      <3> QED
        BY <1>2, <3>1 DEF Results, LockFree, Working
    <2> QED
      BY <2>2, <2>3, <2>4
  <1> QED
    BY <1>1, <1>2 DEF Results

\* The steps that touch what the Host's background threads hold.
LEMMA HostSteps ==
  ASSUME Next
  PROVE  Maintenance \/ Hydrate \/ HostCrash \/ UNCHANGED <<recon, evict, poll>>
  <1>1. ASSUME NEW r \in Request,
               \/ Result(r) \/ CommitLost(r) \/ FinishLost(r)
               \/ \E l \in Lease, ch \in {"ref", "archive"} : Report(r, l, ch)
        PROVE  UNCHANGED <<recon, evict, poll>>
    BY <1>1 DEF Result, Enter, Verify, Copy, Register, RegisterRejected, FinishLate, CommitLost,
                FinishLost, Finish, FinishFailed, Report
  <1>2. ASSUME \/ Enqueue \/ ConsumerStarts \/ ConsumerCompletes \/ RerunConsumer \/ RerunProducer
               \/ \E l \in Lease : Claim(l) \/ WorkerUpload(l) \/ Sweep(l)
               \/ \E k \in Key : DeleteRetired(k) \/ GcDelete(k)
        PROVE  UNCHANGED <<recon, evict, poll>>
    BY <1>2 DEF Enqueue, ConsumerStarts, ConsumerCompletes, RerunConsumer, RerunProducer, Claim,
                WorkerUpload, Sweep, DeleteRetired, GcDelete
  <1> QED
    BY <1>1, <1>2 DEF Next

\* A step keeps the turns of the Host's threads.
LEMMA TurnsStep == ASSUME TypeOK, Attempts, Results, Turns, Next PROVE Turns'
  <1>1. /\ (evict' = evict /\ recon' = recon) \/ Maintenance \/ HostCrash
        /\ poll' = poll \/ Hydrate \/ HostCrash
    BY HostSteps DEF Maintenance, ReconScan, ReconNothing, ReconPut, ReconRegister, EvictSnapshot,
                     EvictUnlink, ReconHash, Hydrate, HydrateStart, HydrateRows, HydrateRestore,
                     HydrateRecheck
  <1>2. (evict # None => recon.pc = "idle")'
    <2>1. CASE evict' = evict /\ recon' = recon
      BY <2>1 DEF Turns
    <2>2. CASE Maintenance
      BY <2>2 DEF Turns, TypeOK, Maintenance, ReconScan, ReconNothing, ReconPut, ReconRegister,
                  EvictSnapshot, EvictUnlink, ReconHash, Idle
    <2>3. CASE HostCrash
      BY <2>3 DEF HostCrash
    <2> QED
      BY <1>1, <2>1, <2>2, <2>3
  <1>3. ASSUME poll' # poll
        PROVE  /\ UNCHANGED <<gen, node, consumer, queued>>
               /\ poll'.pc = "rows" => poll'.row # NoRow
               /\ \/ poll'.pc = "idle"
                  \/ poll'.generation = gen /\ consumer = "waiting"
                  \/ poll.pc # "idle" /\ poll'.generation = poll.generation
    <2>0. poll \in Poll /\ PollIdle.pc = "idle"
      BY DEF TypeOK, Poll, PollIdle
    <2>1. CASE HydrateStart
      BY <2>0, <2>1 DEF HydrateStart, Poll, db
    <2>2. CASE HydrateRows
      BY <2>0, <2>2 DEF HydrateRows, Poll, db
    <2>3. CASE HydrateRestore
      BY <2>0, <2>3 DEF HydrateRestore, Poll, db
    <2>4. CASE HydrateRecheck
      BY <2>0, <2>4 DEF HydrateRecheck, Poll, db
    <2>5. CASE HostCrash
      BY <2>0, <2>5 DEF HostCrash, Poll, db
    <2> QED
      BY <1>1, <1>3, <2>1, <2>2, <2>3, <2>4, <2>5 DEF Hydrate
  <1>4. (poll.pc # "idle" => /\ consumer = "waiting"
                             /\ poll.generation = gen \/ (node = "pending" /\ ~queued))'
    <2>1. CASE poll' # poll
      BY <1>3, <2>1 DEF Turns
    <2>2. CASE poll' = poll /\ UNCHANGED <<db, staging>>
      BY <2>2 DEF Turns, db
    <2>3. CASE poll' = poll /\ (Enqueue \/ ConsumerStarts \/ ConsumerCompletes \/ RerunConsumer
                                  \/ RerunProducer)
      BY <2>3 DEF Turns, Enqueue, ConsumerStarts, ConsumerCompletes, RerunConsumer, RerunProducer
    <2>4. ASSUME NEW l \in Lease, Claim(l) \/ WorkerUpload(l) \/ Sweep(l), poll' = poll PROVE
          poll.pc # "idle" => /\ consumer' = "waiting"
                              /\ poll.generation = gen' \/ (node' = "pending" /\ ~queued')
      BY <2>4 DEF Turns, Attempts, Claim, WorkerUpload, Sweep, db
    <2>5. ASSUME NEW r \in Request, Finish(r) \/ FinishFailed(r) PROVE
          poll' = poll /\ (poll.pc # "idle" => consumer' = "waiting" /\ poll.generation = gen')
      <3>1. /\ req[r].lease \in Lease /\ ActiveIn(req[r].lease)
            /\ UNCHANGED <<gen, consumer, queued, poll>>
        BY <2>5 DEF Finish, FinishFailed, Results
      <3>2. node = "running"
        BY <2>5, <3>1 DEF ActiveIn, Attempts
      <3> QED
        BY <3>1, <3>2 DEF Turns
    <2> QED
      BY <2>1, <2>2, <2>3, <2>4, <2>5, DbSteps
  <1> QED
    BY <1>2, <1>3, <1>4 DEF Turns

-----------------------------------------------------------------------------
(* Objects and rows.                                                       *)

\* The steps that touch the row, the objects, the reconciler or the deletions;
\* no other brings a thread to its registration.
LEMMA ByteSteps ==
  ASSUME TypeOK, Next
  PROVE  \/ UNCHANGED <<row, object, recon, retired>> /\ \A r \in Request :
              req'[r].pc = "register" => req'[r] = req[r]
         \/ RerunProducer
         \/ \E r \in Request : Copy(r) \/ Register(r) \/ CommitLost(r)
         \/ \E k \in Key : DeleteRetired(k) \/ GcDelete(k)
         \/ Maintenance \/ HostCrash
  <1> DEFINE Quiet == UNCHANGED <<row, object, recon, retired>> /\ \A r \in Request :
                        req'[r].pc = "register" => req'[r] = req[r]
  <1>0. \A q \in Request : req[q] \in Thread
    BY DEF TypeOK, Thread
  <1>1. ASSUME NEW r \in Request, NEW pc \in {"verify", "copy", "finish", "closed"},
               GoTo(r, pc) \/ Fails(r), UNCHANGED <<row, object, recon, retired>>
        PROVE  Quiet
    <2>1. req'[r].pc # "register" /\ \A q \in Request \ {r} : req'[q] = req[q]
      BY <1>1, MovesOne
    <2>2. ASSUME NEW q \in Request, req'[q].pc = "register" PROVE req'[q] = req[q]
      BY <2>1, <2>2
    <2> QED
      BY <1>1, <2>2
  <1>2. ASSUME NEW r \in Request, NEW l \in Lease, NEW ch \in {"ref", "archive"}, Report(r, l, ch)
        PROVE  Quiet
    BY <1>0, <1>2 DEF Report, TypeOK
  <1> HIDE DEF Quiet
  <1>3. ASSUME NEW r \in Request,
               Enter(r) \/ Verify(r) \/ RegisterRejected(r) \/ FinishLate(r) \/ FinishLost(r)
        PROVE  Quiet
    BY <1>1, <1>3 DEF Enter, Verify, RegisterRejected, GivesUp, FinishLate, FinishLost
  <1>4. ASSUME NEW r \in Request, Finish(r) \/ FinishFailed(r) PROVE Quiet
    BY <1>1, <1>4 DEF Finish, FinishFailed, Settle
  <1>5. ASSUME \/ Enqueue \/ ConsumerStarts \/ ConsumerCompletes \/ RerunConsumer
               \/ \E l \in Lease : Claim(l) \/ WorkerUpload(l) \/ Sweep(l)
               \/ Hydrate
        PROVE  Quiet
    BY <1>5 DEF Enqueue, ConsumerStarts, ConsumerCompletes, RerunConsumer, Claim, WorkerUpload, Sweep,
                Hydrate, HydrateStart, HydrateRows, HydrateRestore, HydrateRecheck, Quiet
  <1> QED
    BY <1>2, <1>3, <1>4, <1>5 DEF Next, Result, Quiet

\* A thread that was accepted keeps its bytes, and one at its end stays there.
LEMMA BytesKept ==
  ASSUME TypeOK, Next, NEW r \in Request, req[r].pc # "new"
  PROVE  /\ BytesOf(r)' = BytesOf(r)
         /\ req[r].pc \in {"finish", "closed"} => req'[r].pc \in {"finish", "closed"}
  <1>1. req'[r] = req[r] \/ Advances(r)
    BY ThreadSteps DEF Accepted
  <1> QED
    BY <1>1 DEF Advances, BytesOf, Onward

\* The parts of Objects.
RowFits == row.key \in Request => /\ req[row.key].pc \in {"finish", "closed"}
                                  /\ object[row.key] = row.hash /\ row.hash = BytesOf(row.key)
CopiesFit == \A r \in Request : req[r].pc = "register" => object[r] = BytesOf(r)
KeyFits == /\ recon.key \in Pass \cup {None}
           /\ recon.pc \in {"hashed", "put"} => /\ recon.hash # None /\ recon.key \in Pass
                                                /\ recon.key \notin retired \cup {row.key}

\* A row left alone still fits if its object is left alone; so do the copies.
LEMMA FitsKept ==
  ASSUME TypeOK, Objects, Next
  PROVE  /\ row' = row /\ (\A r \in Request : row.key = r => object'[r] = object[r]) => RowFits'
         /\ (\A r \in Request : req'[r].pc = "register" => req'[r] = req[r] /\ object'[r] = object[r])
              => CopiesFit'
  <1>1. ASSUME row' = row, \A r \in Request : row.key = r => object'[r] = object[r]
        PROVE  RowFits'
    <2> SUFFICES ASSUME row.key \in Request
                 PROVE  /\ req'[row.key].pc \in {"finish", "closed"}
                        /\ object'[row.key] = row.hash /\ row.hash = BytesOf(row.key)'
      BY <1>1 DEF RowFits
    <2> PICK r \in Request : row.key = r
      OBVIOUS
    <2>1. req[r].pc \in {"finish", "closed"} /\ object[r] = row.hash /\ row.hash = BytesOf(r)
      BY DEF Objects
    <2>2. BytesOf(r)' = BytesOf(r) /\ req'[r].pc \in {"finish", "closed"}
      BY <2>1, BytesKept
    <2>3. BytesOf(row.key)' = BytesOf(r)'
      BY <1>1 DEF BytesOf
    <2> QED
      BY <1>1, <2>1, <2>2, <2>3
  <1>2. ASSUME NEW r \in Request, req'[r].pc = "register", req'[r] = req[r], object'[r] = object[r]
        PROVE  object'[r] = BytesOf(r)'
    BY <1>2 DEF Objects, BytesOf
  <1> QED
    BY <1>1, <1>2 DEF CopiesFit

\* A step of the maintenance or a stop of the Host keeps Objects.
LEMMA ObjectsStepHost ==
  ASSUME TypeOK, Objects, Next, Maintenance \/ HostCrash
  PROVE  Objects'
  <1>0. /\ recon \in Reconciler /\ \A q \in Request : req[q] \in Thread
        /\ Request \cap Pass = {} /\ None \notin Request \cup Pass /\ Pass \subseteq Key
    BY PlaneAssumption DEF TypeOK, Reconciler, Thread, Bytes, Key
  <1>1. ASSUME row' = row, \A r \in Request : object'[r] = object[r], KeyFits',
               \A r \in Request : req'[r].pc = "register" => req'[r] = req[r]
        PROVE  Objects'
    BY <1>1, FitsKept DEF Objects, RowFits, CopiesFit, KeyFits
  <1>2. CASE ReconScan \/ ReconNothing \/ EvictSnapshot \/ EvictUnlink
    <2>0. Idle \in Reconciler /\ Idle.pc = "idle" /\ Idle.key = None
      BY DEF Idle, Reconciler
    <2>1. ReconScan => recon'.pc = "scanned" /\ recon'.key = None
      BY <2>0 DEF ReconScan, Reconciler
    <2>2. recon' = recon \/ (recon'.pc \notin {"hashed", "put"} /\ recon'.key = None)
      BY <1>2, <2>0, <2>1 DEF ReconNothing, EvictSnapshot, EvictUnlink
    <2> QED
      BY <1>1, <1>2, <2>2
         DEF ReconScan, ReconNothing, EvictSnapshot, EvictUnlink, Objects, KeyFits
  <1>3. ASSUME NEW k \in Pass, ReconHash(k) PROVE Objects'
    <2>1. recon'.key = k /\ recon'.hash # None
      BY <1>0, <1>3 DEF ReconHash, Reconciler
    <2> QED
      BY <1>1, <1>3, <2>1 DEF ReconHash, KeyFits
  <1>4. CASE ReconPut
    <2>1. recon.key \in Pass /\ recon.hash # None /\ recon.key \notin retired \cup {row.key}
      BY <1>4 DEF ReconPut, Objects
    <2>2. \A r \in Request : object'[r] = object[r]
      <3>1. object' = object \/ object' = [object EXCEPT ![recon.key] = local]
        BY <1>4 DEF ReconPut
      <3>2. \A r \in Request : r # recon.key /\ r \in Key
        BY <1>0, <2>1 DEF Key
      <3> QED
        BY <3>1, <3>2 DEF TypeOK
    <2>3. /\ recon'.pc \in {"put", "idle"}
          /\ recon'.pc = "put" => recon'.key = recon.key /\ recon'.hash = recon.hash
          /\ recon'.key \in {recon.key, None}
      BY <1>0, <1>4 DEF ReconPut, Reconciler, Idle
    <2> QED
      BY <1>1, <1>4, <2>1, <2>2, <2>3 DEF ReconPut, KeyFits
  <1>5. CASE ReconRegister
    <2>1. recon.key \in Pass
      BY <1>5 DEF ReconRegister, Objects
    <2>2. RowFits' /\ KeyFits'
      BY <1>0, <1>5, <2>1 DEF ReconRegister, RowFits, KeyFits, Idle
    <2>3. CopiesFit'
      BY <1>5, FitsKept DEF ReconRegister
    <2> QED
      BY <2>2, <2>3 DEF Objects, RowFits, CopiesFit, KeyFits
  <1>6. CASE HostCrash
    <2>1. \A r \in Request : req'[r].pc # "register"
      BY <1>0, <1>6 DEF HostCrash, Thread
    <2>2. KeyFits'
      BY <1>6 DEF HostCrash, KeyFits, Idle
    <2> QED
      BY <1>1, <1>6, <2>1, <2>2 DEF HostCrash
  <1> QED
    BY <1>2, <1>3, <1>4, <1>5, <1>6 DEF Maintenance

\* A step of a result that touches bytes keeps Objects.
LEMMA ObjectsStepResult ==
  ASSUME TypeOK, Objects, Results, Next, NEW r \in Request, Copy(r) \/ Register(r) \/ CommitLost(r)
  PROVE  Objects'
  <1>0. /\ Request \cap Pass = {} /\ None \notin Pass /\ Request \subseteq Key
        /\ \A q \in Request : req[q] \in Thread
    BY PlaneAssumption DEF Key, TypeOK, Thread
  <1>1. req[r].pc \in {"copy", "register"}
    BY DEF Copy, Register, CommitLost
  <1>2. BytesOf(r)' = BytesOf(r)
    BY <1>1, BytesKept
  <1>3. row.key # r
    BY <1>1 DEF Objects
  <1>4. ASSUME NEW pc, GoTo(r, pc) \/ Fails(r)
        PROVE  /\ req'[r].pc \in {pc, "finish"}
               /\ \A q \in Request \ {r} : req'[q] = req[q]
    BY <1>4, MovesOne
  <1>5. CASE Copy(r)
    <2>1. \A q \in Request \ {r} : req'[q] = req[q] /\ object'[q] = object[q]
      <3>1. object' = object \/ object' = [object EXCEPT ![r] = BytesOf(r)]
        BY <1>5 DEF Copy
      <3>2. \E pc : GoTo(r, pc) \/ Fails(r)
        BY <1>5 DEF Copy, GivesUp
      <3> QED
        BY <1>0, <1>4, <3>1, <3>2 DEF TypeOK
    <2>2. req'[r].pc = "register" => object'[r] = BytesOf(r)
      <3>1. CASE object' = [object EXCEPT ![r] = BytesOf(r)]
        BY <1>0, <3>1 DEF TypeOK
      <3>2. CASE GivesUp(r)
        BY <1>4, <3>2 DEF GivesUp
      <3> QED
        BY <1>5, <3>1, <3>2 DEF Copy
    <2>3. CopiesFit'
      <3> SUFFICES ASSUME NEW q \in Request, req'[q].pc = "register" PROVE object'[q] = BytesOf(q)'
        BY DEF CopiesFit
      <3> QED
        BY <1>2, <2>1, <2>2 DEF Objects, BytesOf
    <2>4. RowFits'
      BY <1>3, <1>5, <2>1, FitsKept DEF Copy
    <2> QED
      BY <1>5, <2>3, <2>4 DEF Copy, Objects, CopiesFit, RowFits
  <1>6. ASSUME req[r].pc = "register", GoTo(r, "finish") \/ Fails(r), UNCHANGED <<object, recon>>,
               row' \in {row, [key |-> r, hash |-> BytesOf(r)]},
               retired' \subseteq retired \cup {row.key}
        PROVE  Objects'
    <2>1. req'[r].pc = "finish" /\ \A q \in Request \ {r} : req'[q] = req[q]
      BY <1>4, <1>6
    <2>2. CopiesFit'
      BY <1>6, <2>1, FitsKept
    <2>3. RowFits'
      <3>1. CASE row' = row
        BY <1>6, <3>1, FitsKept
      <3>2. CASE row' = [key |-> r, hash |-> BytesOf(r)]
        <4>1. row'.key = r /\ row'.hash = BytesOf(r) /\ object'[r] = BytesOf(r)
          BY <1>6, <3>2 DEF Objects
        <4>2. BytesOf(row.key)' = BytesOf(r)'
          BY <4>1 DEF BytesOf
        <4> QED
          BY <1>2, <2>1, <4>1, <4>2 DEF RowFits
      <3> QED
        BY <1>6, <3>1, <3>2
    <2>4. KeyFits'
      BY <1>0, <1>6 DEF KeyFits, Objects
    <2> QED
      BY <2>2, <2>3, <2>4 DEF Objects, CopiesFit, RowFits, KeyFits
  <1>7. CASE Register(r)
    BY <1>6, <1>7 DEF Register, Registered, Superseded
  <1>8. CASE CommitLost(r)
    BY <1>6, <1>8 DEF CommitLost, GivesUp
  <1> QED
    BY <1>5, <1>7, <1>8

\* A step keeps what rows and the reconciler's key say about the objects.
LEMMA ObjectsStep == ASSUME TypeOK, Objects, Results, Next PROVE Objects'
  <1>1. CASE UNCHANGED <<row, object, recon, retired>> /\ \A r \in Request :
               req'[r].pc = "register" => req'[r] = req[r]
    BY <1>1, FitsKept DEF Objects, RowFits, CopiesFit
  <1>2. CASE RerunProducer
    <2>1. None \notin Request \cup Pass
      BY PlaneAssumption DEF Bytes, Key
    <2>2. RowFits' /\ KeyFits'
      BY <1>2, <2>1 DEF RerunProducer, RowFits, KeyFits, NoRow, Objects, Superseded
    <2>3. CopiesFit'
      BY <1>2, FitsKept DEF RerunProducer
    <2> QED
      BY <2>2, <2>3 DEF Objects, RowFits, CopiesFit, KeyFits
  <1>3. ASSUME NEW k \in Key, DeleteRetired(k) \/ GcDelete(k) PROVE Objects'
    <2>1. /\ ~Promoting(k) /\ UNCHANGED <<req, row, recon>> /\ retired' \subseteq retired
          /\ object' = object \/ (row.key # k /\ object' = [object EXCEPT ![k] = None])
      BY <1>3 DEF DeleteRetired, GcDelete, Orphan
    <2>2. \A q \in Key : object'[q] # object[q] => q = k /\ row.key # k
      BY <2>1 DEF TypeOK
    <2>3. RowFits'
      BY <2>1, <2>2, FitsKept DEF Key
    <2>4. CopiesFit'
      BY <2>1, <2>2, FitsKept DEF Key, Promoting
    <2> QED
      BY <2>1, <2>3, <2>4 DEF Objects, RowFits, CopiesFit
  <1> QED
    BY <1>1, <1>2, <1>3, ByteSteps, ObjectsStepHost, ObjectsStepResult

-----------------------------------------------------------------------------
(* PlaneInv is inductive, and rows have their bytes.                       *)

\* No result has arrived.
LEMMA ThreadsStartNew ==
  ASSUME Init, NEW r \in Request
  PROVE  req[r].pc = "new" /\ req[r].lease = None
  <1>1. Closed \in Thread /\ Closed.lease = None
    BY DEF Closed, Thread
  <1> QED
    BY <1>1 DEF Init, Thread

\* The invariant holds at first.
LEMMA InitPlaneInv == Init => PlaneInv
  <1> SUFFICES ASSUME Init PROVE Attempts /\ Results /\ Objects /\ Turns
    BY InitTypeOK DEF PlaneInv
  <1>1. None \notin Request \cup Pass
    BY PlaneAssumption DEF Bytes, Key
  <1>2. \A r \in Request : req[r].pc = "new" /\ req[r].lease = None
    BY ThreadsStartNew
  <1>3. /\ \A l \in Lease : lease[l] = [state |-> "none", generation |-> 0] /\ staging[l] = "none"
        /\ gen = 0 /\ node = "pending" /\ consumer = "waiting" /\ queued = FALSE
        /\ row.key = None /\ recon.key = None /\ recon.pc = "idle" /\ evict = None
        /\ poll.pc = "idle"
    BY DEF Init, NoRow, Idle, PollIdle
  <1>4. Attempts /\ Turns
    BY <1>3 DEF Attempts, Turns
  <1>5. Results
    BY <1>2 DEF Results, Working
  <1>6. Objects
    BY <1>1, <1>2, <1>3 DEF Objects
  <1> QED
    BY <1>4, <1>5, <1>6

\* Every step keeps it.
LEMMA PlaneInvStep == PlaneInv /\ [Next]_vars => PlaneInv'
  <1> SUFFICES ASSUME PlaneInv, [Next]_vars PROVE PlaneInv'
    OBVIOUS
  <1>1. CASE Next
    BY <1>1, TypeStep, AttemptsStep, ResultsStep, ObjectsStep, TurnsStep DEF PlaneInv
  <1>2. CASE UNCHANGED vars
    BY <1>2 DEF vars, db, PlaneInv, TypeOK, Attempts, Results, Objects, Turns, BytesOf
  <1> QED
    BY <1>1, <1>2

\* PlaneInv holds of every reachable state.
LEMMA PlaneInvHolds == Spec => []PlaneInv
BY InitPlaneInv, PlaneInvStep, PTL DEF Spec

\* A row of a promote names an object with the bytes it records, whatever is
\* deleted, rerun, collected or lost, and with no timing assumed
\* (promote_to_authority_guarded, delete_objects_guarded).
THEOREM RowHasItsBytesHolds == Spec => []RowHasItsBytes
  <1>1. PlaneInv => RowHasItsBytes
    BY DEF PlaneInv, Objects, RowHasItsBytes
  <1> QED
    BY <1>1, PlaneInvHolds, PTL

-----------------------------------------------------------------------------
(* Which step can do what.                                                 *)

\* An attempt that no longer counts never counts again.
LEMMA ActiveLasts ==
  ASSUME TypeOK, Attempts, Results, Next, NEW l \in Lease, lease[l].state # "none", ActiveIn(l)'
  PROVE  ActiveIn(l)
  <1>1. CASE UNCHANGED <<db, staging>>
    BY <1>1 DEF ActiveIn, db
  <1>2. CASE Enqueue \/ ConsumerStarts \/ ConsumerCompletes
    BY <1>2 DEF ActiveIn, Enqueue, ConsumerStarts, ConsumerCompletes
  <1>3. CASE RerunConsumer \/ RerunProducer
    <2>1. lease' = lease /\ gen' = gen + 1 /\ lease[l].generation <= gen
      BY <1>3 DEF RerunConsumer, RerunProducer, Attempts
    <2>2. lease[l].generation \in Nat /\ gen \in Nat
      BY PlaneAssumption DEF TypeOK
    <2> QED
      BY <2>1, <2>2 DEF ActiveIn
  <1>4. ASSUME NEW m \in Lease, Claim(m) \/ WorkerUpload(m) \/ Sweep(m) PROVE ActiveIn(l)
    <2>1. CASE Claim(m)
      BY <2>1 DEF Claim, ActiveIn, TypeOK
    <2>2. CASE WorkerUpload(m)
      BY <2>2 DEF WorkerUpload, ActiveIn, db
    <2>3. CASE Sweep(m)
      BY <2>3 DEF Sweep, ActiveIn, TypeOK
    <2> QED
      BY <1>4, <2>1, <2>2, <2>3
  <1>5. ASSUME NEW r \in Request, Finish(r) \/ FinishFailed(r) PROVE ActiveIn(l)
    <2>1. /\ lease' = [lease EXCEPT ![req[r].lease].state = "released"] /\ gen' = gen
          /\ req[r].lease \in Lease
      BY <1>5, Releases DEF Finish, FinishFailed, Settle, Results
    <2> QED
      BY <2>1 DEF ActiveIn, TypeOK
  <1> QED
    BY <1>1, <1>2, <1>3, <1>4, <1>5, DbSteps

\* An attempt that counts is the only one, and its node runs.
LEMMA ActiveIsAlone ==
  ASSUME TypeOK, Attempts, NEW l \in Lease, ActiveIn(l)
  PROVE  /\ node = "running" /\ consumer = "waiting"
         /\ \A m \in Lease : ActiveIn(m) => m = l
         /\ ~Evictable
BY DEF ActiveIn, Attempts, Evictable

\* The node fails only by a failed result, and completes only by a good one.
LEMMA OutcomeSteps ==
  ASSUME PlaneInv, Next
  PROVE  /\ node' = "failed" => node = "failed" \/ \E r \in Request : FinishFailed(r)
         /\ node' = "completed" =>
              \/ \E r \in Request : Finish(r)
              \/ node = "completed" /\ output' = output
  <1>0. TypeOK /\ Attempts /\ Results
    BY DEF PlaneInv
  <1>1. node' = "failed" => node = "failed" \/ \E r \in Request : FinishFailed(r)
    BY <1>0, DbSteps DEF db, Enqueue, ConsumerStarts, ConsumerCompletes, RerunConsumer, RerunProducer, Claim,
                   WorkerUpload, Sweep, Finish, Settle
  <1>2. node' = "completed" => node = "completed" \/ \E r \in Request : Finish(r)
    BY <1>0, DbSteps DEF db, Enqueue, ConsumerStarts, ConsumerCompletes, RerunConsumer, RerunProducer, Claim,
                   WorkerUpload, Sweep, FinishFailed, Settle
  <1>3. output' = output \/ RerunProducer \/ \E r \in Request : Finish(r)
    <2>1. ASSUME NEW r \in Request,
                 \/ Result(r) \/ CommitLost(r) \/ FinishLost(r)
                 \/ \E l \in Lease, ch \in {"ref", "archive"} : Report(r, l, ch)
          PROVE  output' = output \/ Finish(r)
      BY <2>1 DEF Result, Enter, Verify, Copy, Register, RegisterRejected, FinishLate, CommitLost,
                  FinishLost, FinishFailed, Report
    <2>2. ASSUME \/ Enqueue \/ ConsumerStarts \/ ConsumerCompletes \/ RerunConsumer
                 \/ \E l \in Lease : Claim(l) \/ WorkerUpload(l) \/ Sweep(l)
                 \/ \E k \in Key : DeleteRetired(k) \/ GcDelete(k)
                 \/ Maintenance \/ Hydrate \/ HostCrash
          PROVE  output' = output
      BY <2>2 DEF Enqueue, ConsumerStarts, ConsumerCompletes, RerunConsumer, Claim, WorkerUpload, Sweep,
                  DeleteRetired, GcDelete, Maintenance, ReconScan, ReconNothing, ReconPut,
                  ReconRegister, EvictSnapshot, EvictUnlink, ReconHash, Hydrate, HydrateStart,
                  HydrateRows, HydrateRestore, HydrateRecheck, HostCrash
    <2> QED
      BY <2>1, <2>2 DEF Next
  <1>4. RerunProducer => node' = "pending"
    BY DEF RerunProducer
  <1> QED
    BY <1>1, <1>2, <1>3, <1>4

\* Who replaces the row.
LEMMA RowSteps ==
  ASSUME TypeOK, Next, row' # row
  PROVE  \/ RerunProducer \/ ReconRegister
         \/ \E r \in Request : Register(r) \/ CommitLost(r)
BY ByteSteps DEF Copy, DeleteRetired, GcDelete, Maintenance, ReconScan, ReconNothing, ReconPut,
                 EvictSnapshot, EvictUnlink, ReconHash, HostCrash

\* Faults are never forgotten.
LEMMA FaultsStay == ASSUME Next PROVE faulted \subseteq faulted'
  <1>1. ASSUME NEW r \in Request,
               \/ Result(r) \/ CommitLost(r) \/ FinishLost(r)
               \/ \E l \in Lease, ch \in {"ref", "archive"} : Report(r, l, ch)
        PROVE  faulted \subseteq faulted'
    BY <1>1 DEF Result, Enter, Verify, Copy, Register, RegisterRejected, FinishLate, CommitLost,
                FinishLost, Finish, FinishFailed, Report, NoFault, Happens
  <1>2. ASSUME \/ Enqueue \/ ConsumerStarts \/ ConsumerCompletes \/ RerunConsumer \/ RerunProducer
               \/ \E l \in Lease : Claim(l) \/ WorkerUpload(l) \/ Sweep(l)
               \/ \E k \in Key : DeleteRetired(k) \/ GcDelete(k)
               \/ Maintenance \/ Hydrate \/ HostCrash
        PROVE  faulted \subseteq faulted'
    BY <1>2 DEF Enqueue, ConsumerStarts, ConsumerCompletes, RerunConsumer, RerunProducer, Claim,
                WorkerUpload, Sweep, DeleteRetired, GcDelete, Maintenance, ReconScan, ReconNothing,
                ReconPut, ReconRegister, EvictSnapshot, EvictUnlink, ReconHash, Hydrate, HydrateStart,
                HydrateRows, HydrateRestore, HydrateRecheck, HostCrash, NoFault, Happens
  <1> QED
    BY <1>1, <1>2 DEF Next

\* How a result of a lease that counts comes to its finish.
LEMMA FinishReached ==
  ASSUME PlaneInv, Next, NEW r \in Request, req'[r].pc = "finish", ActiveIn(req[r].lease)'
  PROVE  /\ req[r].lease \in Lease /\ ActiveIn(req[r].lease) /\ req'[r].lease = req[r].lease
         /\ req'[r].channel = req[r].channel
         /\ \/ req'[r] = req[r]
            \/ Register(r) /\ req'[r].ok
            \/ CommitLost(r) /\ (req[r].channel = "ref" => ~req'[r].ok)
            \/ Copy(r) /\ "storage" \in faulted' /\ (req[r].channel = "ref" => ~req'[r].ok)
  <1>0. req[r] \in Thread /\ TypeOK /\ Attempts /\ Results
    BY DEF PlaneInv, TypeOK, Thread
  <1>1. req'[r] = req[r] \/ Advances(r)
    BY <1>0, ThreadSteps DEF Accepted
  <1>2. /\ req[r].pc # "new" /\ req'[r].lease = req[r].lease /\ req'[r].channel = req[r].channel
        /\ req'[r] # req[r] => req[r].pc \in {"verify", "copy", "register"}
    BY <1>1 DEF Advances, Onward
  <1>3. PICK l \in Lease : l = req[r].lease
    BY <1>0, <1>2 DEF Results
  <1>4. lease[l].state # "none" /\ (req[r].pc # "finish" => req[r].ok)
        /\ (req[r].channel = "ref" => staging[l] # "none")
    BY <1>0, <1>1, <1>2, <1>3 DEF Results
  <1>5. ActiveIn(l)
    <2>1. ActiveIn(l)'
      BY <1>2, <1>3 DEF ActiveIn
    <2> QED
      BY <1>0, <1>4, <2>1, ActiveLasts
  <1>6. CASE req'[r] # req[r]
    <2>1. Verify(r) \/ Copy(r) \/ Register(r) \/ RegisterRejected(r) \/ CommitLost(r)
      <3>1. Result(r) \/ CommitLost(r) \/ FinishLost(r) \/ HostCrash
              \/ \E m \in Lease, ch \in {"ref", "archive"} : Report(r, m, ch)
        BY <1>0, <1>6, ActorSteps
      <3>2. ~HostCrash
        BY <1>0, <1>2 DEF HostCrash, Thread
      <3> QED
        BY <1>2, <1>6, <3>1, <3>2
           DEF Result, Enter, FinishLate, Finish, FinishFailed, FinishLost, Report
    <2>2. ~RegisterRejected(r)
      BY <1>3, <1>5 DEF RegisterRejected, Gate
    <2>3. staging[l] # "deleted"
      BY <1>0, <1>5 DEF Attempts, ActiveIn
    <2>4. ~GoTo(r, "copy") /\ ~GoTo(r, "register")
      <3>1. GoTo(r, "copy") => req'[r].pc = "copy"
        BY <1>0, MovesOne
      <3>2. GoTo(r, "register") => req'[r].pc = "register"
        BY <1>0, MovesOne
      <3> QED
        BY <3>1, <3>2
    <2>5. Fails(r) => ~req'[r].ok
      BY <1>0, MovesOne
    <2>6. ~Verify(r)
      <3>1. Gate(r) /\ (req[r].channel = "ref" => staging[l] = "there")
        BY <1>0, <1>3, <1>4, <1>5, <2>3 DEF Gate, TypeOK
      <3> QED
        BY <1>3, <2>4, <3>1 DEF Verify
    <2>7. Register(r) => req'[r].ok
      <3>1. GoTo(r, "finish") => req'[r].ok = req[r].ok
        BY <1>0, MovesOne
      <3> QED
        BY <1>4, <3>1 DEF Register
    <2>8. CommitLost(r) => (req[r].channel = "ref" => ~req'[r].ok)
      BY <2>5 DEF CommitLost, GivesUp
    <2>9. Copy(r) => "storage" \in faulted' /\ (req[r].channel = "ref" => ~req'[r].ok)
      BY <2>4, <2>5 DEF Copy, GivesUp, Happens
    <2> QED
      BY <1>2, <1>3, <1>5, <2>1, <2>2, <2>6, <2>7, <2>8, <2>9
  <1> QED
    BY <1>2, <1>3, <1>5, <1>6


\* A step that writes the row for a result has the gate of the only attempt; if
\* another result of that attempt is at its finish, it would hold the lock.
LEMMA LandsAlone ==
  ASSUME PlaneInv, NEW s \in Request, req[s].pc \in Working, Gate(s)
  PROVE  /\ node = "running"
         /\ \A r \in Request : r # s /\ req[r].pc \in Working => ~ActiveIn(req[r].lease)
  <1>1. PICK l \in Lease : l = req[s].lease /\ ActiveIn(l)
    BY DEF PlaneInv, Results, Gate, Working
  <1>2. node = "running" /\ \A m \in Lease : ActiveIn(m) => m = l
    BY <1>1, ActiveIsAlone DEF PlaneInv
  <1>3. ASSUME NEW r \in Request, r # s, req[r].pc \in Working, ActiveIn(req[r].lease) PROVE FALSE
    <2>1. req[r].lease \in Lease /\ req[r].lease # req[s].lease
      BY <1>3 DEF PlaneInv, Results, Working
    <2> QED
      BY <1>1, <1>2, <1>3, <2>1
  <1> QED
    BY <1>2, <1>3

-----------------------------------------------------------------------------
(* A failure has its fault.                                                *)

\* A step keeps Blame: a result fails without a fault only when its attempt no
\* longer counts, and then its finish changes nothing.
LEMMA BlameStep == PlaneInv /\ Blame /\ [Next]_vars => Blame'
  <1> SUFFICES ASSUME PlaneInv, Blame, [Next]_vars PROVE Blame'
    OBVIOUS
  <1>1. CASE Next
    <2>1. ASSUME NEW r \in Request, req'[r].pc = "finish", ~req'[r].ok, ActiveIn(req[r].lease)'
          PROVE  faulted' \cap {"storage", "commit", "disk"} # {}
      <3>1. CASE req'[r] = req[r]
        BY <1>1, <2>1, <3>1, FinishReached, FaultsStay DEF Blame
      <3>2. CASE CommitLost(r)
        BY <3>2 DEF CommitLost, Happens
      <3> QED
        BY <1>1, <2>1, <3>1, <3>2, FinishReached
    <2>2. OnlyFaultsFail'
      <3>1. ASSUME NEW r \in Request, FinishFailed(r)
            PROVE  faulted' \cap {"storage", "commit", "disk"} # {}
        BY <1>1, <3>1, FaultsStay DEF FinishFailed, Blame, Happens, NoFault
      <3> QED
        BY <1>1, <3>1, OutcomeSteps, FaultsStay DEF Blame, OnlyFaultsFail
    <2> QED
      BY <2>1, <2>2 DEF Blame, ActiveIn
  <1>2. CASE UNCHANGED vars
    BY <1>2 DEF vars, db, Blame, OnlyFaultsFail, ActiveIn
  <1> QED
    BY <1>1, <1>2

\* A result whose Worker succeeded fails its node only for an error of storage,
\* commit or disk, however often it is reported, swept, rerun or the Host stopped
\* (discard_staging_refs only after the finish, completion_staged.py).
THEOREM OnlyFaultsFailHolds == Spec => []OnlyFaultsFail
  <1>1. Init => Blame
    <2> SUFFICES ASSUME Init PROVE Blame
      OBVIOUS
    <2>1. \A r \in Request : req[r].pc = "new"
      BY ThreadsStartNew
    <2> QED
      BY <2>1 DEF Init, Blame, OnlyFaultsFail
  <1>2. Blame => OnlyFaultsFail
    BY DEF Blame
  <1> QED
    BY <1>1, <1>2, PlaneInvHolds, BlameStep, PTL DEF Spec

-----------------------------------------------------------------------------
(* One result per lease.                                                   *)

\* A step keeps OneSource: between the row and the finish of a result nobody else
\* of its lease writes the row, and every other lease finds its gate closed.
LEMMA OneSourceStep == PlaneInv /\ OneSource /\ [Next]_vars => OneSource'
  <1> SUFFICES ASSUME PlaneInv, OneSource, [Next]_vars,
                      faulted' \cap {"storage", "commit"} = {}, row'.key \in Request
               PROVE  /\ \A r \in Request :
                           req'[r].pc = "finish" /\ req'[r].ok /\ ActiveIn(req[r].lease)'
                           => row'.key = r
                      /\ node' = "completed" => row'.hash = output'
    BY DEF OneSource, OneResultPerLease
  <1>0. Request \cap Pass = {} /\ None \notin Request /\ TypeOK
    BY PlaneAssumption DEF Key, PlaneInv
  <1>1. CASE Next
    <2>1. faulted \cap {"storage", "commit"} = {}
      BY <1>1, FaultsStay
    <2>2. \A s \in Request : ~CommitLost(s)
      BY DEF CommitLost, Happens
    <2>3. row' = row \/ \E s \in Request : Register(s)
      <3>1. ~RerunProducer
        BY <1>0 DEF RerunProducer, NoRow
      <3>2. ~ReconRegister
        BY <1>0 DEF ReconRegister, PlaneInv, Objects
      <3> QED
        BY <1>0, <1>1, <2>2, <3>1, <3>2, RowSteps
    <2>4. ASSUME NEW s \in Request, Register(s)
          PROVE  /\ row'.key = s /\ node' = "running"
                 /\ \A r \in Request : r # s /\ req[r].pc \in Working => ~ActiveIn(req[r].lease)
      BY <2>4, LandsAlone DEF Register, Registered, Working, db
    <2>5. ASSUME NEW r \in Request, req'[r].pc = "finish", req'[r].ok, ActiveIn(req[r].lease)'
          PROVE  row'.key = r
      <3>1. CASE Register(r)
        BY <2>4, <3>1
      <3>2. CASE req'[r] = req[r]
        <4>1. req[r].pc = "finish" /\ req[r].ok /\ ActiveIn(req[r].lease)
          BY <1>1, <2>5, <3>2, FinishReached
        <4> QED
          BY <2>1, <2>3, <2>4, <4>1 DEF OneSource, Working
      <3> QED
        BY <1>1, <2>2, <2>5, <3>1, <3>2, FinishReached
    <2>6. ASSUME node' = "completed" PROVE row'.hash = output'
      <3>1. row' = row
        BY <2>3, <2>4, <2>6
      <3>2. CASE node = "completed" /\ output' = output
        BY <2>1, <3>1, <3>2 DEF OneSource, OneResultPerLease
      <3>3. ASSUME NEW r \in Request, Finish(r) PROVE row'.hash = output'
        <4>1. row.key = r /\ output' = BytesOf(r)
          BY <2>1, <3>1, <3>3 DEF Finish, OneSource
        <4>2. row.hash = BytesOf(row.key)
          BY <3>1 DEF PlaneInv, Objects
        <4> QED
          BY <3>1, <4>1, <4>2
      <3> QED
        BY <1>1, <2>6, <3>2, <3>3, OutcomeSteps
    <2> QED
      BY <2>5, <2>6
  <1>2. CASE UNCHANGED vars
    BY <1>2 DEF vars, db, OneSource, OneResultPerLease, ActiveIn
  <1> QED
    BY <1>1, <1>2

\* However the results of a lease are repeated, a row that a promote wrote carries
\* the bytes of the result that completed the node, unless a mirror or a commit
\* failed (LeaseCompletionLocks, lease_artifact_write_current).
THEOREM OneResultPerLeaseHolds == Spec => []OneResultPerLease
  <1>1. Init => OneSource
    <2> SUFFICES ASSUME Init PROVE OneSource
      OBVIOUS
    <2>1. \A r \in Request : req[r].pc = "new"
      BY ThreadsStartNew
    <2> QED
      BY <2>1 DEF Init, OneSource, OneResultPerLease
  <1>2. OneSource => OneResultPerLease
    BY DEF OneSource
  <1> QED
    BY <1>1, <1>2, PlaneInvHolds, OneSourceStep, PTL DEF Spec

-----------------------------------------------------------------------------
(* The bytes somebody holds.                                              *)

\* Who writes the file in the job directory.
LEMMA LocalSteps ==
  ASSUME Next, local' # local
  PROVE  \/ RerunProducer \/ EvictUnlink \/ HydrateRestore \/ HydrateRecheck
         \/ \E r \in Request : Register(r) \/ Finish(r) \/ FinishLost(r)
  <1>1. ASSUME NEW r \in Request,
               \/ Result(r) \/ CommitLost(r) \/ FinishLost(r)
               \/ \E l \in Lease, ch \in {"ref", "archive"} : Report(r, l, ch)
        PROVE  Register(r) \/ Finish(r) \/ FinishLost(r)
    BY <1>1 DEF Result, Enter, Verify, Copy, RegisterRejected, FinishLate, CommitLost, FinishFailed,
                Report
  <1>2. ASSUME \/ Enqueue \/ ConsumerStarts \/ ConsumerCompletes \/ RerunConsumer
               \/ \E l \in Lease : Claim(l) \/ WorkerUpload(l) \/ Sweep(l)
               \/ \E k \in Key : DeleteRetired(k) \/ GcDelete(k)
               \/ Maintenance \/ Hydrate \/ HostCrash
        PROVE  EvictUnlink \/ HydrateRestore \/ HydrateRecheck
    BY <1>2 DEF Enqueue, ConsumerStarts, ConsumerCompletes, RerunConsumer, Claim, WorkerUpload, Sweep,
                DeleteRetired, GcDelete, Maintenance, ReconScan, ReconNothing, ReconPut,
                ReconRegister, EvictSnapshot, ReconHash, Hydrate, HydrateStart, HydrateRows, HostCrash
  <1> QED
    BY <1>1, <1>2 DEF Next

\* How the poll thread comes to a manifest read or to rows in hand.
LEMMA PollSteps ==
  ASSUME TypeOK, Next, poll' # poll
  PROVE  \/ poll'.pc \notin {"read", "rows"}
         \/ HydrateStart /\ poll'.pc = "read"
         \/ poll.pc = "read" /\ poll'.pc = "rows" /\ poll'.row = row /\ UNCHANGED <<local, row>>
  <1>0. poll \in Poll /\ PollIdle.pc = "idle"
    BY DEF TypeOK, Poll, PollIdle
  <1>1. Hydrate \/ HostCrash
    BY HostSteps DEF Maintenance, ReconScan, ReconNothing, ReconPut, ReconRegister, EvictSnapshot,
                     EvictUnlink, ReconHash
  <1>2. CASE HydrateStart
    BY <1>0, <1>2 DEF HydrateStart, Poll
  <1>3. CASE HydrateRows
    BY <1>0, <1>3 DEF HydrateRows, Poll
  <1>4. CASE HydrateRestore \/ HydrateRecheck \/ HostCrash
    BY <1>0, <1>4 DEF HydrateRestore, HydrateRecheck, HostCrash, Poll
  <1> QED
    BY <1>1, <1>2, <1>3, <1>4 DEF Hydrate

\* A thread that was accepted keeps its lease and its channel.
LEMMA ThreadsKept ==
  ASSUME TypeOK, Next, NEW q \in Request, req[q].pc # "new"
  PROVE  req'[q].lease = req[q].lease /\ req'[q].channel = req[q].channel
BY ThreadSteps DEF Accepted, Advances

\* Bytes that were reported stay reported; once they can no longer become the
\* output, they never can again.
LEMMA ReportedLasts ==
  ASSUME PlaneInv, Next, NEW b \in Bytes, Reported(b)
  PROVE  Reported(b)' /\ (Potential(b)' => Potential(b))
  <1>0. TypeOK /\ Attempts /\ Results /\ None \notin Bytes /\ Request \cap Lease = {}
    BY PlaneAssumption DEF PlaneInv
  <1>1. ASSUME NEW q \in Request, req[q].pc # "new"
        PROVE  /\ req'[q].lease = req[q].lease /\ req'[q].channel = req[q].channel
               /\ req[q].pc \in {"finish", "closed"} =>
                    req'[q].pc \in {"finish", "closed"} /\ (req'[q].pc = "finish" => req[q].pc = "finish")
    <2>1. req'[q] = req[q] \/ Advances(q)
      BY <1>0, <1>1, ThreadSteps DEF Accepted
    <2> QED
      BY <2>1 DEF Advances, Onward
  <1>2. ASSUME b \in Lease
        PROVE  /\ \E q \in Request : req'[q].lease = b /\ req'[q].channel = "ref"
               /\ ActiveIn(b)' => ActiveIn(b)
    <2>1. PICK q \in Request : req[q].lease = b /\ req[q].channel = "ref"
      BY <1>2 DEF Reported
    <2>2. req[q].pc # "new" /\ lease[b].state # "none"
      BY <1>0, <1>2, <2>1 DEF Results, Bytes
    <2> QED
      BY <1>0, <1>1, <1>2, <2>1, <2>2, ActiveLasts
  <1>3. ASSUME b \in Request
        PROVE  /\ req'[b].pc \in {"finish", "closed"} /\ req'[b].channel = "archive"
               /\ req'[b].pc = "finish" /\ ActiveIn(req[b].lease)' =>
                    req[b].pc = "finish" /\ req[b].channel = "archive" /\ ActiveIn(req[b].lease)
    <2>1. req[b].pc \in {"finish", "closed"} /\ req[b].channel = "archive"
      BY <1>3 DEF Reported
    <2> QED
      BY <1>0, <1>1, <1>3, <2>1, FinishReached
  <1>4. ASSUME node' = "completed", output' = b PROVE Potential(b)
    <2>1. ASSUME NEW r \in Request, Finish(r) PROVE Potential(b)
      <3>1. output' = BytesOf(r) /\ req[r].pc = "finish" /\ ActiveIn(req[r].lease)
        BY <2>1 DEF Finish
      <3>2. req[r].lease \in Lease /\ req[r].channel \in {"ref", "archive"}
        BY <1>0, <3>1 DEF Results, TypeOK
      <3> QED
        BY <1>4, <3>1, <3>2 DEF BytesOf, Potential, Working
    <2> QED
      BY <1>4, <2>1, OutcomeSteps DEF Potential
  <1>5. Potential(b)' => Potential(b)
    BY <1>0, <1>2, <1>3, <1>4 DEF Potential, Working, ActiveIn
  <1> QED
    BY <1>2, <1>3, <1>5 DEF Reported

\* Result r brings new bytes to the file or to the row.
Lands(r) ==
  \/ Register(r) \/ CommitLost(r)
  \/ req[r].channel = "archive" /\ (Finish(r) \/ FinishLost(r))

\* Every copy somebody holds was held before, or is what a result lands.
LEMMA NewTraces ==
  ASSUME PlaneInv, Next
  PROVE  \A b \in Traces' : b \in Traces \/ \E r \in Request : Lands(r) /\ b = BytesOf(r)
  <1>0. /\ TypeOK /\ recon \in Reconciler /\ poll \in Poll
        /\ Idle \in Reconciler /\ Idle.hash = None /\ NoRow.hash = None /\ PollIdle.row = NoRow
    BY PlaneAssumption DEF PlaneInv, TypeOK, Reconciler, Poll, Idle, PollIdle, NoRow
  <1>1. local' \in Traces \cup {None} \/ \E r \in Request : Lands(r) /\ local' = BytesOf(r)
    <2>1. ASSUME NEW r \in Request, Register(r) \/ Finish(r) \/ FinishLost(r)
          PROVE  local' = local \/ (Lands(r) /\ local' = BytesOf(r))
      BY <2>1 DEF Register, Registered, Finish, FinishLost, Lands
    <2>2. RerunProducer \/ EvictUnlink \/ HydrateRecheck => local' \in {local, None}
      BY DEF RerunProducer, EvictUnlink, HydrateRecheck
    <2>3. HydrateRestore => local' \in {local, poll.row.hash}
      BY DEF HydrateRestore
    <2> QED
      BY <2>1, <2>2, <2>3, LocalSteps DEF Traces
  <1>2. row'.hash \in Traces \cup {None} \/ \E r \in Request : Lands(r) /\ row'.hash = BytesOf(r)
    <2>1. ASSUME NEW r \in Request, Register(r) \/ CommitLost(r)
          PROVE  row' = row \/ (Lands(r) /\ row'.hash = BytesOf(r))
      BY <2>1 DEF Register, Registered, CommitLost, Lands
    <2>2. RerunProducer => row'.hash = None
      BY <1>0 DEF RerunProducer
    <2>3. ReconRegister => row'.hash = recon.hash
      BY DEF ReconRegister
    <2> QED
      BY <1>0, <2>1, <2>2, <2>3, RowSteps DEF Traces
  <1>3. recon'.hash \in {recon.hash, local, None}
    <2>1. Maintenance => recon'.hash \in {recon.hash, local, None}
      BY <1>0 DEF Maintenance, ReconScan, ReconNothing, ReconPut, ReconRegister, EvictSnapshot,
                  EvictUnlink, ReconHash, Reconciler
    <2> QED
      BY <1>0, <2>1, HostSteps DEF Hydrate, HydrateStart, HydrateRows, HydrateRestore, HydrateRecheck,
                                   HostCrash
  <1>4. poll'.row.hash \in {poll.row.hash, row.hash, None}
    <2>1. Hydrate \/ HostCrash => poll'.row.hash \in {poll.row.hash, row.hash, None}
      BY <1>0 DEF Hydrate, HydrateStart, HydrateRows, HydrateRestore, HydrateRecheck, HostCrash, Poll
    <2> QED
      BY <2>1, HostSteps DEF Maintenance, ReconScan, ReconNothing, ReconPut, ReconRegister,
                             EvictSnapshot, EvictUnlink, ReconHash
  <1>5. evict' \in {evict, local, None}
    <2>1. Maintenance \/ Hydrate \/ HostCrash => evict' \in {evict, local, None}
      BY DEF Maintenance, ReconScan, ReconNothing, ReconPut, ReconRegister, EvictSnapshot, EvictUnlink,
             ReconHash, Hydrate, HydrateStart, HydrateRows, HydrateRestore, HydrateRecheck, HostCrash
    <2> QED
      BY <2>1, HostSteps
  <1> QED
    BY <1>1, <1>2, <1>3, <1>4, <1>5 DEF Traces

\* What a result lands is reported.
LEMMA LandedIsReported ==
  ASSUME PlaneInv, Next, NEW r \in Request, Lands(r)
  PROVE  BytesOf(r) \in Bytes /\ Reported(BytesOf(r))'
  <1>0. TypeOK /\ Results /\ Request \cap Lease = {}
    BY PlaneAssumption DEF PlaneInv
  <1>1. req[r].pc \in {"register", "finish"} /\ req[r].lease \in Lease
    BY <1>0 DEF Lands, Register, CommitLost, Finish, FinishLost, Results
  <1>2. req'[r].lease = req[r].lease /\ req'[r].channel = req[r].channel
    BY <1>0, <1>1, ThreadSteps DEF Accepted, Advances
  <1>3. req'[r].pc \in {"finish", "closed"}
    <2>1. /\ GoTo(r, "finish") \/ Fails(r) => req'[r].pc = "finish"
          /\ GoTo(r, "closed") => req'[r].pc = "closed"
      BY <1>0, MovesOne
    <2> QED
      BY <2>1 DEF Lands, Register, CommitLost, GivesUp, Finish, FinishLost, Settle
  <1>4. req[r].channel \in {"ref", "archive"}
    BY <1>0 DEF TypeOK
  <1> QED
    BY <1>0, <1>1, <1>2, <1>3, <1>4 DEF BytesOf, Bytes, Reported

\* A step keeps every held copy reported.
LEMMA TracesStep ==
  ASSUME PlaneInv, \A b \in Traces : Reported(b), Next
  PROVE  \A b \in Traces' : Reported(b)'
  <1>1. Traces \subseteq Bytes
    BY DEF PlaneInv, TypeOK, Traces, RowType, NoRow
  <1>2. ASSUME NEW b \in Traces PROVE Reported(b)'
    BY <1>1, ReportedLasts
  <1>3. ASSUME NEW r \in Request, Lands(r) PROVE BytesOf(r)' = BytesOf(r) /\ Reported(BytesOf(r))'
    <2>1. req[r].pc # "new" /\ TypeOK
      BY <1>3 DEF Lands, Register, CommitLost, Finish, FinishLost, PlaneInv
    <2> QED
      BY <1>3, <2>1, LandedIsReported, BytesKept
  <1>4. ASSUME NEW b \in Traces' PROVE Reported(b)'
    <2>1. CASE b \in Traces
      BY <1>2, <2>1
    <2>2. ASSUME NEW r \in Request, Lands(r), b = BytesOf(r) PROVE Reported(b)'
      <3>1. b = BytesOf(r)' /\ Reported(BytesOf(r))'
        BY <1>3, <2>2
      <3> QED
        BY <3>1 DEF Reported
    <2> QED
      BY <2>1, <2>2, NewTraces
  <1> QED
    BY <1>4

\* Bytes that can still matter belong to the completed node or to its only attempt.
LEMMA MatterNow ==
  ASSUME PlaneInv, NEW b \in Bytes, Potential(b)
  PROVE  /\ node \in {"completed", "running"} /\ (node = "completed" => output = b)
         /\ node = "running" => \E l \in Lease :
              /\ ActiveIn(l)
              /\ \/ b = l
                 \/ b \in Request /\ req[b].pc \in Working \cup {"waiting"} /\ req[b].lease = l
  <1>0. TypeOK /\ Attempts /\ Results
    BY DEF PlaneInv
  <1>1. ASSUME NEW l \in Lease, ActiveIn(l) PROVE node = "running"
    BY <1>0, <1>1, ActiveIsAlone
  <1>2. ASSUME b \in Request, req[b].pc \in Working \cup {"waiting"} PROVE req[b].lease \in Lease
    BY <1>0, <1>2 DEF Results, Working
  <1> QED
    BY <1>1, <1>2 DEF Potential

-----------------------------------------------------------------------------
(* The file is the output.                                                 *)

\* What was run over stays so until the producer is rerun.
LEMMA OverrunSteps ==
  ASSUME Next
  PROVE  overrun \subseteq overrun' \/ RerunProducer
  <1>1. ASSUME NEW r \in Request,
               \/ Result(r) \/ CommitLost(r) \/ FinishLost(r)
               \/ \E l \in Lease, ch \in {"ref", "archive"} : Report(r, l, ch)
        PROVE  overrun' = overrun
    BY <1>1 DEF Result, Enter, Verify, Copy, Register, RegisterRejected, FinishLate, CommitLost,
                FinishLost, Finish, FinishFailed, Report
  <1>2. ASSUME \/ Enqueue \/ ConsumerStarts \/ ConsumerCompletes \/ RerunConsumer
               \/ \E l \in Lease : Claim(l) \/ WorkerUpload(l) \/ Sweep(l)
               \/ \E k \in Key : DeleteRetired(k) \/ GcDelete(k)
               \/ Maintenance \/ Hydrate \/ HostCrash
        PROVE  overrun \subseteq overrun'
    BY <1>2 DEF Enqueue, ConsumerStarts, ConsumerCompletes, RerunConsumer, Claim, WorkerUpload, Sweep,
                DeleteRetired, GcDelete, Maintenance, ReconScan, ReconNothing, ReconPut,
                ReconRegister, EvictSnapshot, EvictUnlink, ReconHash, Hydrate, HydrateStart,
                HydrateRows, HydrateRestore, HydrateRecheck, HostCrash, RunsOver
  <1> QED
    BY <1>1, <1>2 DEF Next

\* While an attempt counts, a file that is not run over stays until the next result
\* lands: no eviction, no clearing by the poll thread.
LEMMA FileStaysWhileActive ==
  ASSUME PlaneInv, Next, NEW l \in Lease, ActiveIn(l), local # None, local \notin overrun',
         \A r \in Request : ~Register(r) /\ ~Finish(r) /\ ~FinishLost(r)
  PROVE  local' = local
  <1>1. node = "running" /\ ~Evictable
    BY ActiveIsAlone DEF PlaneInv
  <1>2. RerunProducer => FALSE
    BY <1>1 DEF RerunProducer
  <1>3. EvictUnlink => local' = local
    BY <1>1 DEF EvictUnlink
  <1>4. HydrateRestore => local' = local
    BY DEF HydrateRestore, RunsOver
  <1>5. HydrateRecheck => local' = local
    BY <1>1 DEF HydrateRecheck, SameGeneration, PlaneInv, Turns
  <1> QED
    BY <1>2, <1>3, <1>4, <1>5, LocalSteps

\* A good result over references, at its finish, has its file in place.
LEMMA LandedFileStep ==
  ASSUME PlaneInv, FileInv, Next, NEW r \in Request,
         req'[r].pc = "finish", req'[r].ok, req'[r].channel = "ref", ActiveIn(req[r].lease)',
         req'[r].lease \notin overrun'
  PROVE  local' = req'[r].lease
  <1>1. CASE Register(r)
    <2>1. req[r].channel = "ref" /\ req'[r].lease = req[r].lease
      BY FinishReached
    <2> QED
      BY <1>1, <2>1 DEF Register, Registered, BytesOf
  <1>2. CASE req'[r] = req[r]
    <2>1. /\ req[r].lease \in Lease /\ ActiveIn(req[r].lease)
          /\ req[r].pc = "finish" /\ req[r].ok /\ req[r].channel = "ref"
      BY <1>2, FinishReached
    <2>2. PICK l \in Lease : l = req[r].lease /\ ActiveIn(l)
      BY <2>1
    <2>3. overrun \subseteq overrun'
      <3>1. node = "running"
        BY <2>2, ActiveIsAlone DEF PlaneInv
      <3> QED
        BY <3>1, OverrunSteps DEF RerunProducer
    <2>4. local = l /\ local # None /\ local \notin overrun'
      BY <1>2, <2>1, <2>2, <2>3, PlaneAssumption DEF FileInv, Delivered, Bytes
    <2>5. ASSUME NEW s \in Request, Register(s) \/ Finish(s) \/ FinishLost(s) PROVE FALSE
      <3>1. s # r
        <4>1. /\ GoTo(s, "finish") => req'[s].pc = "finish"
              /\ GoTo(s, "closed") => req'[s].pc = "closed"
          BY MovesOne DEF PlaneInv
        <4>2. Register(s) => req[s].pc # req'[s].pc
          BY <4>1 DEF Register
        <4>3. Finish(s) \/ FinishLost(s) => req[s].pc # req'[s].pc
          BY <4>1 DEF Finish, FinishLost, Settle
        <4> QED
          BY <1>2, <2>5, <4>2, <4>3
      <3>2. req[s].pc \in Working /\ Gate(s)
        BY <2>5 DEF Register, Finish, FinishLost, Gate, Working
      <3> QED
        BY <2>1, <3>1, <3>2, LandsAlone DEF Working
    <2>6. local' = local
      BY <2>2, <2>4, <2>5, FileStaysWhileActive
    <2> QED
      BY <1>2, <2>2, <2>4, <2>6
  <1> QED
    BY <1>1, <1>2, FinishReached

\* A completed node is only left by a rerun, and then nothing may still be delivered.
LEMMA LeavesCompleted ==
  ASSUME PlaneInv, Next, node = "completed", node' # "completed", NEW b \in Bytes
  PROVE  ~Potential(b)'
  <1>0. TypeOK /\ Attempts /\ Results
    BY DEF PlaneInv
  <1>1. node' = "pending"
    <2>1. \A l \in Lease : ~Sweep(l) /\ ~Claim(l)
      BY <1>0 DEF Sweep, Claim, Attempts
    <2>2. \A r \in Request : ~Finish(r) /\ ~FinishFailed(r)
      BY <1>0 DEF Finish, FinishFailed, ActiveIn, Attempts, Results
    <2> QED
      BY <1>0, <2>1, <2>2, DbSteps
         DEF db, Enqueue, ConsumerStarts, ConsumerCompletes, RerunConsumer, RerunProducer, WorkerUpload
  <1>2. Attempts' /\ Results'
    BY <1>0, AttemptsStep, ResultsStep
  <1>3. \A l \in Lease : ~ActiveIn(l)'
    BY <1>1, <1>2 DEF Attempts, ActiveIn
  <1>4. req'[b].pc \in Working \cup {"waiting"} /\ b \in Request => req'[b].lease \in Lease
    BY <1>2 DEF Results, Working
  <1> QED
    BY <1>1, <1>3, <1>4 DEF Potential, ActiveIn

\* The same for a rerun of the producer in any state.
LEMMA RerunForgets ==
  ASSUME PlaneInv, RerunProducer, NEW b \in Bytes
  PROVE  ~Potential(b)'
  <1>0. TypeOK /\ Attempts /\ Results
    BY DEF PlaneInv
  <1>1. node' = "pending" /\ lease' = lease /\ req' = req /\ node # "running"
    BY DEF RerunProducer
  <1>2. \A l \in Lease : lease[l].state # "active"
    BY <1>0, <1>1 DEF Attempts
  <1>3. b \in Request /\ req[b].pc \in Working \cup {"waiting"} => req[b].lease \in Lease
    BY <1>0 DEF Results, Working
  <1> QED
    BY <1>1, <1>2, <1>3 DEF Potential, ActiveIn

\* A step keeps an eviction from holding bytes that may still be delivered.
LEMMA CertifiedStep ==
  ASSUME PlaneInv, FileInv, Next
  PROVE  CertifiedIsPast'
  <1> SUFFICES ASSUME evict' # None, node' # "completed" PROVE ~Potential(evict)'
    BY DEF CertifiedIsPast
  <1>0. TypeOK /\ Attempts
    BY DEF PlaneInv
  <1>1. evict' = evict
    <2>1. ~EvictSnapshot
      BY <1>0 DEF EvictSnapshot, Evictable, Attempts, db
    <2> QED
      BY <2>1, HostSteps
         DEF Maintenance, ReconScan, ReconNothing, ReconPut, ReconRegister, EvictUnlink, ReconHash,
             Hydrate, HydrateStart, HydrateRows, HydrateRestore, HydrateRecheck, HostCrash
  <1>2. PICK b \in Bytes : b = evict /\ Reported(b)
    BY <1>0, <1>1 DEF TypeOK, FileInv, Traces
  <1>3. ~Potential(b)'
    <2>1. CASE node = "completed"
      BY <2>1, LeavesCompleted
    <2>2. CASE node # "completed"
      BY <1>1, <1>2, <2>2, ReportedLasts DEF FileInv, CertifiedIsPast
    <2> QED
      BY <2>1, <2>2
  <1> QED
    BY <1>1, <1>2, <1>3 DEF Potential

\* While the node is completed, only the maintenance and the poll thread touch the
\* file and the row: every result finds its gate closed.
LEMMA SettledSteps ==
  ASSUME PlaneInv, Next, node = "completed", node' = "completed"
  PROVE  Maintenance \/ Hydrate \/ HostCrash \/ UNCHANGED <<row, local, recon, evict, poll>>
  <1>1. ASSUME NEW r \in Request
        PROVE  ~Register(r) /\ ~Finish(r) /\ ~FinishLost(r) /\ ~CommitLost(r)
    BY LandsAlone DEF Register, Finish, FinishLost, CommitLost, Gate, Working
  <1>2. ~RerunProducer
    BY DEF RerunProducer
  <1>3. row' # row => Maintenance
    BY <1>1, <1>2, RowSteps DEF PlaneInv, Maintenance
  <1>4. local' # local => Maintenance \/ Hydrate
    BY <1>1, <1>2, LocalSteps DEF Maintenance, Hydrate
  <1> QED
    BY <1>3, <1>4, HostSteps

\* The result that completes the node has its file in place, and no eviction that is
\* under way has certified its bytes.
LEMMA FinishSettles ==
  ASSUME PlaneInv, FileInv, Next, NEW r \in Request, Finish(r), output' \notin overrun'
  PROVE  /\ output' # None /\ local' = output' /\ evict' # output'
  <1>0. /\ TypeOK /\ None \notin Bytes /\ req[r].lease \in Lease /\ req[r].channel \in {"ref", "archive"}
        /\ BytesOf(r) \in Bytes
    BY PlaneAssumption, RowsTyped DEF PlaneInv, Results, Finish, TypeOK
  <1>1. /\ output' = BytesOf(r) /\ overrun' = overrun /\ evict' = evict
        /\ req[r].pc = "finish" /\ req[r].ok /\ ActiveIn(req[r].lease)
    BY DEF Finish
  <1>2. local' = BytesOf(r)
    BY <1>0, <1>1 DEF Finish, FileInv, Delivered, BytesOf
  <1>3. node = "running"
    BY <1>0, <1>1, ActiveIsAlone DEF PlaneInv
  <1>4. Potential(BytesOf(r))
    BY <1>0, <1>1 DEF Potential, BytesOf, Working
  <1>5. evict # BytesOf(r)
    BY <1>0, <1>3, <1>4 DEF FileInv, CertifiedIsPast
  <1> QED
    BY <1>0, <1>1, <1>2, <1>5

\* A step keeps the file of a completed node.
LEMMA SettledStep ==
  ASSUME PlaneInv, FileInv, Next
  PROVE  Settled'
  <1> SUFFICES ASSUME node' = "completed", output' \notin overrun'
               PROVE  /\ output' # None
                      /\ local' \in {None, output'}
                      /\ local' = None =>
                           /\ row'.key # None /\ row'.hash = output'
                           /\ recon'.pc \in {"idle", "scanned"} /\ evict' = None
                           /\ poll'.pc = "rows" => poll'.row.hash = output'
                      /\ evict' = output' => row'.hash = output'
    BY DEF Settled
  <1>0. /\ TypeOK /\ Turns /\ recon \in Reconciler /\ poll \in Poll /\ row \in RowType
        /\ Idle \in Reconciler /\ Idle.pc = "idle" /\ None \notin Bytes /\ None \notin Key
        /\ PollIdle.pc = "idle"
    BY PlaneAssumption DEF PlaneInv, TypeOK, Reconciler, Poll, Idle, PollIdle
  <1>1. ASSUME NEW r \in Request, Finish(r)
        PROVE  output' # None /\ local' = output' /\ evict' # output'
    BY <1>1, FinishSettles
  <1>2. CASE node = "completed" /\ output' = output
    <2> DEFINE Same == UNCHANGED <<row, local, recon, evict, poll>>
    <2>00. overrun \subseteq overrun'
      BY <1>2, OverrunSteps DEF RerunProducer
    <2>0. /\ output # None /\ local \in {None, output}
          /\ local = None => /\ row.key # None /\ row.hash = output
                             /\ recon.pc \in {"idle", "scanned"} /\ evict = None
                             /\ poll.pc = "rows" => poll.row.hash = output
          /\ evict = output => row.hash = output
      BY <1>2, <2>00 DEF FileInv, Settled
    <2>1. CASE Same
      BY <1>0, <1>2, <2>0, <2>1
    <2>2. CASE ReconScan \/ ReconNothing
      BY <1>0, <1>2, <2>0, <2>2 DEF ReconScan, ReconNothing, Reconciler
    <2>3. CASE ReconPut
      BY <1>0, <1>2, <2>0, <2>3 DEF ReconPut, Reconciler
    <2>4. CASE ReconRegister
      BY <1>0, <1>2, <2>0, <2>4 DEF ReconRegister, Turns
    <2>5. CASE EvictSnapshot
      BY <1>0, <1>2, <2>0, <2>5 DEF EvictSnapshot, Certified
    <2>6. CASE EvictUnlink
      <3>1. recon.pc = "idle" /\ local = output
        BY <1>0, <2>0, <2>6 DEF EvictUnlink, Turns
      <3>2. CASE Evictable
        <4>1. poll.pc = "idle"
          BY <1>0, <3>2 DEF Evictable, Turns
        <4>2. evict = output
          BY <1>2, <2>0, <2>6, <3>1, <3>2 DEF EvictUnlink, RunsOver
        <4>3. row.hash = output /\ row.key # None
          BY <1>0, <2>0, <4>2 DEF RowType, NoRow
        <4> QED
          BY <1>2, <2>0, <2>6, <3>1, <3>2, <4>1, <4>3 DEF EvictUnlink
      <3>3. CASE ~Evictable
        BY <1>2, <2>0, <2>6, <3>1, <3>3 DEF EvictUnlink
      <3> QED
        BY <3>2, <3>3
    <2>7. ASSUME NEW k \in Pass, ReconHash(k) PROVE local # None /\ UNCHANGED <<row, local, evict, poll>>
      BY <2>7 DEF ReconHash
    <2>8. CASE HydrateStart \/ HydrateRows
      BY <1>0, <1>2, <2>0, <2>8 DEF HydrateStart, HydrateRows, Poll
    <2>9. CASE HydrateRestore
      <3>1. poll'.pc # "rows" /\ UNCHANGED <<row, recon, evict>>
        BY <1>0, <2>9 DEF HydrateRestore, Poll
      <3>2. local' = local \/ local' = output
        BY <1>2, <2>0, <2>9 DEF HydrateRestore, RunsOver
      <3> QED
        BY <1>2, <2>0, <3>1, <3>2
    <2>10. CASE HydrateRecheck
      <3>1. SameGeneration
        BY <1>0, <1>2, <2>10 DEF HydrateRecheck, Turns, SameGeneration
      <3> QED
        BY <1>0, <1>2, <2>0, <2>10, <3>1 DEF HydrateRecheck
    <2>12. CASE HostCrash
      <3>1. evict' = None /\ poll'.pc = "idle" /\ recon'.pc = "idle" /\ UNCHANGED <<row, local>>
        BY <1>0, <2>12 DEF HostCrash
      <3> QED
        BY <1>2, <2>0, <3>1
    <2> HIDE DEF Same
    <2>11. Maintenance \/ Hydrate \/ HostCrash \/ Same
      BY <1>2, SettledSteps DEF Same
    <2> QED
      BY <1>2, <2>0, <2>1, <2>2, <2>3, <2>4, <2>5, <2>6, <2>7, <2>8, <2>9, <2>10, <2>11,
         <2>12
         DEF Maintenance, Hydrate
  <1> QED
    BY <1>1, <1>2, OutcomeSteps

\* A step keeps FileInv.
LEMMA FileStep == PlaneInv /\ FileInv /\ [Next]_vars => FileInv'
  <1>1. ASSUME PlaneInv, FileInv, Next PROVE Delivered'
    <2>1. ASSUME NEW r \in Request, req'[r].pc = "finish", req'[r].ok, req'[r].channel = "ref",
                 ActiveIn(req[r].lease)', req'[r].lease \notin overrun'
          PROVE  local' = req'[r].lease
      BY <1>1, <2>1, LandedFileStep
    <2> QED
      BY <2>1 DEF Delivered, ActiveIn
  <1>2. ASSUME PlaneInv, FileInv, Next PROVE \A b \in Traces' : Reported(b)'
    BY <1>2, TracesStep DEF FileInv
  <1>3. ASSUME UNCHANGED vars, FileInv PROVE FileInv'
    BY <1>3 DEF vars, db, FileInv, Delivered, Settled, CertifiedIsPast, Potential, Traces, Reported,
                ActiveIn
  <1> QED
    BY <1>1, <1>2, <1>3, CertifiedStep, SettledStep DEF FileInv

\* FileInv holds of every reachable state.
LEMMA FileInvHolds == Spec => []FileInv
  <1>1. Init => FileInv
    <2> SUFFICES ASSUME Init PROVE FileInv
      OBVIOUS
    <2>1. \A r \in Request : req[r].pc = "new"
      BY ThreadsStartNew
    <2>2. Traces = {}
      BY DEF Init, Traces, Idle, PollIdle, NoRow
    <2> QED
      BY <2>1, <2>2 DEF Init, FileInv, Delivered, CertifiedIsPast, Settled
  <1> QED
    BY <1>1, PlaneInvHolds, FileStep, PTL DEF Spec

\* The file of a completed node is the output of the result that completed it,
\* whatever is late, swept, evicted, restored or rerun, as long as the Host did not run
\* over that output itself (EXEC-GENERATION-001).
THEOREM LocalIsOutputHolds == Spec => []LocalIsOutput
  <1>1. FileInv => LocalIsOutput
    BY DEF FileInv, Settled, LocalIsOutput
  <1> QED
    BY <1>1, FileInvHolds, PTL

-----------------------------------------------------------------------------
(* The bytes survive.                                                      *)

\* Once reported bytes can no longer matter, they never can again.
LEMMA MattersLasts ==
  ASSUME PlaneInv, Next, NEW b \in Bytes, Reported(b), Matters(b)'
  PROVE  Matters(b)
  <1>0. TypeOK /\ Results /\ None \notin Lease
    BY PlaneAssumption DEF PlaneInv, Bytes
  <1>1. Potential(b) /\ Potential(b)'
    BY ReportedLasts DEF Matters
  <1>2. b \notin overrun
    BY <1>1, OverrunSteps, RerunForgets DEF Matters
  <1>3. ASSUME "finish" \in faulted PROVE OneChannel(AttemptOf(b))
    <2>1. PICK l \in Lease : l = AttemptOf(b)
      BY <1>0 DEF Reported, AttemptOf, Bytes, Results
    <2>2. AttemptOf(b)' = l
      BY <1>0, <2>1, ThreadsKept DEF AttemptOf, Reported, Bytes
    <2>3. "finish" \in faulted'
      BY <1>3, FaultsStay
    <2>4. \A q, r \in Request : req'[q].lease = l /\ req'[r].lease = l => req'[q].channel = req'[r].channel
      BY <2>2, <2>3 DEF Matters, Plain, OneChannel
    <2>5. \A q \in Request : req[q].lease = l => req'[q].lease = l /\ req'[q].channel = req[q].channel
      BY <1>0, ThreadsKept DEF Results
    <2> QED
      BY <2>1, <2>4, <2>5 DEF OneChannel
  <1> QED
    BY <1>1, <1>2, <1>3 DEF Matters, Plain

\* A result that lands beside bytes that can still matter lands those very bytes, or
\* settles that they cannot.
LEMMA LandsTheSame ==
  ASSUME PlaneInv, Next, NEW b \in Bytes, Reported(b), Potential(b), Matters(b)',
         NEW s \in Request, Register(s) \/ Finish(s) \/ FinishLost(s), local' # local
  PROVE  local' = b
  <1>0. TypeOK /\ Attempts /\ Results /\ Request \cap Lease = {} /\ None \notin Lease
    BY PlaneAssumption DEF PlaneInv, Bytes
  <1>1. PICK m \in Lease : m = req[s].lease /\ ActiveIn(m)
    BY <1>0 DEF Register, Gate, Finish, FinishLost, Results
  <1>2. node = "running" /\ \A l \in Lease : ActiveIn(l) => l = m
    BY <1>0, <1>1, ActiveIsAlone
  <1>3. req[s].pc \in {"register", "finish"} /\ Gate(s)
    BY <1>1 DEF Register, Finish, FinishLost, Gate
  <1>4. b = m \/ b = s
    <2>1. ASSUME b \in Request, req[b].pc \in Working \cup {"waiting"}, req[b].lease = m PROVE b = s
      <3>1. req[b].pc = "finish"
        BY <2>1 DEF Reported, Working
      <3> QED
        BY <1>1, <1>3, <2>1, <3>1, LandsAlone DEF Working
    <2> QED
      BY <1>2, <2>1, MatterNow
  <1>5. CASE Register(s)
    <2>1. req[s].channel = "ref" /\ local' = m
      BY <1>1, <1>5 DEF Register, Registered, BytesOf
    <2>2. b # s
      BY <1>5, <2>1 DEF Register, Reported
    <2> QED
      BY <1>4, <2>1, <2>2
  <1>6. CASE Finish(s)
    <2>1. req[s].channel = "archive" /\ local' = s
      BY <1>6 DEF Finish, BytesOf
    <2>2. node' = "completed" /\ output' = s
      BY <1>6, <2>1 DEF Finish, Settle, BytesOf
    <2>3. lease'[m].state = "released"
      BY <1>0, <1>1, <1>6, Releases DEF Finish, Settle, TypeOK
    <2> QED
      BY <1>0, <1>4, <2>1, <2>2, <2>3 DEF Matters, Potential, ActiveIn
  <1>7. CASE FinishLost(s)
    <2>1. req[s].channel = "archive" /\ local' = s /\ "finish" \in faulted'
      BY <1>7 DEF FinishLost, BytesOf, Happens
    <2>2. b # m
      <3> SUFFICES ASSUME b = m PROVE FALSE
        OBVIOUS
      <3>1. OneChannel(m)'
        BY <2>1 DEF Matters, Plain, AttemptOf, OneChannel
      <3>2. PICK q \in Request : req[q].lease = m /\ req[q].channel = "ref"
        BY DEF Reported
      <3>3. /\ req'[q].lease = m /\ req'[q].channel = "ref"
            /\ req'[s].lease = m /\ req'[s].channel = "archive"
        BY <1>0, <1>1, <1>3, <2>1, <3>2, ThreadsKept DEF Results
      <3> QED
        BY <3>1, <3>3 DEF OneChannel
    <2> QED
      BY <1>4, <2>1, <2>2
  <1> QED
    BY <1>5, <1>6, <1>7

\* A file that can still matter stays where it is: it is not rerun away, restored
\* over, cleared, or replaced by another result.
LEMMA FileStays ==
  ASSUME PlaneInv, Next, NEW b \in Bytes, Reported(b), local = b, Matters(b)', evict = None
  PROVE  local' = b
  <1>0. TypeOK /\ Turns /\ None \notin Bytes
    BY PlaneAssumption DEF PlaneInv
  <1>1. Potential(b) /\ Potential(b)' /\ b \notin overrun'
    BY ReportedLasts DEF Matters
  <1>2. ~RerunProducer /\ ~EvictUnlink
    BY <1>1, RerunForgets DEF EvictUnlink
  <1>3. HydrateRestore => local' = b
    BY <1>0, <1>1 DEF HydrateRestore, RunsOver
  <1>4. HydrateRecheck => local' = local
    <2>1. node # "pending"
      BY <1>1, MatterNow
    <2> QED
      BY <1>0, <2>1 DEF HydrateRecheck, SameGeneration, Turns
  <1>5. ASSUME NEW s \in Request, Register(s) \/ Finish(s) \/ FinishLost(s), local' # local
        PROVE  local' = b
    BY <1>1, <1>5, LandsTheSame
  <1> QED
    BY <1>2, <1>3, <1>4, <1>5, LocalSteps

\* A step keeps what FileMatters says of the file.
LEMMA FileMattersStep ==
  ASSUME PlaneInv, FileInv, SurvivalInv, Next
  PROVE  FileMatters'
  <1>0. /\ TypeOK /\ Turns /\ Objects /\ recon \in Reconciler
        /\ Idle \in Reconciler /\ Idle.pc = "idle" /\ None \notin Bytes
    BY PlaneAssumption DEF PlaneInv, TypeOK, Reconciler, Idle
  <1> SUFFICES ASSUME recon'.pc = "hashed", Matters(recon.hash)'
               PROVE  local' = recon'.hash
    BY DEF FileMatters
  <1>1. CASE recon' = recon
    <2>1. PICK b \in Bytes : b = recon.hash /\ b \in Traces
      BY <1>0, <1>1 DEF Objects, Traces, Reconciler
    <2>2. Matters(b)' /\ Reported(b)
      BY <1>1, <2>1 DEF Matters, Potential, Plain, AttemptOf, OneChannel, FileInv
    <2>3. local = b /\ evict = None
      BY <1>0, <1>1, <2>1, <2>2, MattersLasts DEF SurvivalInv, FileMatters, Turns
    <2> QED
      BY <1>1, <2>1, <2>2, <2>3, FileStays
  <1>2. CASE recon' # recon
    <2>1. HostCrash => recon'.pc = "idle"
      BY <1>0 DEF HostCrash
    <2>2. Maintenance => \E k \in Pass : ReconHash(k)
      BY <1>0, <1>2 DEF Maintenance, ReconScan, ReconNothing, ReconPut, ReconRegister,
                        EvictSnapshot, EvictUnlink, Reconciler
    <2>3. Maintenance
      BY <1>2, <2>1, HostSteps
         DEF Hydrate, HydrateStart, HydrateRows, HydrateRestore, HydrateRecheck
    <2>4. PICK k \in Pass : ReconHash(k)
      BY <2>2, <2>3
    <2> QED
      BY <1>0, <2>4 DEF ReconHash, Reconciler
  <1> QED
    BY <1>1, <1>2

\* A step keeps what KeysMatter says of the reconciler's objects: they are written
\* once, and nobody deletes one that a row or the reconciler itself still names.
LEMMA KeysMatterStep ==
  ASSUME PlaneInv, FileInv, SurvivalInv, Next
  PROVE  KeysMatter'
  <1>0. /\ TypeOK /\ Objects /\ recon \in Reconciler /\ row \in RowType
        /\ Idle \in Reconciler /\ Idle.pc = "idle" /\ None \notin Bytes \cup Key
        /\ Traces \subseteq Bytes /\ Request \cap Pass = {} /\ Pass \subseteq Key
    BY PlaneAssumption DEF PlaneInv, TypeOK, Reconciler, Idle, Traces, RowType, NoRow, Key
  <1>1. ASSUME NEW b \in Traces PROVE Matters(b)' => Matters(b)
    BY <1>0, <1>1, MattersLasts DEF FileInv
  <1>2. ASSUME NEW k \in Pass, row.key = k \/ (recon.pc = "put" /\ recon.key = k)
        PROVE  object'[k] = object[k]
    <2>1. ASSUME NEW r \in Request, Copy(r) PROVE object'[k] = object[k]
      <3>1. object' = object \/ object' = [object EXCEPT ![r] = BytesOf(r)]
        BY <2>1 DEF Copy
      <3> QED
        BY <1>0, <3>1 DEF TypeOK
    <2>2. ASSUME NEW j \in Key, DeleteRetired(j) \/ GcDelete(j) PROVE object'[k] = object[k]
      <3>1. object' = object \/ object' = [object EXCEPT ![j] = None]
        BY <2>2 DEF DeleteRetired, GcDelete
      <3>2. j = k => object' = object
        BY <1>0, <1>2, <2>2 DEF DeleteRetired, GcDelete, Orphan, Objects
      <3> QED
        BY <1>0, <3>1, <3>2 DEF TypeOK
    <2>3. ASSUME ReconPut PROVE object'[k] = object[k]
      <3>1. recon.pc = "hashed" /\ recon.key # k
        BY <1>0, <1>2, <2>3 DEF ReconPut, Objects
      <3>2. object' = object \/ object' = [object EXCEPT ![recon.key] = local]
        BY <2>3 DEF ReconPut
      <3> QED
        BY <1>0, <3>1, <3>2 DEF TypeOK
    <2>4. ASSUME NEW r \in Request, Register(r) \/ CommitLost(r) PROVE object' = object
      BY <2>4 DEF Register, CommitLost
    <2>5. RerunProducer \/ HostCrash => object' = object
      BY DEF RerunProducer, HostCrash
    <2>6. Maintenance => object' = object \/ ReconPut
      BY DEF Maintenance, ReconScan, ReconNothing, ReconRegister, EvictSnapshot, EvictUnlink, ReconHash
    <2> QED
      BY <1>0, <2>1, <2>2, <2>3, <2>4, <2>5, <2>6, ByteSteps
  <1>3. ASSUME recon'.pc = "put", Matters(recon.hash)'
        PROVE  object'[recon'.key] = recon'.hash
    <2>1. recon' = recon \/ ReconPut
      <3>1. HostCrash => recon'.pc = "idle"
        BY <1>0 DEF HostCrash
      <3>2. Maintenance => recon' = recon \/ ReconPut
        BY <1>0, <1>3 DEF Maintenance, ReconScan, ReconNothing, ReconRegister, EvictSnapshot,
                          EvictUnlink, ReconHash, Reconciler
      <3> QED
        BY <1>3, <3>1, <3>2, HostSteps
           DEF Hydrate, HydrateStart, HydrateRows, HydrateRestore, HydrateRecheck
    <2>2. CASE recon' = recon
      <3>1. recon.hash \in Traces /\ recon.key \in Pass
        BY <1>0, <1>3, <2>2 DEF Objects, Traces
      <3>2. Matters(recon.hash)
        BY <1>1, <1>3, <2>2, <3>1
      <3> QED
        BY <1>2, <1>3, <2>2, <3>1, <3>2 DEF SurvivalInv, KeysMatter
    <2>3. CASE ReconPut
      <3>1. recon.pc = "hashed" /\ recon.hash \in Traces /\ recon.key \in Pass
        BY <1>0, <2>3 DEF ReconPut, Objects, Traces
      <3>2. /\ object' = [object EXCEPT ![recon.key] = local]
            /\ recon'.hash = recon.hash /\ recon'.key = recon.key
        BY <1>0, <1>3, <2>3 DEF ReconPut, Reconciler
      <3>3. Matters(recon.hash)
        BY <1>1, <1>3, <3>1, <3>2
      <3>4. local = recon.hash
        BY <3>1, <3>3 DEF SurvivalInv, FileMatters
      <3> QED
        BY <1>0, <3>1, <3>2, <3>4 DEF TypeOK
    <2> QED
      BY <2>1, <2>2, <2>3
  <1>4. ASSUME row'.key \in Pass, Matters(row.hash)'
        PROVE  object'[row'.key] = row'.hash
    <2>1. CASE row' = row
      <3>1. row.hash \in Traces
        BY <1>0, <1>4, <2>1 DEF RowType, NoRow, Traces
      <3>2. Matters(row.hash)
        BY <1>1, <1>4, <2>1, <3>1
      <3> QED
        BY <1>2, <1>4, <2>1, <3>2 DEF SurvivalInv, KeysMatter
    <2>2. CASE ReconRegister
      <3>1. /\ recon.pc = "put" /\ object' = object
            /\ row'.key = recon.key /\ row'.hash = recon.hash
        BY <2>2 DEF ReconRegister
      <3>2. recon.hash \in Traces
        BY <1>0, <3>1 DEF Objects, Traces
      <3>3. Matters(recon.hash)
        BY <1>1, <1>4, <3>1, <3>2
      <3> QED
        BY <3>1, <3>3 DEF SurvivalInv, KeysMatter
    <2>3. RerunProducer => FALSE
      BY <1>0, <1>4 DEF RerunProducer, NoRow
    <2>4. ASSUME NEW r \in Request, Register(r) \/ CommitLost(r) PROVE row' = row
      BY <1>0, <1>4, <2>4 DEF Register, Registered, CommitLost
    <2> QED
      BY <1>0, <2>1, <2>2, <2>3, <2>4, RowSteps
  <1> QED
    BY <1>3, <1>4 DEF KeysMatter

\* The bytes of a completed node are in the job directory or in the object its row
\* names, whatever is evicted, restored, collected, lost or rerun, as long as the Host
\* did not run over the output and no attempt of two channels lost a finish
\* (EXEC-ARTIFACT-STORE-001).
THEOREM OutputSurvivesHolds == Spec => []OutputSurvives
  <1>1. Init => SurvivalInv
    <2> SUFFICES ASSUME Init PROVE SurvivalInv
      OBVIOUS
    <2>1. recon.pc = "idle" /\ row.key = None
      BY DEF Init, Idle, NoRow
    <2>2. None \notin Pass
      BY PlaneAssumption DEF Key
    <2> QED
      BY <2>1, <2>2 DEF SurvivalInv, FileMatters, KeysMatter
  <1>2. PlaneInv /\ FileInv /\ SurvivalInv /\ [Next]_vars => SurvivalInv'
    <2>1. ASSUME PlaneInv, FileInv, SurvivalInv, Next PROVE SurvivalInv'
      BY <2>1, FileMattersStep, KeysMatterStep DEF SurvivalInv
    <2>2. ASSUME UNCHANGED vars, SurvivalInv PROVE SurvivalInv'
      BY <2>2 DEF vars, db, SurvivalInv, FileMatters, KeysMatter, Matters, Potential, Plain, AttemptOf,
                  OneChannel, ActiveIn
    <2> QED
      BY <2>1, <2>2
  <1>3. PlaneInv /\ FileInv /\ SurvivalInv => OutputSurvives
    <2> SUFFICES ASSUME PlaneInv, FileInv, SurvivalInv, node = "completed", output \notin overrun,
                        Plain(output), local # output
                 PROVE  row.key # None /\ object[row.key] = output
      BY DEF OutputSurvives
    <2>1. row.key # None /\ row.hash = output
      BY DEF FileInv, Settled
    <2>2. row.key \in Request \cup Pass
      BY <2>1 DEF PlaneInv, TypeOK, RowType, NoRow, Key
    <2>3. row.key \in Request => object[row.key] = row.hash
      BY DEF PlaneInv, Objects
    <2>4. row.key \in Pass => object[row.key] = row.hash
      BY <2>1 DEF SurvivalInv, KeysMatter, Matters, Potential
    <2> QED
      BY <2>1, <2>2, <2>3, <2>4
  <1> QED
    BY <1>1, <1>2, <1>3, PlaneInvHolds, FileInvHolds, PTL DEF Spec

=============================================================================
