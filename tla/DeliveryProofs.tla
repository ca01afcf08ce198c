--------------------------- MODULE DeliveryProofs ---------------------------
(***************************************************************************)
(* One attempt at a time has the directory of an execution, and a lease    *)
(* the Host honours is not condemned, is beaten, and its result is kept:   *)
(* for every set of leases and any number of crashes.                      *)
(***************************************************************************)
EXTENDS WorkerDelivery, TLAPS

\* The kinds of write to the record of a task keep its type.
LEMMA TaskValues == NoTask \in Task /\ NewTask \in Task /\ DoneTask \in Task
  BY DEF Task, NoTask, NewTask, DoneTask, Stages, Answers, Degraded

LEMMA TaskStage ==
  ASSUME task \in [Lease -> Task], NEW l \in Lease, NEW s \in Stages
  PROVE  [task EXCEPT ![l].stage = s] \in [Lease -> Task]
  BY DEF Task

LEMMA TaskAnswer ==
  ASSUME task \in [Lease -> Task], NEW l \in Lease, NEW a \in Answers
  PROVE  [task EXCEPT ![l].answer = a] \in [Lease -> Task]
  BY DEF Task

LEMMA TaskStageAnswer ==
  ASSUME task \in [Lease -> Task], NEW l \in Lease, NEW s \in Stages, NEW a \in Answers
  PROVE  [task EXCEPT ![l].stage = s, ![l].answer = a] \in [Lease -> Task]
  BY DEF Task

LEMMA TaskArmed ==
  ASSUME task \in [Lease -> Task], NEW l \in Lease, NEW s \in Stages, NEW r \in BOOLEAN
  PROVE  [task EXCEPT ![l].stage = s, ![l].rebound = r] \in [Lease -> Task]
  BY DEF Task

LEMMA TaskRewritten ==
  ASSUME task \in [Lease -> Task], NEW l \in Lease, NEW s \in Stages, NEW a \in Answers, NEW d \in Degraded
  PROVE  [task EXCEPT ![l].stage = s, ![l].answer = a, ![l].degraded = d] \in [Lease -> Task]
  BY DEF Task

LEMMA StageNames ==
  {"queued", "bulk", "ready", "loop", "sent", "backoff", "rewriting", "dropping", "finalize"}
    \subseteq Stages
  BY DEF Stages

LEMMA ThreadType ==
  ASSUME TypeOK, NEW l \in Lease, ThreadStep(l)
  PROVE  TypeOK'
<1> USE WorkerAssumption DEF TypeOK, hostVars, threadVars, queueVars, beatVars, Opt
<1>1. CASE Register(l)
  BY <1>1, ZenonT(60) DEF Register, Condemn, Entry, PC
<1>2. CASE FencePrior(l)
  BY <1>2 DEF FencePrior, PC
<1>3. CASE PassBarrier(l)
  BY <1>3 DEF PassBarrier, PC
<1>4. CASE AbandonWait(l)
  BY <1>4 DEF AbandonWait, Prune, PC
<1>5. CASE Prepare(l)
  BY <1>5, SMTT(60) DEF Prepare, Dir, PC
<1>6. CASE Exit(l) \/ ExitLost(l) \/ ReleaseRefused(l) \/ ReleaseSlot(l) \/ GiveUpMutex(l)
  BY <1>6 DEF Exit, ExitLost, ReleaseRefused, ReleaseSlot, GiveUpMutex, PC
<1>7. CASE Submit(l)
  <2>1. task' \in [Lease -> Task]
    BY <1>7, TaskValues DEF Submit
  <2> QED BY <1>7, <2>1 DEF Submit, Dir, PC
<1>8. CASE SubmitFails(l)
  BY <1>8 DEF SubmitFails, Prune, Dir, PC
<1>9. CASE Discard(l)
  BY <1>9 DEF Discard, Prune, NoDir, Dir, PC
<1> QED
  BY <1>1, <1>2, <1>3, <1>4, <1>5, <1>6, <1>7, <1>8, <1>9 DEF ThreadStep

LEMMA AnswerNames == {"none", "204", "409", "401", "413", "4xx"} \subseteq Answers
  BY DEF Answers

LEMMA DegradeValues ==
  ASSUME NEW a, NEW d, NEW r \in Degrade(a, d) PROVE r \in Degraded
  BY DEF Degrade, Degraded

LEMMA ArmType ==
  ASSUME TypeOK, NEW l \in Lease, Arm(l)
  PROVE  TypeOK'
<1> USE WorkerAssumption DEF TypeOK, hostVars, threadVars
<1>1. CASE /\ entry # None /\ entry.lease # l
           /\ lost' = [lost EXCEPT ![l].task = TRUE]
           /\ Goto(l, "bulk")
           /\ UNCHANGED entry
  <2>1. task' \in [Lease -> Task]
    BY <1>1, TaskStage, StageNames DEF Goto
  <2>2. lost' \in [Lease -> [exec : BOOLEAN, task : BOOLEAN]]
    BY <1>1
  <2> QED BY <1>1, <2>1, <2>2 DEF Arm
<1>2. CASE /\ entry # None => entry.lease = l
           /\ lost' = [lost EXCEPT ![l].task = @ \/ (Mine(l) /\ Condemned(entry))]
           /\ entry' = [lease |-> l, era |-> "task", quiesced |-> FALSE]
           /\ task' = [task EXCEPT ![l].stage = "bulk", ![l].rebound = Mine(l)]
  <2>1. Mine(l) \in BOOLEAN
    BY DEF Mine
  <2>2. task' \in [Lease -> Task]
    BY <1>2, <2>1, TaskArmed, StageNames
  <2>3. lost' \in [Lease -> [exec : BOOLEAN, task : BOOLEAN]]
    <3> DEFINE b == lost[l].task \/ (Mine(l) /\ Condemned(entry))
    <3>1. b \in BOOLEAN
      OBVIOUS
    <3>2. lost' = [lost EXCEPT ![l].task = b]
      BY <1>2
    <3> HIDE DEF b
    <3> QED BY <3>1, <3>2
  <2>4. entry' \in Opt(Entry)
    BY <1>2 DEF Opt, Entry
  <2> QED BY <1>2, <2>2, <2>3, <2>4 DEF Arm
<1> QED
  BY <1>1, <1>2 DEF Arm

LEMMA QuiescedType ==
  ASSUME TypeOK, NEW l \in Lease, NEW q \in BOOLEAN, SetQuiesced(l, q)
  PROVE  entry' \in Opt(Entry)
  BY DEF TypeOK, SetQuiesced, Mine, Opt, Entry

LEMMA TaskType ==
  ASSUME TypeOK, HandoffCounts, NEW l \in Lease, TaskStep(l)
  PROVE  TypeOK'
<1> USE WorkerAssumption DEF TypeOK, hostVars, threadVars, queueVars, beatVars
<1>1. CASE Arm(l)
  BY <1>1, ArmType
<1>2. CASE BulkDone(l) \/ BulkLost(l) \/ BulkCrash(l) \/ Send(l) \/ ReceiveFinal(l) \/ ReportCrash(l)
  <2>1. task' \in [Lease -> Task]
    BY <1>2, TaskStage, StageNames DEF BulkDone, BulkLost, BulkCrash, Send, ReceiveFinal, ReportCrash, Goto
  <2> QED BY <1>2, <2>1 DEF BulkDone, BulkLost, BulkCrash, Send, ReceiveFinal, ReportCrash
<1>3. CASE ReportLost(l)
  <2>1. task' = [task EXCEPT ![l].stage = "dropping", ![l].answer = "none"]
    BY <1>3 DEF ReportLost
  <2>2. task' \in [Lease -> Task]
    BY <2>1, TaskStageAnswer, StageNames, AnswerNames
  <2> QED BY <1>3, <2>2 DEF ReportLost
<1>4. CASE StartReport(l) \/ RetryReport(l)
  <2>1. task' = [task EXCEPT ![l].stage = "loop"] /\ SetQuiesced(l, TRUE)
    BY <1>4 DEF StartReport, RetryReport, Goto
  <2>2. task' \in [Lease -> Task]
    BY <2>1, TaskStage, StageNames
  <2>3. entry' \in Opt(Entry)
    BY <2>1, QuiescedType
  <2> QED BY <1>4, <2>2, <2>3 DEF StartReport, RetryReport
<1>5. CASE TransportFails(l)
  <2>1. task' = [task EXCEPT ![l].stage = "backoff", ![l].answer = "none"]
    BY <1>5 DEF TransportFails
  <2>2. task' \in [Lease -> Task]
    BY <2>1, TaskStageAnswer, StageNames, AnswerNames
  <2>3. entry' \in Opt(Entry)
    BY <1>5, QuiescedType DEF TransportFails
  <2> QED BY <1>5, <2>2, <2>3 DEF TransportFails
<1>6. CASE ReceiveRejection(l)
  <2>1. CASE Goto(l, "dropping") /\ UNCHANGED entry
    <3>1. task' \in [Lease -> Task]
      BY <2>1, TaskStage, StageNames DEF Goto
    <3> QED BY <1>6, <2>1, <3>1 DEF ReceiveRejection
  <2>2. CASE /\ \E d \in Degrade(task[l].answer, task[l].degraded) :
                   task' = [task EXCEPT ![l].stage = "rewriting", ![l].answer = "none",
                                        ![l].degraded = d]
             /\ SetQuiesced(l, FALSE)
    <3>1. PICK d \in Degrade(task[l].answer, task[l].degraded) :
                   task' = [task EXCEPT ![l].stage = "rewriting", ![l].answer = "none",
                                        ![l].degraded = d]
      BY <2>2
    <3>2. d \in Degraded
      BY DegradeValues
    <3>3. task' \in [Lease -> Task]
      BY <3>1, <3>2, TaskRewritten, StageNames, AnswerNames
    <3>4. entry' \in Opt(Entry)
      BY <2>2, QuiescedType
    <3> QED BY <1>6, <3>3, <3>4 DEF ReceiveRejection
  <2> QED BY <1>6, <2>1, <2>2 DEF ReceiveRejection
<1>7. CASE Drop(l)
  <2>1. task' \in [Lease -> Task]
    BY <1>7, TaskStage, StageNames DEF Drop, Goto
  <2>2. dir' \in Dir
    BY <1>7 DEF Drop, Dropped, Dir, NoDir, Opt
  <2> QED BY <1>7, <2>1, <2>2 DEF Drop
<1>8. CASE Finalize(l)
  <2>1. task' \in [Lease -> Task]
    BY <1>8, TaskValues DEF Finalize
  <2>2. depth' \in Nat
    BY <1>8 DEF Finalize, HandoffCounts, Live, At
  <2> QED BY <1>8, <2>1, <2>2 DEF Finalize, Prune, Opt
<1> QED
  BY <1>1, <1>2, <1>3, <1>4, <1>5, <1>6, <1>7, <1>8 DEF TaskStep

LEMMA CondemnType ==
  ASSUME lost \in [Lease -> [exec : BOOLEAN, task : BOOLEAN]], NEW l \in Lease, NEW era
  PROVE  Condemn(l, era) \in [Lease -> [exec : BOOLEAN, task : BOOLEAN]]
  BY DEF Condemn

LEMMA FreeSlotsBound == ASSUME others \in 0..Lanes, FreeSlots > 0 PROVE others < Lanes
  BY WorkerAssumption DEF FreeSlots

LEMMA WorldType ==
  ASSUME TypeOK, HostStep \/ BeatStep \/ Crash \/ OtherStarts \/ OtherEnds \/ UNCHANGED vars
  PROVE  TypeOK'
<1> USE WorkerAssumption DEF TypeOK, hostVars, threadVars, queueVars, beatVars
<1>1. CASE \E l \in Lease, arrives \in BOOLEAN : Claim(l, arrives)
  BY <1>1 DEF Claim, PC
<1>2. CASE CloseElsewhere \/ \E l \in Lease : Expire(l)
  BY <1>2 DEF Expire, CloseElsewhere
<1>3. CASE \E l \in Lease : HandleReport(l)
  <2>1. PICK l \in Lease : HandleReport(l)
    BY <1>3
  <2>2. task' \in [Lease -> Task]
    <3>1. PICK a \in Answers : task' = IF At(l, "sent") THEN [task EXCEPT ![l].answer = a] ELSE task
      BY <2>1, AnswerNames DEF HandleReport
    <3> QED BY <3>1, TaskAnswer
  <2> QED BY <2>1, <2>2 DEF HandleReport
<1>4. CASE Snapshot
  <2>1. beat' \in Opt(Beat)
    BY <1>4 DEF Snapshot, Beat, Entry, Verdicts, Opt
  <2> QED BY <1>4, <2>1 DEF Snapshot
<1>5. CASE HandleBeat
  <2>1. beat' \in Opt(Beat)
    BY <1>5 DEF HandleBeat, Beat, Verdicts, Opt
  <2> QED BY <1>5, <2>1 DEF HandleBeat
<1>6. CASE BeatFails \/ ZombieStop
  BY <1>6 DEF BeatFails, ZombieStop, Opt
<1>7. CASE BeatReply
  <2>1. lost' \in [Lease -> [exec : BOOLEAN, task : BOOLEAN]]
    <3>1. beat.lease \in Lease
      BY <1>7 DEF BeatReply, Beat, Opt
    <3> QED BY <1>7, <3>1, CondemnType DEF BeatReply
  <2> QED BY <1>7, <2>1 DEF BeatReply, Opt
<1>8. CASE RelayReply
  <2>1. lost' \in [Lease -> [exec : BOOLEAN, task : BOOLEAN]]
    <3>1. entry # None => entry.lease \in Lease
      BY DEF Entry, Opt
    <3> QED BY <1>8, <3>1, CondemnType DEF RelayReply, Mine
  <2> QED BY <1>8, <2>1 DEF RelayReply, Opt
<1>9. CASE Crash
  <2>1. task' \in [Lease -> Task]
    BY <1>9, TaskValues DEF Crash
  <2>2. pc' \in [Lease -> PC]
    BY <1>9 DEF Crash, PC
  <2>5. others' \in 0..Lanes
    BY <1>9 DEF Crash
  <2>3. dir' \in Dir /\ active' \in Opt(Lease)
    BY <1>9 DEF Crash, Dir, NoDir, Opt
  <2>4. lost' \in [Lease -> [exec : BOOLEAN, task : BOOLEAN]]
    BY <1>9 DEF Crash
  <2> QED BY <1>9, <2>1, <2>2, <2>3, <2>4, <2>5 DEF Crash, Opt
<1>10. CASE UNCHANGED vars
  BY <1>10 DEF vars
<1>11. CASE OtherStarts \/ OtherEnds
  <2>1. others' \in 0..Lanes
    BY <1>11, FreeSlotsBound DEF OtherStarts, OtherEnds
  <2> QED BY <1>11, <2>1 DEF OtherStarts, OtherEnds
<1> QED
  BY <1>1, <1>2, <1>3, <1>4, <1>5, <1>6, <1>7, <1>8, <1>9, <1>10, <1>11 DEF HostStep, BeatStep

----------------------------------------------------------------------------
\* The lanes are shared with deliveries that touch nothing else of this
\* execution: what others do there is, to all the rest, no step.
Unmoved == UNCHANGED <<hostVars, threadVars, dir, beatVars, queueVars, crashes>>

LEMMA LanesApart == ASSUME OtherStarts \/ OtherEnds \/ UNCHANGED vars PROVE Unmoved
  BY DEF OtherStarts, OtherEnds, vars, Unmoved

----------------------------------------------------------------------------
(***************************************************************************)
(* The invariant.  An attempt is inside the directory from the barrier to  *)
(* its end, and holds the mutex for all of that time.  The barrier is kept *)
(* because the slot of the handoff can only be filled by who holds the     *)
(* mutex: while an attempt waits, the slot holds the delivery it waits for *)
(* or nothing; once inside, it is empty.                                   *)
(***************************************************************************)
Inside == {"prepare", "running", "exited", "submit", "discard"}
Owning == {"running", "exited", "submit"}

\* The mutex is held from the registration to the end of the thread.
MutexHeld == \A l \in Lease : pc[l] \in {"fence", "waiting"} \cup Inside <=> mutex = l

BarrierKept ==
  \A l \in Lease :
    /\ pc[l] = "waiting" => active \in {None, prior}
    /\ pc[l] \in Inside => active = None

\* What is in the directory while somebody uses it.
DirOwned ==
  \A l \in Lease :
    /\ pc[l] \in Owning => dir = [owner |-> l, marker |-> None]
    /\ Live(l) /\ ~At(l, "finalize") => dir.marker = l

\* A thread exists only for a lease that was granted.
GrantedFirst == \A l \in Lease : host[l] = "unclaimed" => pc[l] = "none"

Handover == MutexHeld /\ HandoffCounts /\ BarrierKept /\ DirOwned
DeliveryInv == TypeOK /\ GrantedFirst /\ Handover

LEMMA InvImpliesExclusive ==
  ASSUME DeliveryInv
  PROVE  DirectoryIsExclusive
<1> USE WorkerAssumption DEF DeliveryInv, Handover
<1>1. \A k, l \in Lease : Uses(k) /\ Uses(l) => k = l
  BY DEF MutexHeld, HandoffCounts, BarrierKept, Uses, Inside
<1> QED BY <1>1 DEF DirectoryIsExclusive, DirOwned, Owning

\* Kinds of step.  Quiet: no thread, slot or marker moves, no task changes stage.
Quiet ==
  /\ UNCHANGED <<threadVars, dir, active, depth>>
  /\ \A k \in Lease : task'[k].stage = task[k].stage

LEMMA QuietKeeps == ASSUME DeliveryInv, Quiet PROVE Handover'
  BY DEF DeliveryInv, Handover, Quiet, threadVars, MutexHeld, HandoffCounts, BarrierKept, DirOwned,
         Live, At

\* A delivery moves on, and is neither begun nor ended by it.
Moved(l) ==
  /\ UNCHANGED <<threadVars, dir, active, depth>>
  /\ task[l].stage \notin {"none", "done", "finalize"}
  /\ task'[l].stage \notin {"none", "done"}
  /\ \A k \in Lease \ {l} : task'[k].stage = task[k].stage

LEMMA MovedKeeps ==
  ASSUME DeliveryInv, NEW l \in Lease, Moved(l)
  PROVE  Handover'
<1> USE DEF DeliveryInv, Handover, Moved, threadVars
<1>1. \A k \in Lease : Live(k)' <=> Live(k)
  BY DEF Live
<1>2. MutexHeld' /\ BarrierKept'
  BY DEF MutexHeld, BarrierKept
<1>3. HandoffCounts'
  BY <1>1 DEF HandoffCounts
<1>4. DirOwned'
  <2>1. dir.marker = l
    BY DEF DirOwned, Live, At
  <2>2. \A k \in Lease \ {l} : At(k, "finalize")' <=> At(k, "finalize")
    BY DEF At
  <2> QED BY <1>1, <2>1, <2>2 DEF DirOwned
<1> QED BY <1>2, <1>3, <1>4

LEMMA SteppedCounts ==
  ASSUME HandoffCounts, UNCHANGED queueVars
  PROVE  /\ HandoffCounts'
         /\ \A k \in Lease : (Live(k)' <=> Live(k)) /\ (At(k, "finalize")' <=> At(k, "finalize"))
  BY DEF HandoffCounts, Live, At, queueVars

LEMMA OutsideKeeps ==
  ASSUME DeliveryInv, NEW l \in Lease, Register(l) \/ GiveUpMutex(l) \/ FencePrior(l)
  PROVE  Handover'
<1> USE WorkerAssumption DEF DeliveryInv, Handover
<1>1. pc \in [Lease -> PC] /\ UNCHANGED queueVars /\ UNCHANGED dir
  BY DEF Register, GiveUpMutex, FencePrior, TypeOK
<1>2. /\ HandoffCounts'
      /\ \A k \in Lease : (Live(k)' <=> Live(k)) /\ (At(k, "finalize")' <=> At(k, "finalize"))
  BY <1>1, SteppedCounts
<1>3. MutexHeld'
  BY <1>1 DEF Register, GiveUpMutex, FencePrior, MutexHeld, Inside
<1>4. BarrierKept'
  BY <1>1 DEF Register, GiveUpMutex, FencePrior, BarrierKept, MutexHeld, Inside, queueVars
<1>5. DirOwned'
  BY <1>1, <1>2 DEF Register, GiveUpMutex, FencePrior, DirOwned, Owning
<1> QED BY <1>2, <1>3, <1>4, <1>5

LEMMA InsideKeeps ==
  ASSUME DeliveryInv, NEW l \in Lease,
         PassBarrier(l) \/ Prepare(l) \/ Exit(l) \/ ExitLost(l) \/ ReleaseRefused(l) \/ ReleaseSlot(l)
  PROVE  Handover'
<1> USE WorkerAssumption DEF DeliveryInv, Handover
<1>1. pc \in [Lease -> PC] /\ UNCHANGED queueVars /\ UNCHANGED mutex /\ mutex = l
  BY DEF PassBarrier, Prepare, Exit, ExitLost, ReleaseRefused, ReleaseSlot, TypeOK, MutexHeld, Inside
<1>2. /\ HandoffCounts'
      /\ \A k \in Lease : (Live(k)' <=> Live(k)) /\ (At(k, "finalize")' <=> At(k, "finalize"))
  BY <1>1, SteppedCounts
<1>3. PICK to \in Inside : pc' = [pc EXCEPT ![l] = to]
  BY DEF PassBarrier, Prepare, Exit, ExitLost, ReleaseRefused, ReleaseSlot, Inside
<1>4. MutexHeld'
  BY <1>1, <1>3 DEF MutexHeld
<1>5. active = None
  BY DEF PassBarrier, Prepare, Exit, ExitLost, ReleaseRefused, ReleaseSlot, BarrierKept,
         HandoffCounts, Inside, TypeOK, Opt
<1>6. \A k \in Lease : ~Live(k)
  BY <1>5 DEF HandoffCounts
<1>7. \A k \in Lease : pc'[k] \in {"waiting"} \cup Inside => k = l
  BY <1>1, <1>4 DEF MutexHeld
<1>8. BarrierKept'
  BY <1>1, <1>5 DEF BarrierKept, queueVars
<1>9. DirOwned'
  <2>1. pc'[l] \in Owning => dir' = [owner |-> l, marker |-> None]
    BY <1>1, <1>3 DEF PassBarrier, Prepare, Exit, ExitLost, ReleaseRefused, ReleaseSlot, DirOwned, Owning
  <2> QED BY <1>2, <1>6, <1>7, <2>1 DEF DirOwned, Owning, Inside
<1> QED BY <1>2, <1>4, <1>8, <1>9

LEMMA LeaveKeeps ==
  ASSUME DeliveryInv, NEW l \in Lease, AbandonWait(l) \/ SubmitFails(l) \/ Discard(l)
  PROVE  Handover'
<1> USE WorkerAssumption DEF DeliveryInv, Handover
<1>1. /\ pc \in [Lease -> PC] /\ UNCHANGED queueVars /\ mutex = l /\ mutex' = None
      /\ pc' = [pc EXCEPT ![l] = "over"]
  BY DEF AbandonWait, SubmitFails, Discard, TypeOK, MutexHeld, Inside
<1>2. /\ HandoffCounts'
      /\ \A k \in Lease : (Live(k)' <=> Live(k)) /\ (At(k, "finalize")' <=> At(k, "finalize"))
  BY <1>1, SteppedCounts
<1>3. \A k \in Lease : pc'[k] \notin {"fence", "waiting"} \cup Inside
  BY <1>1 DEF MutexHeld, Inside
<1>4. MutexHeld' /\ BarrierKept'
  BY <1>1, <1>3 DEF MutexHeld, BarrierKept
<1>5. DirOwned'
  <2>1. CASE AbandonWait(l)
    BY <1>2, <1>3, <2>1 DEF AbandonWait, DirOwned, Owning, Inside
  <2>2. CASE SubmitFails(l) \/ Discard(l)
    <3>1. \A k \in Lease : ~Live(k)
      BY <2>2 DEF SubmitFails, Discard, BarrierKept, HandoffCounts, Inside
    <3> QED BY <1>2, <1>3, <3>1 DEF DirOwned, Owning, Inside
  <2> QED BY <2>1, <2>2
<1> QED BY <1>2, <1>4, <1>5

LEMMA SubmitKeeps ==
  ASSUME DeliveryInv, NEW l \in Lease, Submit(l)
  PROVE  Handover'
<1> USE WorkerAssumption DEF DeliveryInv, Handover
<1>1. /\ pc \in [Lease -> PC] /\ mutex = l /\ mutex' = None
      /\ pc' = [pc EXCEPT ![l] = "over"]
  BY DEF Submit, TypeOK, MutexHeld, Inside
<1>2. \A k \in Lease : pc'[k] \notin {"fence", "waiting"} \cup Inside
  BY <1>1 DEF MutexHeld, Inside
<1>3. MutexHeld' /\ BarrierKept'
  BY <1>1, <1>2 DEF MutexHeld, BarrierKept
<1>4. \A k \in Lease : Live(k)' <=> k = l
  <2>1. \A k \in Lease : ~Live(k)
    BY DEF Submit, HandoffCounts
  <2> QED BY <2>1 DEF Submit, Live, NewTask, NoTask, TypeOK
<1>5. HandoffCounts'
  BY <1>4 DEF Submit, HandoffCounts
<1>6. DirOwned'
  BY <1>2, <1>4 DEF Submit, DirOwned, Owning, Inside, TypeOK, Dir
<1> QED BY <1>3, <1>5, <1>6

\* The thread's steps: before the barrier, inside, and out.
LEMMA ThreadKeeps ==
  ASSUME DeliveryInv, NEW l \in Lease, ThreadStep(l)
  PROVE  Handover'
  BY OutsideKeeps, InsideKeeps, LeaveKeeps, SubmitKeeps DEF ThreadStep

----------------------------------------------------------------------------
LEMMA RestagedTask ==
  ASSUME task \in [Lease -> Task], NEW l \in Lease,
         Arm(l) \/ ReportLost(l) \/ TransportFails(l) \/ ReceiveRejection(l)
  PROVE  /\ task'[l].stage \in {"bulk", "dropping", "backoff", "rewriting"}
         /\ \A k \in Lease \ {l} : task'[k] = task[k]
<1>1. CASE Arm(l)
  BY <1>1 DEF Arm, Goto, Task
<1>2. CASE ReportLost(l) \/ TransportFails(l)
  <2>1. PICK s \in {"dropping", "backoff"} :
               task' = [task EXCEPT ![l].stage = s, ![l].answer = "none"]
    BY <1>2 DEF ReportLost, TransportFails
  <2> QED BY <2>1 DEF Task
<1>3. CASE ReceiveRejection(l)
  <2>1. CASE Goto(l, "dropping")
    BY <2>1 DEF Goto, Task
  <2>2. CASE \E d \in Degrade(task[l].answer, task[l].degraded) :
               task' = [task EXCEPT ![l].stage = "rewriting", ![l].answer = "none",
                                    ![l].degraded = d]
    <3>1. PICK d : task' = [task EXCEPT ![l].stage = "rewriting", ![l].answer = "none",
                                        ![l].degraded = d]
      BY <2>2
    <3> QED BY <3>1 DEF Task
  <2> QED BY <1>3, <2>1, <2>2 DEF ReceiveRejection
<1> QED BY <1>1, <1>2, <1>3

LEMMA TaskKeeps ==
  ASSUME DeliveryInv, NEW l \in Lease, TaskStep(l)
  PROVE  Handover'
<1> USE WorkerAssumption DEF DeliveryInv, Handover
<1>1. task \in [Lease -> Task]
  BY DEF TypeOK
<1>2. CASE BulkDone(l) \/ BulkLost(l) \/ BulkCrash(l) \/ StartReport(l) \/ Send(l) \/ RetryReport(l)
           \/ ReceiveFinal(l) \/ ReportCrash(l)
  <2>1. /\ task[l].stage \notin {"none", "done", "finalize"}
        /\ UNCHANGED <<threadVars, dir, active, depth>>
    BY <1>2 DEF BulkDone, BulkLost, BulkCrash, StartReport, Send, RetryReport, ReceiveFinal,
                ReportCrash, At
  <2>2. PICK s \in {"ready", "dropping", "finalize", "loop", "sent"} :
               task' = [task EXCEPT ![l].stage = s]
    BY <1>2 DEF BulkDone, BulkLost, BulkCrash, StartReport, Send, RetryReport, ReceiveFinal,
                ReportCrash, Goto
  <2>3. Moved(l)
    BY <1>1, <2>1, <2>2 DEF Moved, Task
  <2> QED BY <2>3, MovedKeeps
<1>3. CASE Arm(l) \/ ReportLost(l) \/ TransportFails(l) \/ ReceiveRejection(l)
  <2>1. /\ task[l].stage \notin {"none", "done", "finalize"}
        /\ UNCHANGED <<threadVars, dir, active, depth>>
    BY <1>3 DEF Arm, ReportLost, TransportFails, ReceiveRejection, At
  <2>2. /\ task'[l].stage \in {"bulk", "dropping", "backoff", "rewriting"}
        /\ \A k \in Lease \ {l} : task'[k] = task[k]
    BY <1>1, <1>3, RestagedTask
  <2>3. Moved(l)
    BY <2>1, <2>2 DEF Moved
  <2> QED BY <2>3, MovedKeeps
<1>4. CASE Drop(l)
  <2>1. active = l /\ Live(l)
    BY <1>4 DEF Drop, At, Live, HandoffCounts
  <2>2. \A k \in Lease : pc[k] \notin Inside
    BY <2>1 DEF BarrierKept
  <2>3. task'[l].stage = "finalize" /\ \A k \in Lease \ {l} : task'[k] = task[k]
    BY <1>1, <1>4 DEF Drop, Goto, Task
  <2>4. \A k \in Lease : Live(k)' <=> Live(k)
    BY <2>1, <2>3 DEF Live
  <2>5. HandoffCounts' /\ MutexHeld' /\ BarrierKept'
    BY <1>4, <2>4 DEF Drop, HandoffCounts, MutexHeld, BarrierKept, threadVars
  <2>6. DirOwned'
    BY <1>4, <2>1, <2>2, <2>3, <2>4 DEF Drop, DirOwned, HandoffCounts, At, Inside, Owning, threadVars
  <2> QED BY <2>5, <2>6
<1>5. CASE Finalize(l)
  <2>1. active = l /\ Live(l) /\ active' = None /\ depth' = 0
    BY <1>5 DEF Finalize, At, Live, HandoffCounts
  <2>2. \A k \in Lease : ~Live(k)'
    BY <1>1, <1>5, <2>1 DEF Finalize, Live, HandoffCounts, DoneTask, NoTask
  <2>3. HandoffCounts' /\ MutexHeld' /\ BarrierKept'
    BY <1>5, <2>1, <2>2 DEF Finalize, HandoffCounts, MutexHeld, BarrierKept, threadVars
  <2>4. DirOwned'
    BY <1>5, <2>2 DEF Finalize, DirOwned, threadVars
  <2> QED BY <2>3, <2>4
<1> QED
  BY <1>2, <1>3, <1>4, <1>5 DEF TaskStep

LEMMA WorldKeeps ==
  ASSUME DeliveryInv, HostStep \/ BeatStep \/ Crash \/ Unmoved
  PROVE  Handover'
<1> USE WorkerAssumption DEF DeliveryInv, Handover
<1>1. CASE \E l \in Lease, arrives \in BOOLEAN : Claim(l, arrives)
  <2>1. PICK l \in Lease, arrives \in BOOLEAN : Claim(l, arrives)
    BY <1>1
  <2>2. pc \in [Lease -> PC] /\ UNCHANGED <<mutex, prior, dir, queueVars>>
    BY <2>1 DEF Claim, TypeOK
  <2>3. pc[l] = "none" /\ \E to \in {"mutex", "over"} : pc' = [pc EXCEPT ![l] = to]
    BY <2>1 DEF Claim, GrantedFirst
  <2>4. HandoffCounts' /\ \A k \in Lease : (Live(k)' <=> Live(k)) /\ (At(k, "finalize")' <=> At(k, "finalize"))
    BY <2>2, SteppedCounts
  <2>5. MutexHeld'
    BY <2>2, <2>3 DEF MutexHeld, Inside
  <2>6. BarrierKept'
    BY <2>2, <2>3 DEF BarrierKept, Inside, queueVars
  <2>7. DirOwned'
    BY <2>2, <2>3, <2>4 DEF DirOwned, Owning
  <2> QED BY <2>4, <2>5, <2>6, <2>7
<1>2. CASE \E l \in Lease : HandleReport(l)
  <2>1. PICK l \in Lease : HandleReport(l)
    BY <1>2
  <2>2. PICK a : task' = IF At(l, "sent") THEN [task EXCEPT ![l].answer = a] ELSE task
    BY <2>1 DEF HandleReport
  <2>3. \A k \in Lease : task'[k].stage = task[k].stage
    BY <2>2 DEF TypeOK, Task
  <2>4. Quiet
    BY <2>1, <2>3 DEF HandleReport, Quiet
  <2> QED BY <2>4, QuietKeeps
<1>3. CASE CloseElsewhere \/ (\E l \in Lease : Expire(l)) \/ BeatStep \/ Unmoved
  <2>1. Quiet
    BY <1>3 DEF CloseElsewhere, Expire, BeatStep, Snapshot, ZombieStop, HandleBeat, BeatReply,
                RelayReply, BeatFails, Unmoved, queueVars, threadVars, Quiet
  <2> QED BY <2>1, QuietKeeps
<1>4. CASE Crash
  <2>1. \A k \in Lease : pc'[k] \in {"none", "over"}
    BY <1>4 DEF Crash
  <2>2. \A k \in Lease : Live(k)' <=> k = dir.marker
    BY <1>4 DEF Crash, Live, NewTask, DoneTask, NoTask
  <2>3. HandoffCounts'
    BY <1>4, <2>2 DEF Crash, HandoffCounts
  <2>4. MutexHeld' /\ BarrierKept'
    BY <1>4, <2>1 DEF Crash, MutexHeld, BarrierKept, Inside
  <2>5. DirOwned'
    BY <1>4, <2>1, <2>2 DEF Crash, DirOwned, Owning
  <2> QED BY <2>3, <2>4, <2>5
<1> QED
  BY <1>1, <1>2, <1>3, <1>4 DEF HostStep

LEMMA GrantedFirstKept ==
  ASSUME TypeOK, GrantedFirst, [Next]_vars
  PROVE  GrantedFirst'
<1> USE DEF GrantedFirst, hostVars, threadVars
<1>1. CASE \E l \in Lease : ThreadStep(l)
  <2>1. PICK l \in Lease : ThreadStep(l)
    BY <1>1
  <2>2. UNCHANGED host /\ pc[l] # "none" /\ \A k \in Lease \ {l} : pc'[k] = pc[k]
    BY <2>1 DEF ThreadStep, Register, GiveUpMutex, FencePrior, PassBarrier, AbandonWait, Prepare, Exit,
                ExitLost, ReleaseRefused, ReleaseSlot, Submit, SubmitFails, Discard, TypeOK
  <2> QED BY <2>2
<1>2. CASE \E l \in Lease : TaskStep(l)
  <2>1. UNCHANGED <<host, pc>>
    BY <1>2 DEF TaskStep, Arm, BulkDone, BulkLost, BulkCrash, StartReport, Send, ReportLost,
                TransportFails, RetryReport, ReceiveFinal, ReceiveRejection, Drop, ReportCrash, Finalize
  <2> QED BY <2>1
<1>3. CASE \E l \in Lease, arrives \in BOOLEAN : Claim(l, arrives)
  BY <1>3 DEF Claim, TypeOK
<1>4. CASE CloseElsewhere \/ (\E l \in Lease : Expire(l)) \/ (\E l \in Lease : HandleReport(l))
  BY <1>4 DEF CloseElsewhere, Expire, HandleReport, TypeOK
<1>5. CASE BeatStep \/ Unmoved
  BY <1>5 DEF BeatStep, Snapshot, ZombieStop, HandleBeat, BeatReply, RelayReply, BeatFails, Unmoved
<1>6. CASE Crash
  BY <1>6 DEF Crash
<1> QED
  BY <1>1, <1>2, <1>3, <1>4, <1>5, <1>6, LanesApart DEF Next, HostStep

LEMMA InitDelivery == ASSUME Init PROVE DeliveryInv
<1> USE WorkerAssumption
<1>1. TypeOK
  <2>1. task \in [Lease -> Task]
    BY TaskValues DEF Init
  <2>2. lost \in [Lease -> [exec : BOOLEAN, task : BOOLEAN]]
    BY DEF Init
  <2>3. dir \in Dir /\ pc \in [Lease -> PC]
    BY DEF Init, Dir, NoDir, PC, Opt
  <2>4. host \in [Lease -> {"unclaimed", "active", "dead", "committed"}]
    BY DEF Init
  <2>5. closed \in BOOLEAN /\ flying \subseteq Lease
    BY DEF Init
  <2>6. depth \in Nat /\ others \in 0..Lanes /\ crashes \in 0..MaxCrash
    <3>1. depth = 0 /\ others = 0 /\ crashes = 0
      BY DEF Init
    <3> QED BY <3>1
  <2>7. /\ mutex \in Opt(Lease) /\ prior \in Opt(Lease) /\ active \in Opt(Lease)
        /\ entry \in Opt(Entry) /\ beat \in Opt(Beat)
    BY DEF Init, Opt
  <2> QED BY <2>1, <2>2, <2>3, <2>4, <2>5, <2>6, <2>7 DEF TypeOK
<1>2. \A l \in Lease : ~Live(l)
  BY DEF Init, Live, NoTask
<1> QED
  BY <1>1, <1>2 DEF DeliveryInv, GrantedFirst, Handover, MutexHeld, HandoffCounts, BarrierKept,
                    DirOwned, Inside, Owning, Init

LEMMA NextDelivery == ASSUME DeliveryInv, [Next]_vars PROVE DeliveryInv'
<1>1. TypeOK /\ HandoffCounts /\ GrantedFirst
  BY DEF DeliveryInv, Handover
<1>2. TypeOK'
  BY <1>1, ThreadType, TaskType, WorldType DEF Next
<1>3. Handover'
  BY ThreadKeeps, TaskKeeps, WorldKeeps, LanesApart DEF Next
<1>4. GrantedFirst'
  BY <1>1, GrantedFirstKept
<1> QED BY <1>2, <1>3, <1>4 DEF DeliveryInv

\* The inductive invariant: mutex, slot, barrier and markers agree in every
\* state a Worker reaches.
THEOREM DeliveryInvariant == Spec => []DeliveryInv
  BY InitDelivery, NextDelivery, PTL DEF Spec

\* Every value a Worker, its directory and its Host reach has its type, for
\* every set of leases.
THEOREM DeliveryTypeCorrect == Spec => []TypeOK
<1>1. DeliveryInv => TypeOK
  BY DEF DeliveryInv
<1> QED BY <1>1, DeliveryInvariant, PTL

\* The depth that throttles claims counts the one unfinished delivery, and the
\* slot names it, through failed submits, restarts and any number of attempts.
THEOREM HandoffCountsHolds == Spec => []HandoffCounts
<1>1. DeliveryInv => HandoffCounts
  BY DEF DeliveryInv, Handover
<1> QED BY <1>1, DeliveryInvariant, PTL

\* run_execution, upload handoff: however many attempts of an execution
\* overlap, one at a time uses its directory and finds it its own.
THEOREM DirectoryIsExclusiveHolds == Spec => []DirectoryIsExclusive
<1>1. DeliveryInv => DirectoryIsExclusive
  BY InvImpliesExclusive
<1> QED BY <1>1, DeliveryInvariant, PTL

-----------------------------------------------------------------------------
(***************************************************************************)
(* What a Worker may do to a lease the Host still honours: it is not       *)
(* condemned, it is beaten while its attempt works, and its result is      *)
(* kept.                                                                   *)
(***************************************************************************)

----------------------------------------------------------------------------
(***************************************************************************)
(* Who may be condemned.  An ownership_lost event is set for a lease the   *)
(* Host has given up, and that is for good.  The places that set one       *)
(* judge by what they see on the Worker: a newer entry, an older slot, a   *)
(* verdict.  They are right because whoever registered last was honoured   *)
(* when it did, and the Host honours one lease at a time.                  *)
(***************************************************************************)
Over(l) == host[l] \in {"dead", "committed"}

OneHonoured == \A k, l \in Lease : host[k] = "active" /\ host[l] = "active" => k = l
WaitsHonoured == \A l \in Lease : pc[l] = "mutex" => host[l] = "active"

\* What a delivery leaves behind comes after the end of its thread.
AfterThread ==
  \A l \in Lease : task[l] # NoTask \/ l \in flying \/ dir.marker = l => pc[l] = "over"

\* The entry of the registry belongs to the thread at work or to the delivery.
EntryOwned == entry # None => mutex = entry.lease \/ Live(entry.lease)

\* A delivery, or a marker, of an honoured lease is the newest there is.
HonouredIsLatest ==
  \A l \in Lease : host[l] = "active" =>
    /\ dir.marker = l \/ Live(l) => mutex \in {None, l}
    /\ Live(l) => entry = None \/ entry.lease = l

\* A verdict on its way is true, and stays so.
VerdictsTrue ==
  beat # None => /\ host[beat.lease] # "unclaimed"
                 /\ beat.verdict = "lost" => Over(beat.lease)
                 /\ beat.verdict = "settled" => closed

LostIsOver == \A l \in Lease : lost[l].exec \/ lost[l].task => Over(l)

Honour == /\ OneHonoured /\ WaitsHonoured /\ AfterThread /\ EntryOwned /\ HonouredIsLatest
          /\ VerdictsTrue /\ LostIsOver
HonourInv == DeliveryInv /\ Honour

LEMMA CondemnOne ==
  ASSUME lost \in [Lease -> [exec : BOOLEAN, task : BOOLEAN]], NEW l \in Lease, NEW era,
         NEW k \in Lease, k # l
  PROVE  Condemn(l, era)[k] = lost[k]
  BY DEF Condemn

LEMMA EntryTyped == ASSUME TypeOK, entry # None PROVE entry.lease \in Lease
  BY DEF TypeOK, Opt, Entry

\* The entry's lease has been granted, and is not waiting for the mutex.
LEMMA EntryStarted ==
  ASSUME HonourInv, entry # None
  PROVE  pc[entry.lease] \notin {"none", "mutex"} /\ host[entry.lease] # "unclaimed"
<1>1. entry.lease \in Lease
  BY EntryTyped DEF HonourInv, DeliveryInv
<1>2. pc[entry.lease] \notin {"none", "mutex"}
  BY <1>1 DEF HonourInv, DeliveryInv, Honour, Handover, EntryOwned, MutexHeld, AfterThread, Live, NoTask, Inside
<1> QED BY <1>1, <1>2 DEF HonourInv, DeliveryInv, GrantedFirst

\* What a step of a thread does to the rest.
LEMMA ThreadFrame ==
  ASSUME HonourInv, NEW l \in Lease, ThreadStep(l)
  PROVE  /\ UNCHANGED hostVars /\ UNCHANGED beat
         /\ pc[l] \notin {"none", "over"} /\ pc'[l] \notin {"none", "mutex"}
         /\ \A k \in Lease \ {l} : pc'[k] = pc[k] /\ task'[k] = task[k] /\ (dir'.marker = k => dir.marker = k)
<1> USE DEF HonourInv, DeliveryInv, TypeOK, hostVars, threadVars, queueVars, beatVars
<1>1. CASE Register(l) \/ GiveUpMutex(l) \/ FencePrior(l) \/ PassBarrier(l) \/ AbandonWait(l)
  BY <1>1 DEF Register, GiveUpMutex, FencePrior, PassBarrier, AbandonWait
<1>2. CASE Prepare(l)
  BY <1>2, WorkerAssumption DEF Prepare
<1>3. CASE Exit(l) \/ ExitLost(l) \/ ReleaseRefused(l) \/ ReleaseSlot(l)
  BY <1>3 DEF Exit, ExitLost, ReleaseRefused, ReleaseSlot
<1>4. CASE Submit(l)
  BY <1>4 DEF Submit, Dir
<1>5. CASE SubmitFails(l)
  BY <1>5 DEF SubmitFails, Dir
<1>6. CASE Discard(l)
  BY <1>6, WorkerAssumption DEF Discard, NoDir
<1> QED BY <1>1, <1>2, <1>3, <1>4, <1>5, <1>6 DEF ThreadStep

LEMMA RegisterHonours ==
  ASSUME HonourInv, NEW l \in Lease, Register(l)
  PROVE  EntryOwned' /\ HonouredIsLatest' /\ LostIsOver'
<1> USE WorkerAssumption DEF HonourInv, DeliveryInv, Honour
<1>1. host[l] = "active" /\ UNCHANGED <<host, dir, task>> /\ mutex' = l
  BY DEF Register, WaitsHonoured, hostVars, queueVars
<1>2. entry' # None => entry'.lease = l
  BY DEF Register
<1>3. EntryOwned'
  BY <1>1, <1>2 DEF EntryOwned
<1>4. \A k \in Lease : host[k] = "active" => k = l
  BY <1>1 DEF OneHonoured
<1>5. HonouredIsLatest'
  BY <1>1, <1>2, <1>4 DEF HonouredIsLatest
<1>6. LostIsOver'
  <2>1. CASE entry = None
    BY <1>1, <2>1 DEF Register, LostIsOver, Over
  <2>2. CASE entry # None
    <3>1. entry.lease \in Lease /\ entry.lease # l /\ host[entry.lease] # "unclaimed"
      BY <2>2, EntryTyped, EntryStarted DEF Register
    <3>2. Over(entry.lease)
      BY <1>4, <3>1 DEF Over, TypeOK
    <3>3. lost' = Condemn(entry.lease, entry.era)
      BY <2>2 DEF Register
    <3>4. \A k \in Lease : k # entry.lease => lost'[k] = lost[k]
      BY <3>1, <3>3, CondemnOne DEF TypeOK
    <3>5. \A k \in Lease : lost'[k].exec \/ lost'[k].task => Over(k)
      BY <3>2, <3>4 DEF LostIsOver
    <3> QED BY <1>1, <3>5 DEF LostIsOver, Over
  <2> QED BY <2>1, <2>2
<1> QED BY <1>3, <1>5, <1>6

LEMMA FenceHonours ==
  ASSUME HonourInv, NEW l \in Lease, FencePrior(l)
  PROVE  EntryOwned' /\ HonouredIsLatest' /\ LostIsOver'
<1> USE WorkerAssumption DEF HonourInv, DeliveryInv, Honour
<1>1. UNCHANGED <<host, dir, task, entry, mutex>>
  BY DEF FencePrior, hostVars, queueVars
<1>2. EntryOwned' /\ HonouredIsLatest'
  BY <1>1 DEF EntryOwned, HonouredIsLatest, Live
<1>3. LostIsOver'
  <2>1. CASE active \in {None, l}
    BY <1>1, <2>1 DEF FencePrior, LostIsOver, Over
  <2>2. CASE active \notin {None, l}
    <3>1. active \in Lease /\ Live(active) /\ mutex = l
      BY <2>2 DEF FencePrior, TypeOK, Opt, Handover, HandoffCounts, MutexHeld
    <3>2. host[active] # "active"
      BY <2>2, <3>1 DEF HonouredIsLatest
    <3>3. pc[active] # "none"
      BY <3>1 DEF AfterThread, Live, NoTask
    <3>4. Over(active)
      BY <3>1, <3>2, <3>3 DEF Over, TypeOK, GrantedFirst
    <3>5. lost' = [lost EXCEPT ![active].task = TRUE]
      BY <2>2 DEF FencePrior
    <3>6. \A k \in Lease : k # active => lost'[k] = lost[k]
      BY <3>5 DEF TypeOK
    <3> QED BY <1>1, <3>4, <3>6 DEF LostIsOver, Over
  <2> QED BY <2>1, <2>2
<1> QED BY <1>2, <1>3

\* The other steps of a thread set no event.
LEMMA ThreadHonours ==
  ASSUME HonourInv, NEW l \in Lease, ThreadStep(l)
  PROVE  Honour'
<1> USE WorkerAssumption DEF HonourInv, DeliveryInv
<1>1. /\ UNCHANGED hostVars /\ UNCHANGED beat
      /\ pc[l] \notin {"none", "over"} /\ pc'[l] \notin {"none", "mutex"}
      /\ \A k \in Lease \ {l} : pc'[k] = pc[k] /\ task'[k] = task[k] /\ (dir'.marker = k => dir.marker = k)
  BY ThreadFrame
<1>2. OneHonoured' /\ WaitsHonoured'
  BY <1>1 DEF Honour, OneHonoured, WaitsHonoured, hostVars
<1>3. VerdictsTrue'
  BY <1>1 DEF Honour, VerdictsTrue, Over, hostVars
<1>4. AfterThread'
  <2>1. task[l] = NoTask /\ l \notin flying /\ dir.marker # l
    BY <1>1 DEF Honour, AfterThread
  <2>2. pc'[l] = "over" \/ (task'[l] = task[l] /\ dir'.marker # l)
    <3>1. CASE Prepare(l)
      BY <2>1, <3>1 DEF Prepare, queueVars
    <3>2. CASE ~Prepare(l)
      BY <2>1, <3>2 DEF ThreadStep, Register, GiveUpMutex, FencePrior, PassBarrier, AbandonWait, Exit,
                        ExitLost, ReleaseRefused, ReleaseSlot, Submit, SubmitFails, Discard, queueVars,
                        TypeOK
    <3> QED BY <3>1, <3>2
  <2> QED BY <1>1, <2>1, <2>2 DEF Honour, AfterThread, hostVars
<1>5. EntryOwned' /\ HonouredIsLatest' /\ LostIsOver'
  <2>1. CASE Register(l)
    BY <2>1, RegisterHonours
  <2>2. CASE FencePrior(l)
    BY <2>2, FenceHonours
  <2>3. CASE GiveUpMutex(l) \/ PassBarrier(l) \/ Exit(l) \/ ExitLost(l) \/ ReleaseRefused(l) \/ ReleaseSlot(l)
             \/ Prepare(l)
    <3>1. UNCHANGED <<host, task, entry, lost, mutex>>
      BY <2>3 DEF GiveUpMutex, PassBarrier, Exit, ExitLost, ReleaseRefused, ReleaseSlot, Prepare,
                  hostVars, queueVars, beatVars
    <3>2. \A k \in Lease : dir'.marker = k => dir.marker = k
      BY <2>3 DEF GiveUpMutex, PassBarrier, Exit, ExitLost, ReleaseRefused, ReleaseSlot, Prepare
    <3> QED BY <3>1, <3>2 DEF Honour, EntryOwned, HonouredIsLatest, LostIsOver, Over, Live
  <2>4. CASE AbandonWait(l) \/ SubmitFails(l) \/ Discard(l)
    <3>1. UNCHANGED <<host, task, lost>> /\ mutex' = None /\ mutex = l /\ Prune(l)
      BY <2>4 DEF AbandonWait, SubmitFails, Discard, hostVars, queueVars, Handover, MutexHeld, Inside
    <3>2. entry' # None => entry' = entry /\ entry.lease # l
      BY <3>1 DEF Prune, Mine
    <3>3. EntryOwned'
      BY <3>1, <3>2 DEF Honour, EntryOwned, Live
    <3>4. HonouredIsLatest'
      BY <3>1, <3>2 DEF Honour, HonouredIsLatest, Live
    <3> QED BY <3>1, <3>3, <3>4 DEF Honour, LostIsOver, Over
  <2>5. CASE Submit(l)
    <3>1. UNCHANGED <<host, entry, lost>> /\ mutex' = None /\ mutex = l
      BY <2>5 DEF Submit, hostVars, beatVars, Handover, MutexHeld, Inside
    <3>2. Live(l)' /\ \A k \in Lease : ~Live(k)
      BY <2>5 DEF Submit, Handover, HandoffCounts, Live, NewTask, NoTask, TypeOK
    <3>3. entry # None => entry.lease = l
      BY <3>1, <3>2, EntryTyped DEF Honour, EntryOwned
    <3>4. EntryOwned'
      BY <3>1, <3>2, <3>3 DEF EntryOwned
    <3>5. \A k \in Lease : Live(k)' => k = l
      BY <1>1, <3>2 DEF Live
    <3>6. HonouredIsLatest'
      BY <3>1, <3>3, <3>5 DEF HonouredIsLatest
    <3> QED BY <3>1, <3>4, <3>6 DEF Honour, LostIsOver, Over
  <2> QED BY <2>1, <2>2, <2>3, <2>4, <2>5 DEF ThreadStep
<1> QED BY <1>2, <1>3, <1>4, <1>5 DEF Honour

\* What a step of a delivery does to the rest.
LEMMA TaskFrame ==
  ASSUME HonourInv, NEW l \in Lease, TaskStep(l)
  PROVE  /\ UNCHANGED <<host, closed, pc, mutex, beat>>
         /\ Live(l)
         /\ \A k \in Lease \ {l} : task'[k] = task[k]
         /\ ~Finalize(l) => Live(l)'
         /\ Finalize(l) => ~Live(l)'
         /\ \A k \in Lease : dir'.marker = k => dir.marker = k
         /\ flying' \subseteq flying \cup {l}
<1> USE DEF HonourInv, DeliveryInv
<1>1. task \in [Lease -> Task] /\ dir \in Dir
  BY DEF TypeOK
<1>2. UNCHANGED <<host, closed, pc, mutex, beat>> /\ flying' \subseteq flying \cup {l} /\ Live(l)
  BY DEF TaskStep, Arm, BulkDone, BulkLost, BulkCrash, StartReport, Send, ReportLost,
         TransportFails, RetryReport, ReceiveFinal, ReceiveRejection, Drop, ReportCrash, Finalize,
         hostVars, threadVars, beatVars, Live, At
<1>3. \A k \in Lease : dir'.marker = k => dir.marker = k
  <2>1. CASE Drop(l)
    BY <1>1, <2>1, WorkerAssumption DEF Drop, Dropped, NoDir, Dir
  <2>2. CASE ~Drop(l)
    BY <2>2 DEF TaskStep, Arm, BulkDone, BulkLost, BulkCrash, StartReport, Send, ReportLost,
         TransportFails, RetryReport, ReceiveFinal, ReceiveRejection, ReportCrash, Finalize
  <2> QED BY <2>1, <2>2
<1>4. CASE BulkDone(l) \/ BulkLost(l) \/ BulkCrash(l) \/ StartReport(l) \/ Send(l) \/ RetryReport(l)
           \/ ReceiveFinal(l) \/ ReportCrash(l) \/ Drop(l)
  <2>1. PICK s \in {"ready", "dropping", "finalize", "loop", "sent"} :
               task' = [task EXCEPT ![l].stage = s]
    BY <1>4 DEF BulkDone, BulkLost, BulkCrash, StartReport, Send, RetryReport, ReceiveFinal,
                ReportCrash, Drop, Goto
  <2>2. task'[l].stage \notin {"none", "done"} /\ \A k \in Lease \ {l} : task'[k] = task[k]
    BY <1>1, <2>1 DEF Task
  <2>3. ~Finalize(l)
    BY <2>2, <1>1 DEF Finalize, DoneTask, NoTask
  <2> QED BY <1>2, <1>3, <2>2, <2>3 DEF Live
<1>5. CASE Arm(l) \/ ReportLost(l) \/ TransportFails(l) \/ ReceiveRejection(l)
  <2>1. task'[l].stage \notin {"none", "done"} /\ \A k \in Lease \ {l} : task'[k] = task[k]
    BY <1>1, <1>5, RestagedTask
  <2>2. ~Finalize(l)
    BY <2>1, <1>1 DEF Finalize, DoneTask, NoTask
  <2> QED BY <1>2, <1>3, <2>1, <2>2 DEF Live
<1>6. CASE Finalize(l)
  <2>1. task'[l].stage = "done" /\ \A k \in Lease \ {l} : task'[k] = task[k]
    BY <1>1, <1>6 DEF Finalize, DoneTask, NoTask
  <2> QED BY <1>2, <1>3, <1>6, <2>1 DEF Live
<1> QED BY <1>4, <1>5, <1>6 DEF TaskStep

LEMMA ArmHonours ==
  ASSUME HonourInv, NEW l \in Lease, Arm(l)
  PROVE  EntryOwned' /\ HonouredIsLatest' /\ LostIsOver'
<1> USE WorkerAssumption DEF HonourInv, DeliveryInv
<1>1. Arm(l) => TaskStep(l) /\ ~Finalize(l)
  BY DEF TaskStep, Arm, Finalize, At
<1>2. /\ UNCHANGED <<host, mutex>> /\ Live(l) /\ Live(l)'
      /\ \A k \in Lease \ {l} : task'[k] = task[k]
      /\ \A k \in Lease : dir'.marker = k => dir.marker = k
  BY <1>1, TaskFrame
<1>3. \A k \in Lease : Live(k)' <=> Live(k)
  BY <1>2 DEF Live
<1>4. \A k \in Lease : Live(k) => k = l
  BY <1>2 DEF Handover, HandoffCounts
<1>5. CASE entry # None /\ entry.lease # l
  <2>1. UNCHANGED entry /\ lost' = [lost EXCEPT ![l].task = TRUE]
    BY <1>5 DEF Arm
  <2>2. EntryOwned' /\ HonouredIsLatest'
    BY <1>2, <1>3, <2>1, EntryTyped DEF Honour, EntryOwned, HonouredIsLatest
  <2>3. Over(l)
    <3>1. host[l] # "active"
      BY <1>2, <1>5 DEF Honour, HonouredIsLatest
    <3>2. host[l] # "unclaimed"
      BY <1>2 DEF Honour, AfterThread, Live, NoTask, GrantedFirst
    <3> QED BY <3>1, <3>2 DEF Over, TypeOK
  <2>4. \A k \in Lease \ {l} : lost'[k] = lost[k]
    BY <2>1 DEF TypeOK
  <2> QED BY <1>2, <2>2, <2>3, <2>4 DEF Honour, LostIsOver, Over
<1>6. CASE entry # None => entry.lease = l
  <2>1. /\ entry' = [lease |-> l, era |-> "task", quiesced |-> FALSE]
        /\ lost' = [lost EXCEPT ![l].task = @ \/ (Mine(l) /\ Condemned(entry))]
    BY <1>6 DEF Arm
  <2>2. EntryOwned'
    BY <1>2, <2>1 DEF EntryOwned
  <2>3. HonouredIsLatest'
    BY <1>2, <1>3, <1>4, <2>1 DEF Honour, HonouredIsLatest
  <2>4. \A k \in Lease \ {l} : lost'[k] = lost[k]
    BY <2>1 DEF TypeOK
  <2>5. lost'[l].exec \/ lost'[l].task => lost[l].exec \/ lost[l].task
    BY <2>1 DEF TypeOK, Mine, Condemned
  <2> QED BY <1>2, <2>2, <2>3, <2>4, <2>5 DEF Honour, LostIsOver, Over
<1> QED BY <1>5, <1>6

LEMMA TaskHonours ==
  ASSUME HonourInv, NEW l \in Lease, TaskStep(l)
  PROVE  Honour'
<1> USE WorkerAssumption DEF HonourInv, DeliveryInv
<1>1. /\ UNCHANGED <<host, closed, pc, mutex, beat>>
      /\ Live(l)
      /\ \A k \in Lease \ {l} : task'[k] = task[k]
      /\ ~Finalize(l) => Live(l)'
      /\ Finalize(l) => ~Live(l)'
      /\ \A k \in Lease : dir'.marker = k => dir.marker = k
      /\ flying' \subseteq flying \cup {l}
  BY TaskFrame
<1>2. OneHonoured' /\ WaitsHonoured' /\ VerdictsTrue'
  BY <1>1 DEF Honour, OneHonoured, WaitsHonoured, VerdictsTrue, Over
<1>3. AfterThread'
  BY <1>1 DEF Honour, AfterThread, Live, NoTask
<1>4. CASE Arm(l)
  BY <1>2, <1>3, <1>4, ArmHonours DEF Honour
<1>5. CASE Finalize(l)
  <2>1. UNCHANGED lost /\ (entry' # None => entry' = entry /\ entry.lease # l)
    BY <1>5 DEF Finalize, Prune, Mine
  <2>2. \A k \in Lease \ {l} : Live(k)' <=> Live(k)
    BY <1>1 DEF Live
  <2>3. EntryOwned'
    BY <1>1, <2>1, <2>2, EntryTyped DEF Honour, EntryOwned
  <2>4. HonouredIsLatest'
    BY <1>1, <1>5, <2>1, <2>2 DEF Honour, HonouredIsLatest
  <2> QED BY <1>1, <1>2, <1>3, <2>1, <2>3, <2>4 DEF Honour, LostIsOver, Over
<1>6. CASE ~Arm(l) /\ ~Finalize(l)
  <2>1. UNCHANGED lost /\ (entry' # None => entry # None /\ entry'.lease = entry.lease)
    BY <1>6 DEF TaskStep, BulkDone, BulkLost, BulkCrash, StartReport, Send, ReportLost,
         TransportFails, RetryReport, ReceiveFinal, ReceiveRejection, Drop, ReportCrash,
         beatVars, SetQuiesced, Mine, TypeOK, Opt, Entry
  <2>2. \A k \in Lease : Live(k)' <=> Live(k)
    BY <1>1, <1>6 DEF Live
  <2>3. EntryOwned'
    BY <1>1, <2>1, <2>2, EntryTyped DEF Honour, EntryOwned
  <2>4. HonouredIsLatest'
    BY <1>1, <2>1, <2>2 DEF Honour, HonouredIsLatest
  <2> QED BY <1>1, <1>2, <1>3, <2>1, <2>3, <2>4 DEF Honour, LostIsOver, Over
<1> QED BY <1>4, <1>5, <1>6

LEMMA HostHonours ==
  ASSUME HonourInv, WaitFitsLease, HostStep
  PROVE  Honour'
<1> USE WorkerAssumption DEF HonourInv, DeliveryInv, Honour
<1> host \in [Lease -> {"unclaimed", "active", "dead", "committed"}]
  BY DEF TypeOK
<1>1. CASE \E l \in Lease, arrives \in BOOLEAN : Claim(l, arrives)
  <2>1. PICK l \in Lease, arrives \in BOOLEAN : Claim(l, arrives)
    BY <1>1
  <2>2. /\ host[l] = "unclaimed" /\ host' = [host EXCEPT ![l] = "active"]
        /\ \A k \in Lease : host[k] # "active"
        /\ UNCHANGED <<closed, flying, mutex, dir, entry, lost, beat, task>>
    BY <2>1 DEF Claim, beatVars, queueVars
  <2>3. pc[l] = "none" /\ \A k \in Lease \ {l} : pc'[k] = pc[k]
    BY <2>1, <2>2 DEF Claim, GrantedFirst, TypeOK
  <2>4. task[l] = NoTask /\ l \notin flying /\ dir.marker # l /\ ~lost[l].exec /\ ~lost[l].task
    BY <2>2, <2>3 DEF AfterThread, LostIsOver, Over
  <2>5. OneHonoured' /\ WaitsHonoured' /\ AfterThread'
    BY <2>2, <2>3, <2>4 DEF OneHonoured, WaitsHonoured, AfterThread
  <2>6. EntryOwned' /\ HonouredIsLatest'
    BY <2>2, <2>4 DEF EntryOwned, HonouredIsLatest, Live, NoTask
  <2>7. VerdictsTrue' /\ LostIsOver'
    BY <2>2, <2>4 DEF VerdictsTrue, LostIsOver, Over
  <2> QED BY <2>5, <2>6, <2>7
<1>2. CASE \E l \in Lease : Expire(l)
  <2>1. PICK l \in Lease : Expire(l)
    BY <1>2
  <2>2. /\ host[l] = "active" /\ pc[l] # "mutex" /\ host' = [host EXCEPT ![l] = "dead"]
        /\ UNCHANGED <<closed, flying, pc, mutex, dir, entry, lost, beat, task>>
    BY <2>1 DEF Expire, beatVars, queueVars, threadVars
  <2>3. OneHonoured' /\ WaitsHonoured' /\ AfterThread'
    BY <2>2 DEF OneHonoured, WaitsHonoured, AfterThread
  <2>4. EntryOwned' /\ HonouredIsLatest'
    BY <2>2 DEF EntryOwned, HonouredIsLatest, Live
  <2>5. VerdictsTrue' /\ LostIsOver'
    BY <2>2 DEF VerdictsTrue, LostIsOver, Over
  <2> QED BY <2>3, <2>4, <2>5
<1>3. CASE CloseElsewhere
  <2>1. closed' /\ UNCHANGED <<host, flying, pc, mutex, dir, entry, lost, beat, task>>
    BY <1>3 DEF CloseElsewhere, beatVars, queueVars, threadVars
  <2> QED BY <2>1 DEF OneHonoured, WaitsHonoured, AfterThread, EntryOwned, HonouredIsLatest, Live,
                      VerdictsTrue, LostIsOver, Over
<1>4. CASE \E l \in Lease : HandleReport(l)
  <2>1. PICK l \in Lease : HandleReport(l)
    BY <1>4
  <2>2. /\ l \in flying /\ flying' = flying \ {l}
        /\ closed => closed'
        /\ UNCHANGED <<pc, mutex, dir, entry, lost, beat>>
    BY <2>1 DEF HandleReport, beatVars, threadVars
  <2>3. /\ \A k \in Lease : host'[k] = host[k] \/ (k = l /\ host[k] = "active" /\ host'[k] = "committed")
    BY <2>1 DEF HandleReport
  <2>4. PICK a : task' = IF At(l, "sent") THEN [task EXCEPT ![l].answer = a] ELSE task
    BY <2>1 DEF HandleReport
  <2>5. \A k \in Lease : task'[k].stage = task[k].stage /\ (k # l => task'[k] = task[k])
    BY <2>4 DEF TypeOK, Task
  <2>6. pc[l] = "over"
    BY <2>2 DEF AfterThread
  <2>7. OneHonoured' /\ WaitsHonoured' /\ AfterThread'
    BY <2>2, <2>3, <2>5, <2>6 DEF OneHonoured, WaitsHonoured, AfterThread
  <2>8. \A k \in Lease : Live(k)' <=> Live(k)
    BY <2>5 DEF Live
  <2>9. EntryOwned' /\ HonouredIsLatest'
    BY <2>2, <2>3, <2>8, EntryTyped DEF EntryOwned, HonouredIsLatest
  <2>10. VerdictsTrue'
    <3>1. beat # None => beat.lease \in Lease
      BY DEF TypeOK, Opt, Beat
    <3> QED BY <2>2, <2>3, <3>1 DEF VerdictsTrue, Over
  <2>11. LostIsOver'
    BY <2>2, <2>3 DEF LostIsOver, Over
  <2> QED BY <2>7, <2>9, <2>10, <2>11
<1> QED BY <1>1, <1>2, <1>3, <1>4 DEF HostStep

LEMMA BeatHonours ==
  ASSUME HonourInv, BeatStep
  PROVE  Honour'
<1> USE WorkerAssumption DEF HonourInv, DeliveryInv, Honour
<1>1. UNCHANGED <<host, closed, flying, pc, mutex, dir, task>>
  BY DEF BeatStep, Snapshot, ZombieStop, HandleBeat, BeatReply, RelayReply, BeatFails, hostVars,
         threadVars, queueVars
<1>2. OneHonoured' /\ WaitsHonoured' /\ AfterThread'
  BY <1>1 DEF OneHonoured, WaitsHonoured, AfterThread
<1>3. entry' # None => entry' = entry
  BY DEF BeatStep, Snapshot, ZombieStop, HandleBeat, BeatReply, RelayReply, BeatFails
<1>4. EntryOwned' /\ HonouredIsLatest'
  BY <1>1, <1>3 DEF EntryOwned, HonouredIsLatest, Live
<1>5. VerdictsTrue'
  <2>1. CASE Snapshot
    BY <1>1, <2>1, EntryStarted DEF Snapshot, VerdictsTrue
  <2>2. CASE HandleBeat
    <3>1. beat.lease \in Lease /\ host[beat.lease] # "unclaimed" /\ beat'.lease = beat.lease
      BY <2>2 DEF HandleBeat, TypeOK, Opt, Beat, VerdictsTrue
    <3>2. beat'.verdict = "lost" => Over(beat.lease)
      BY <2>2, <3>1 DEF HandleBeat, TypeOK, Opt, Beat, Over
    <3>3. beat'.verdict = "settled" => closed
      BY <2>2 DEF HandleBeat, TypeOK, Opt, Beat
    <3> QED BY <1>1, <3>1, <3>2, <3>3 DEF VerdictsTrue, Over
  <2>3. CASE ZombieStop
    BY <1>1, <2>3 DEF ZombieStop, VerdictsTrue, Over
  <2>4. CASE BeatReply \/ RelayReply \/ BeatFails
    BY <2>4 DEF BeatReply, RelayReply, BeatFails, VerdictsTrue
  <2> QED BY <2>1, <2>2, <2>3, <2>4 DEF BeatStep
<1>6. LostIsOver'
  <2>1. CASE UNCHANGED lost
    BY <1>1, <2>1 DEF LostIsOver, Over
  <2>2. CASE ~UNCHANGED lost
    <3>1. PICK era : beat # None /\ beat.verdict = "lost" /\ lost' = Condemn(beat.lease, era)
      BY <2>2 DEF BeatStep, Snapshot, ZombieStop, HandleBeat, BeatReply, RelayReply, BeatFails, Mine
    <3>2. beat.lease \in Lease /\ Over(beat.lease)
      BY <3>1 DEF TypeOK, Opt, Beat, VerdictsTrue
    <3>3. \A k \in Lease : k # beat.lease => lost'[k] = lost[k]
      BY <3>1, <3>2, CondemnOne DEF TypeOK
    <3> QED BY <1>1, <3>2, <3>3 DEF LostIsOver, Over
  <2> QED BY <2>1, <2>2
<1> QED BY <1>2, <1>4, <1>5, <1>6

LEMMA CrashHonours ==
  ASSUME HonourInv, Crash
  PROVE  Honour'
<1> USE WorkerAssumption DEF HonourInv, DeliveryInv, Honour
<1>1. /\ UNCHANGED <<host, closed, flying>> /\ mutex' = None /\ entry' = None /\ beat' = None
      /\ \A k \in Lease : dir'.marker = k => dir.marker = k
  BY DEF Crash, hostVars, NoDir
<1>2. \A k \in Lease : pc'[k] = IF pc[k] = "none" THEN "none" ELSE "over"
  BY DEF Crash
<1>3. \A k \in Lease : task'[k] # NoTask => k = dir.marker \/ task[k] # NoTask
  BY DEF Crash
<1>4. AfterThread'
  BY <1>1, <1>2, <1>3 DEF AfterThread
<1>5. LostIsOver'
  BY DEF Crash, LostIsOver
<1> QED
  BY <1>1, <1>2, <1>4, <1>5 DEF OneHonoured, WaitsHonoured, EntryOwned, HonouredIsLatest, VerdictsTrue

LEMMA NextHonour ==
  ASSUME HonourInv, WaitFitsLease, [Next]_vars
  PROVE  HonourInv'
<1>1. DeliveryInv'
  BY NextDelivery DEF HonourInv
<1>2. CASE Unmoved
  <2>1. UNCHANGED <<host, closed, flying, pc, mutex, dir, entry, lost, beat, task>>
    BY <1>2 DEF Unmoved, hostVars, threadVars, beatVars, queueVars
  <2>2. OneHonoured' /\ WaitsHonoured' /\ AfterThread'
    BY <2>1 DEF HonourInv, Honour, OneHonoured, WaitsHonoured, AfterThread
  <2>3. EntryOwned' /\ HonouredIsLatest'
    BY <2>1 DEF HonourInv, Honour, EntryOwned, HonouredIsLatest, Live
  <2>4. VerdictsTrue' /\ LostIsOver'
    BY <2>1 DEF HonourInv, Honour, VerdictsTrue, LostIsOver, Over
  <2> QED BY <1>1, <2>2, <2>3, <2>4 DEF Honour, HonourInv
<1>3. Honour'
  BY <1>2, ThreadHonours, TaskHonours, HostHonours, BeatHonours, CrashHonours, LanesApart DEF Next, HonourInv
<1> QED BY <1>1, <1>3 DEF HonourInv

LEMMA InitHonour == ASSUME Init PROVE HonourInv
<1>1. DeliveryInv
  BY InitDelivery
<1>2. AfterThread
  BY WorkerAssumption DEF Init, AfterThread, NoTask, NoDir
<1>3. LostIsOver
  BY DEF Init, LostIsOver
<1> QED
  BY <1>1, <1>2, <1>3 DEF Init, HonourInv, Honour, OneHonoured, WaitsHonoured, EntryOwned, HonouredIsLatest,
                    VerdictsTrue

\* heartbeat_batch.py, handoff.py: where a claim's lease outlives the wait for
\* the mutex, no event is ever set for a lease the Host honours, whatever
\* beats, verdicts, displaced entries and crashes come between, and however
\* many attempts there are.
THEOREM LiveLeaseNotCondemnedHolds == WaitFitsLease => (Spec => []LiveLeaseNotCondemned)
<1> SUFFICES ASSUME WaitFitsLease PROVE Spec => []LiveLeaseNotCondemned
  OBVIOUS
<1>1. HonourInv /\ [Next]_vars => HonourInv'
  BY NextHonour
<1>2. HonourInv => LiveLeaseNotCondemned
  BY DEF HonourInv, Honour, LostIsOver, Over, LiveLeaseNotCondemned
<1>3. Init => HonourInv
  BY InitHonour
<1> QED BY <1>1, <1>2, <1>3, PTL DEF Spec

----------------------------------------------------------------------------
(***************************************************************************)
(* Who is beaten.  A settled verdict names no lease and drops whatever     *)
(* entry there is: it is harmless because a closed execution has no        *)
(* honoured lease.  All other removals name their lease.                   *)
(***************************************************************************)
\* A result was committed only together with the end of the request.
ClosedIsOver ==
  /\ closed => \A l \in Lease : host[l] # "active"
  /\ \A l \in Lease : host[l] = "committed" => closed

BeatenInv == HonourInv /\ ClosedIsOver /\ OwnedLeaseIsBeaten

LEMMA ClosedKept ==
  ASSUME HonourInv, ClosedIsOver, [Next]_vars
  PROVE  ClosedIsOver'
<1> USE DEF ClosedIsOver
<1>1. host \in [Lease -> {"unclaimed", "active", "dead", "committed"}] /\ closed \in BOOLEAN
  BY DEF HonourInv, DeliveryInv, TypeOK
<1>2. CASE \E l \in Lease, arrives \in BOOLEAN : Claim(l, arrives)
  BY <1>1, <1>2 DEF Claim
<1>3. CASE \E l \in Lease : Expire(l)
  BY <1>1, <1>3 DEF Expire
<1>4. CASE CloseElsewhere
  BY <1>4 DEF CloseElsewhere
<1>5. CASE \E l \in Lease : HandleReport(l)
  <2>1. PICK l \in Lease : HandleReport(l)
    BY <1>5
  <2>2. \/ UNCHANGED <<host, closed>>
        \/ /\ host[l] \in {"active", "committed"} /\ closed'
           /\ host' = [host EXCEPT ![l] = "committed"]
    BY <1>1, <2>1 DEF HandleReport
  <2> QED BY <1>1, <2>2 DEF HonourInv, Honour, OneHonoured
<1>6. CASE UNCHANGED <<host, closed>>
  BY <1>6
<1>7. CASE (\E l \in Lease : ThreadStep(l)) \/ (\E l \in Lease : TaskStep(l))
  BY <1>6, <1>7, ThreadFrame, TaskFrame DEF hostVars
<1>8. CASE BeatStep \/ Crash \/ Unmoved
  BY <1>6, <1>8 DEF BeatStep, Snapshot, ZombieStop, HandleBeat, BeatReply, RelayReply, BeatFails,
                    Crash, Unmoved, hostVars
<1> QED BY <1>2, <1>3, <1>4, <1>5, <1>7, <1>8, LanesApart DEF Next, HostStep

LEMMA NewEntry ==
  ASSUME NEW l \in Lease, NEW era \in {"exec", "task"}
  PROVE  [lease |-> l, era |-> era, quiesced |-> FALSE] # None
<1>1. [lease |-> l, era |-> era, quiesced |-> FALSE] \in Entry
  BY DEF Entry
<1> QED BY <1>1, WorkerAssumption

LEMMA ThreadBeaten ==
  ASSUME BeatenInv, NEW l \in Lease, ThreadStep(l)
  PROVE  OwnedLeaseIsBeaten'
<1> USE WorkerAssumption DEF BeatenInv
<1>1. /\ UNCHANGED hostVars
      /\ pc[l] # "over"
      /\ \A k \in Lease \ {l} : pc'[k] = pc[k] /\ task'[k] = task[k]
  BY ThreadFrame
<1>2. task[l] = NoTask
  BY <1>1 DEF HonourInv, Honour, AfterThread
<1>3. CASE Register(l)
  <2>1. host[l] = "active" /\ UNCHANGED task /\ entry' = [lease |-> l, era |-> "exec", quiesced |-> FALSE]
    BY <1>3 DEF Register, HonourInv, Honour, WaitsHonoured, queueVars
  <2>2. entry' # None
    BY <2>1, NewEntry
  <2>3. \A k \in Lease : host[k] = "active" => k = l
    BY <2>1 DEF HonourInv, Honour, OneHonoured
  <2> QED BY <1>1, <1>2, <2>1, <2>2, <2>3 DEF OwnedLeaseIsBeaten, Mine, hostVars, NoTask
<1>4. CASE GiveUpMutex(l) \/ FencePrior(l) \/ PassBarrier(l) \/ Prepare(l) \/ Exit(l) \/ ExitLost(l)
           \/ ReleaseRefused(l) \/ ReleaseSlot(l)
  <2>1. UNCHANGED entry /\ UNCHANGED task
    BY <1>4 DEF GiveUpMutex, FencePrior, PassBarrier, Prepare, Exit, ExitLost, ReleaseRefused,
                ReleaseSlot, beatVars, queueVars
  <2>2. pc'[l] \in {"fence", "waiting", "prepare", "running"}
          => pc[l] \in {"fence", "waiting", "prepare", "running"}
    BY <1>4 DEF GiveUpMutex, FencePrior, PassBarrier, Prepare, Exit, ExitLost, ReleaseRefused,
                ReleaseSlot, HonourInv, DeliveryInv, TypeOK
  <2> QED BY <1>1, <2>1, <2>2 DEF OwnedLeaseIsBeaten, Mine, hostVars
<1>5. CASE AbandonWait(l) \/ SubmitFails(l) \/ Discard(l)
  <2>1. UNCHANGED task /\ pc'[l] = "over" /\ (entry' = entry \/ Mine(l))
    BY <1>5 DEF AbandonWait, SubmitFails, Discard, queueVars, Prune, HonourInv, DeliveryInv, TypeOK
  <2> QED BY <1>1, <1>2, <2>1 DEF OwnedLeaseIsBeaten, Mine, hostVars, NoTask
<1>6. CASE Submit(l)
  <2>1. UNCHANGED entry /\ task'[l] = NewTask /\ pc'[l] = "over"
    BY <1>6 DEF Submit, beatVars, HonourInv, DeliveryInv, TypeOK
  <2> QED BY <1>1, <2>1 DEF OwnedLeaseIsBeaten, Mine, hostVars, NewTask, NoTask
<1> QED BY <1>3, <1>4, <1>5, <1>6 DEF ThreadStep

\* A pause or resumption of the beats touches no other lease's entry.
LEMMA QuiescedOwn ==
  ASSUME TypeOK, NEW l \in Lease, NEW q \in BOOLEAN, SetQuiesced(l, q)
  PROVE  /\ Mine(l) => Mine(l)' /\ entry'.quiesced = q
         /\ ~Mine(l) => UNCHANGED entry
<1>1. CASE Mine(l)
  <2>1. entry \in Entry /\ entry' = [entry EXCEPT !.quiesced = q] /\ entry.lease = l
    BY <1>1 DEF TypeOK, Opt, SetQuiesced, Mine
  <2>2. entry' \in Entry /\ entry'.lease = l /\ entry'.quiesced = q
    BY <2>1 DEF Entry
  <2> QED BY <1>1, <2>2, WorkerAssumption DEF Mine
<1>2. CASE ~Mine(l)
  BY <1>2 DEF SetQuiesced
<1> QED BY <1>1, <1>2

\* Where a delivery goes, and what it does to the entry.
LEMMA TaskBeaten ==
  ASSUME BeatenInv, NEW l \in Lease, TaskStep(l)
  PROVE  OwnedLeaseIsBeaten'
<1> USE WorkerAssumption DEF BeatenInv
<1>1. /\ UNCHANGED <<host, pc>> /\ Live(l)
      /\ \A k \in Lease \ {l} : task'[k] = task[k]
  BY TaskFrame
<1>2. TypeOK /\ task \in [Lease -> Task] /\ pc[l] = "over"
  BY <1>1 DEF HonourInv, DeliveryInv, TypeOK, Honour, AfterThread, Live, NoTask
<1>3. CASE Arm(l)
  <2>1. CASE entry # None /\ entry.lease # l
    <3>1. UNCHANGED entry /\ host[l] # "active"
      BY <1>1, <1>3, <2>1 DEF Arm, HonourInv, Honour, HonouredIsLatest
    <3> QED BY <1>1, <3>1 DEF OwnedLeaseIsBeaten, Mine
  <2>2. CASE entry # None => entry.lease = l
    <3>1. entry' = [lease |-> l, era |-> "task", quiesced |-> FALSE]
      BY <1>3, <2>2 DEF Arm
    <3>2. entry' # None
      BY <3>1, NewEntry
    <3>3. \A k \in Lease \ {l} : ~Mine(k)
      BY <2>2 DEF Mine
    <3> QED BY <1>1, <3>1, <3>2, <3>3 DEF OwnedLeaseIsBeaten, Mine
  <2> QED BY <2>1, <2>2
<1>4. CASE BulkDone(l) \/ BulkLost(l) \/ BulkCrash(l) \/ Send(l) \/ ReceiveFinal(l) \/ ReportCrash(l)
           \/ Drop(l) \/ ReportLost(l)
  <2>1. UNCHANGED entry
    BY <1>4 DEF BulkDone, BulkLost, BulkCrash, Send, ReceiveFinal, ReportCrash, Drop, ReportLost, beatVars
  <2>2. CASE BulkDone(l)
    <3>1. task[l].stage = "bulk" /\ task'[l].stage = "ready"
      BY <1>2, <2>2 DEF BulkDone, At, Goto, Task
    <3> QED BY <1>1, <2>1, <3>1 DEF OwnedLeaseIsBeaten, Mine
  <2>3. CASE Send(l)
    <3>1. task[l].stage = "loop" /\ task'[l].stage = "sent"
      BY <1>2, <2>3 DEF Send, At, Goto, Task
    <3> QED BY <1>1, <2>1, <3>1 DEF OwnedLeaseIsBeaten, Mine
  <2>4. CASE BulkLost(l) \/ BulkCrash(l) \/ ReceiveFinal(l) \/ ReportCrash(l) \/ Drop(l)
    <3>1. PICK s \in {"dropping", "finalize"} : task' = [task EXCEPT ![l].stage = s]
      BY <2>4 DEF BulkLost, BulkCrash, ReceiveFinal, ReportCrash, Drop, Goto
    <3>2. task'[l].stage \in {"dropping", "finalize"}
      BY <1>2, <3>1 DEF Task
    <3> QED BY <1>1, <1>2, <2>1, <3>2 DEF OwnedLeaseIsBeaten, Mine
  <2>5. CASE ReportLost(l)
    <3>1. task' = [task EXCEPT ![l].stage = "dropping", ![l].answer = "none"]
      BY <2>5 DEF ReportLost
    <3>2. task'[l].stage = "dropping"
      BY <1>2, <3>1 DEF Task
    <3> QED BY <1>1, <1>2, <2>1, <3>2 DEF OwnedLeaseIsBeaten, Mine
  <2> QED BY <1>4, <2>2, <2>3, <2>4, <2>5
<1>5. CASE StartReport(l) \/ RetryReport(l)
  <2>1. task[l].stage \in {"ready", "backoff", "rewriting"} /\ SetQuiesced(l, TRUE)
    BY <1>5 DEF StartReport, RetryReport, At
  <2>2. task' = [task EXCEPT ![l].stage = "loop"]
    BY <1>5 DEF StartReport, RetryReport, Goto
  <2>3. task'[l].stage = "loop"
    BY <1>2, <2>2 DEF Task
  <2>4. (Mine(l) => Mine(l)') /\ (~Mine(l) => UNCHANGED entry)
    BY <1>2, <2>1, QuiescedOwn
  <2>5. host[l] = "active" => Mine(l)
    BY <2>1 DEF OwnedLeaseIsBeaten
  <2>6. \A k \in Lease \ {l} : Mine(k) => UNCHANGED entry
    BY <2>4 DEF Mine
  <2> QED BY <1>1, <1>2, <2>3, <2>4, <2>5, <2>6 DEF OwnedLeaseIsBeaten, Mine
<1>6. CASE TransportFails(l) \/ ReceiveRejection(l)
  <2>1. task[l].stage = "sent"
    BY <1>6 DEF TransportFails, ReceiveRejection, At
  <2>2. host[l] = "active" => Mine(l)
    BY <2>1 DEF OwnedLeaseIsBeaten
  <2>3. CASE SetQuiesced(l, FALSE)
    <3>1. (Mine(l) => Mine(l)' /\ entry'.quiesced = FALSE) /\ (~Mine(l) => UNCHANGED entry)
      BY <1>2, <2>3, QuiescedOwn
    <3>2. \A k \in Lease \ {l} : Mine(k) => UNCHANGED entry
      BY <3>1 DEF Mine
    <3> QED BY <1>1, <1>2, <2>2, <3>1, <3>2 DEF OwnedLeaseIsBeaten, Mine
  <2>4. CASE ~SetQuiesced(l, FALSE)
    <3>1. UNCHANGED entry /\ task' = [task EXCEPT ![l].stage = "dropping"]
      BY <1>6, <2>4 DEF TransportFails, ReceiveRejection, Goto
    <3>2. task'[l].stage = "dropping"
      BY <1>2, <3>1 DEF Task
    <3> QED BY <1>1, <1>2, <3>1, <3>2 DEF OwnedLeaseIsBeaten, Mine
  <2> QED BY <2>3, <2>4
<1>7. CASE Finalize(l)
  <2>1. (entry' = entry \/ Mine(l)) /\ task'[l].stage = "done"
    BY <1>2, <1>7 DEF Finalize, Prune, DoneTask, NoTask
  <2> QED BY <1>1, <1>2, <2>1 DEF OwnedLeaseIsBeaten, Mine
<1> QED BY <1>3, <1>4, <1>5, <1>6, <1>7 DEF TaskStep

LEMMA WorldBeaten ==
  ASSUME BeatenInv, HostStep \/ BeatStep \/ Crash \/ Unmoved
  PROVE  OwnedLeaseIsBeaten'
<1> USE WorkerAssumption DEF BeatenInv
<1>1. host \in [Lease -> {"unclaimed", "active", "dead", "committed"}] /\ task \in [Lease -> Task]
  BY DEF HonourInv, DeliveryInv, TypeOK
<1>2. CASE \E l \in Lease, arrives \in BOOLEAN : Claim(l, arrives)
  <2>1. PICK l \in Lease, arrives \in BOOLEAN : Claim(l, arrives)
    BY <1>2
  <2>2. /\ \A k \in Lease : host'[k] = "active" => k = l
        /\ UNCHANGED task /\ pc'[l] \in {"mutex", "over"}
    BY <1>1, <2>1 DEF Claim, queueVars, HonourInv, DeliveryInv, TypeOK
  <2>3. task[l] = NoTask
    BY <2>1 DEF Claim, HonourInv, DeliveryInv, Honour, GrantedFirst, AfterThread
  <2> QED BY <2>2, <2>3 DEF OwnedLeaseIsBeaten, NoTask
<1>3. CASE CloseElsewhere \/ (\E l \in Lease : Expire(l)) \/ Unmoved
  <2>1. UNCHANGED <<pc, entry, task>> /\ \A k \in Lease : host'[k] = "active" => host[k] = "active"
    BY <1>1, <1>3 DEF CloseElsewhere, Expire, threadVars, beatVars, queueVars, hostVars, Unmoved
  <2> QED BY <2>1 DEF OwnedLeaseIsBeaten, Mine
<1>4. CASE \E l \in Lease : HandleReport(l)
  <2>1. PICK l \in Lease : HandleReport(l)
    BY <1>4
  <2>2. UNCHANGED <<pc, entry>> /\ \A k \in Lease : host'[k] = "active" => host[k] = "active"
    BY <1>1, <2>1 DEF HandleReport, threadVars, beatVars
  <2>3. PICK a : task' = IF At(l, "sent") THEN [task EXCEPT ![l].answer = a] ELSE task
    BY <2>1 DEF HandleReport
  <2>4. \A k \in Lease : task'[k].stage = task[k].stage
    BY <1>1, <2>3 DEF Task
  <2> QED BY <2>2, <2>4 DEF OwnedLeaseIsBeaten, Mine
<1>5. CASE BeatStep
  <2>1. UNCHANGED <<host, pc, task>>
    BY <1>5 DEF BeatStep, Snapshot, ZombieStop, HandleBeat, BeatReply, RelayReply, BeatFails, hostVars,
                threadVars, queueVars
  <2>2. CASE UNCHANGED entry
    BY <2>1, <2>2 DEF OwnedLeaseIsBeaten, Mine
  <2>3. CASE ZombieStop
    <3>1. entry # None /\ pc[entry.lease] \in {"exited", "discard"}
      BY <2>3 DEF ZombieStop
    <3>2. entry.lease \in Lease
      BY <3>1, EntryTyped DEF HonourInv, DeliveryInv
    <3>3. task[entry.lease] = NoTask
      BY <3>1, <3>2 DEF HonourInv, Honour, AfterThread
    <3> QED BY <2>1, <3>1, <3>2, <3>3 DEF OwnedLeaseIsBeaten, Mine, NoTask
  <2>4. CASE (BeatReply \/ RelayReply) /\ ~UNCHANGED entry
    <3>1. beat # None /\ beat.verdict = "settled"
      BY <2>4 DEF BeatReply, RelayReply
    <3>2. \A k \in Lease : host[k] # "active"
      BY <3>1 DEF HonourInv, Honour, VerdictsTrue, ClosedIsOver
    <3> QED BY <2>1, <3>2 DEF OwnedLeaseIsBeaten
  <2> QED BY <1>5, <2>2, <2>3, <2>4 DEF BeatStep, Snapshot, HandleBeat, BeatFails
<1>6. CASE Crash
  <2>1. \A k \in Lease : pc'[k] \in {"none", "over"} /\ task'[k] \in {NewTask, NoTask, DoneTask}
    BY <1>6 DEF Crash
  <2> QED BY <2>1 DEF OwnedLeaseIsBeaten, NewTask, NoTask, DoneTask
<1> QED BY <1>2, <1>3, <1>4, <1>5, <1>6 DEF HostStep

LEMMA BeatenInvariant == ASSUME WaitFitsLease PROVE Spec => []BeatenInv
<1>1. Init => BeatenInv
  <2>1. Init => OwnedLeaseIsBeaten
    BY DEF Init, OwnedLeaseIsBeaten
  <2>2. Init => ClosedIsOver
    BY DEF Init, ClosedIsOver
  <2> QED BY <2>1, <2>2, InitHonour DEF BeatenInv
<1>2. BeatenInv /\ [Next]_vars => BeatenInv'
  <2> SUFFICES ASSUME BeatenInv, [Next]_vars PROVE BeatenInv'
    OBVIOUS
  <2>1. HonourInv' /\ ClosedIsOver'
    BY NextHonour, ClosedKept DEF BeatenInv
  <2>2. OwnedLeaseIsBeaten'
    BY ThreadBeaten, TaskBeaten, WorldBeaten, LanesApart DEF Next
  <2> QED BY <2>1, <2>2 DEF BeatenInv
<1> QED BY <1>1, <1>2, PTL DEF Spec

\* heartbeat_batch.py: no cleanup of another attempt, no zombie stop and no
\* settled verdict takes the beats from a lease the Host honours while its
\* attempt works on it, for any number of attempts.
THEOREM OwnedLeaseIsBeatenHolds == WaitFitsLease => (Spec => []OwnedLeaseIsBeaten)
<1> SUFFICES ASSUME WaitFitsLease PROVE Spec => []OwnedLeaseIsBeaten
  OBVIOUS
<1>1. BeatenInv => OwnedLeaseIsBeaten
  BY DEF BeatenInv
<1> QED BY <1>1, BeatenInvariant, PTL

----------------------------------------------------------------------------
(***************************************************************************)
(* Whose result is kept.  The marker goes with a delivery that drops, and  *)
(* the answer it drops on tells what became of its lease.                  *)
(***************************************************************************)
AnswersTrue ==
  \A l \in Lease :
    /\ task[l].stage \in {"queued", "bulk", "ready", "loop", "backoff", "rewriting"}
         => task[l].answer = "none"
    /\ task[l].stage \in {"sent", "dropping"} /\ task[l].answer \in {"204", "409"} => Over(l)
    /\ task[l].stage = "dropping" /\ task[l].answer \in {"none", "401"} => Over(l)

KeepInv == HonourInv /\ AnswersTrue

LEMMA TaskAnswers ==
  ASSUME KeepInv, NEW l \in Lease, TaskStep(l)
  PROVE  AnswersTrue'
<1> USE DEF KeepInv
<1>1. UNCHANGED host /\ \A k \in Lease \ {l} : task'[k] = task[k]
  BY TaskFrame
<1>2. task \in [Lease -> Task] /\ (lost[l].task => Over(l))
  BY DEF HonourInv, DeliveryInv, TypeOK, Honour, LostIsOver
<1> DEFINE True(t) ==
      /\ t.stage \in {"queued", "bulk", "ready", "loop", "backoff", "rewriting"} => t.answer = "none"
      /\ t.stage \in {"sent", "dropping"} /\ t.answer \in {"204", "409"} => Over(l)
      /\ t.stage = "dropping" /\ t.answer \in {"none", "401"} => Over(l)
<1>3. True(task[l])
  BY DEF AnswersTrue
<1>4. True(task'[l])
  <2>1. CASE BulkDone(l) \/ BulkLost(l) \/ StartReport(l) \/ Send(l) \/ RetryReport(l) \/ ReceiveFinal(l)
    <3>1. PICK s : /\ task' = [task EXCEPT ![l].stage = s]
                   /\ \/ s \in {"ready", "loop", "sent"} /\ task[l].stage \in {"bulk", "ready", "backoff", "rewriting", "loop"}
                      \/ s = "dropping" /\ lost[l].task
                      \/ s = "dropping" /\ task[l].stage = "sent" /\ task[l].answer \in {"204", "409"}
                      \/ s = "finalize"
      BY <2>1 DEF BulkDone, BulkLost, StartReport, Send, RetryReport, ReceiveFinal, At, Goto
    <3>2. task'[l].stage = s /\ task'[l].answer = task[l].answer
      BY <1>2, <3>1 DEF Task
    <3> QED BY <1>2, <1>3, <3>1, <3>2
  <2>2. CASE Arm(l)
    <3>1. task'[l].stage = "bulk" /\ task'[l].answer = task[l].answer /\ task[l].stage = "queued"
      BY <1>2, <2>2 DEF Arm, Goto, At, Task
    <3> QED BY <1>3, <3>1
  <2>3. CASE BulkCrash(l) \/ ReportCrash(l) \/ Drop(l)
    <3>1. task' = [task EXCEPT ![l].stage = "finalize"]
      BY <2>3 DEF BulkCrash, ReportCrash, Drop, Goto
    <3>2. task'[l].stage = "finalize"
      BY <1>2, <3>1 DEF Task
    <3> QED BY <3>2
  <2>4. CASE ReportLost(l) \/ TransportFails(l)
    <3>1. PICK s : /\ task' = [task EXCEPT ![l].stage = s, ![l].answer = "none"]
                   /\ s = "backoff" \/ (s = "dropping" /\ lost[l].task)
      BY <2>4 DEF ReportLost, TransportFails
    <3>2. task'[l].stage = s /\ task'[l].answer = "none"
      BY <1>2, <3>1 DEF Task
    <3> QED BY <1>2, <3>1, <3>2
  <2>5. CASE ReceiveRejection(l)
    <3>1. CASE Goto(l, "dropping")
      <4>1. task'[l].answer = task[l].answer /\ task[l].answer \in {"413", "4xx"} /\ task'[l].stage = "dropping"
        BY <1>2, <2>5, <3>1 DEF ReceiveRejection, Goto, Task
      <4> QED BY <4>1
    <3>2. CASE ~Goto(l, "dropping")
      <4>1. PICK d : task' = [task EXCEPT ![l].stage = "rewriting", ![l].answer = "none",
                                          ![l].degraded = d]
        BY <2>5, <3>2 DEF ReceiveRejection
      <4>2. task'[l].stage = "rewriting" /\ task'[l].answer = "none"
        BY <1>2, <4>1 DEF Task
      <4> QED BY <4>2
    <3> QED BY <3>1, <3>2
  <2>6. CASE Finalize(l)
    <3>1. task'[l].stage = "done"
      BY <1>2, <2>6 DEF Finalize, DoneTask, NoTask
    <3> QED BY <3>1
  <2> QED BY <2>1, <2>2, <2>3, <2>4, <2>5, <2>6 DEF TaskStep
<1> HIDE DEF True
<1>5. \A k \in Lease \ {l} :
        /\ task'[k].stage \in {"queued", "bulk", "ready", "loop", "backoff", "rewriting"}
             => task'[k].answer = "none"
        /\ task'[k].stage \in {"sent", "dropping"} /\ task'[k].answer \in {"204", "409"} => Over(k)
        /\ task'[k].stage = "dropping" /\ task'[k].answer \in {"none", "401"} => Over(k)
  BY <1>1 DEF AnswersTrue
<1> QED BY <1>1, <1>4, <1>5 DEF AnswersTrue, True, Over

LEMMA OthersAnswers ==
  ASSUME KeepInv, [Next]_vars, \A l \in Lease : ~TaskStep(l)
  PROVE  AnswersTrue'
<1> USE DEF KeepInv
<1>1. /\ host \in [Lease -> {"unclaimed", "active", "dead", "committed"}] /\ task \in [Lease -> Task]
  BY DEF HonourInv, DeliveryInv, TypeOK
<1>2. CASE UNCHANGED task /\ \A k \in Lease : Over(k) => Over(k)'
  BY <1>2 DEF AnswersTrue
<1>3. CASE \E l \in Lease : ThreadStep(l)
  <2>1. PICK l \in Lease : ThreadStep(l)
    BY <1>3
  <2>2. UNCHANGED host /\ \A k \in Lease \ {l} : task'[k] = task[k]
    BY <2>1, ThreadFrame DEF hostVars
  <2>3. task'[l] = task[l] \/ task'[l] = NewTask
    BY <1>1, <2>1 DEF ThreadStep, Register, GiveUpMutex, FencePrior, PassBarrier, AbandonWait, Prepare,
                Exit, ExitLost, ReleaseRefused, ReleaseSlot, Submit, SubmitFails, Discard, queueVars
  <2> QED BY <2>2, <2>3 DEF AnswersTrue, Over, NewTask, NoTask
<1>4. CASE (\E l \in Lease, arrives \in BOOLEAN : Claim(l, arrives)) \/ (\E l \in Lease : Expire(l))
           \/ CloseElsewhere \/ BeatStep \/ Unmoved
  <2>1. UNCHANGED task
    BY <1>4 DEF Claim, Expire, CloseElsewhere, BeatStep, Snapshot, ZombieStop, HandleBeat, BeatReply,
                RelayReply, BeatFails, Unmoved, queueVars
  <2>2. \A k \in Lease : Over(k) => Over(k)'
    BY <1>1, <1>4 DEF Claim, Expire, CloseElsewhere, BeatStep, Snapshot, ZombieStop, HandleBeat, BeatReply,
                RelayReply, BeatFails, Unmoved, hostVars, Over
  <2> QED BY <1>2, <2>1, <2>2
<1>5. CASE \E l \in Lease : HandleReport(l)
  <2>1. PICK l \in Lease : HandleReport(l)
    BY <1>5
  <2>2. host[l] # "unclaimed"
    BY <2>1 DEF HandleReport, HonourInv, DeliveryInv, Honour, AfterThread, GrantedFirst
  <2>3. PICK a : /\ task' = IF At(l, "sent") THEN [task EXCEPT ![l].answer = a] ELSE task
                 /\ a \in {"204", "409"} => host'[l] \in {"dead", "committed"}
    BY <1>1, <2>1, <2>2 DEF HandleReport
  <2>4. \A k \in Lease : Over(k) => Over(k)'
    BY <1>1, <2>1 DEF HandleReport, Over
  <2>5. CASE At(l, "sent")
    <3>1. task'[l].stage = "sent" /\ task'[l].answer = a /\ \A k \in Lease \ {l} : task'[k] = task[k]
      BY <1>1, <2>3, <2>5 DEF At, Task
    <3> QED BY <2>3, <2>4, <3>1 DEF AnswersTrue, Over
  <2>6. CASE ~At(l, "sent")
    BY <1>2, <2>3, <2>4, <2>6
  <2> QED BY <2>5, <2>6
<1>6. CASE Crash
  <2>1. \A k \in Lease : task'[k] \in {NewTask, NoTask, DoneTask}
    BY <1>6 DEF Crash
  <2> QED BY <2>1 DEF AnswersTrue, NewTask, NoTask, DoneTask
<1> QED BY <1>3, <1>4, <1>5, <1>6, LanesApart DEF Next, HostStep

\* No step but the drop of a refused result takes an honoured lease's marker.
LEMMA KeepStep ==
  ASSUME KeepInv, [Next]_vars, NEW l \in Lease, dir.marker = l, host[l] = "active", dir'.marker # l
  PROVE  At(l, "dropping") /\ task[l].answer \in {"413", "4xx"}
<1> USE WorkerAssumption DEF KeepInv
<1>1. CASE \E k \in Lease : Drop(k)
  <2>1. PICK k \in Lease : Drop(k)
    BY <1>1
  <2>2. k = l
    BY <2>1 DEF Drop, At, Live, HonourInv, DeliveryInv, Handover, DirOwned
  <2>3. At(l, "dropping") /\ task[l].answer \in Answers
    BY <2>1, <2>2 DEF Drop, HonourInv, DeliveryInv, TypeOK, Task
  <2> QED BY <2>3 DEF AnswersTrue, At, Over, Answers
<1>2. CASE \E k \in Lease : Prepare(k) \/ Submit(k) \/ SubmitFails(k) \/ Discard(k)
  <2>1. PICK k \in Lease : Prepare(k) \/ Submit(k) \/ SubmitFails(k) \/ Discard(k)
    BY <1>2
  <2>2. CASE Prepare(k)
    <3>1. dir.marker # k /\ mutex = k
      BY <2>2 DEF Prepare, HonourInv, DeliveryInv, Handover, MutexHeld, Inside
    <3>2. mutex \in {None, l}
      BY DEF HonourInv, Honour, HonouredIsLatest
    <3> QED BY <3>1, <3>2
  <2>3. CASE Submit(k) \/ SubmitFails(k)
    <3>1. dir = [owner |-> k, marker |-> None]
      BY <2>3 DEF Submit, SubmitFails, HonourInv, DeliveryInv, Handover, DirOwned, Owning
    <3> QED BY <3>1
  <2>4. CASE Discard(k)
    BY <2>4 DEF Discard, MayDiscard
  <2> QED BY <2>1, <2>2, <2>3, <2>4
<1>3. CASE Crash
  BY <1>3 DEF Crash
<1>4. CASE UNCHANGED dir
  BY <1>4
<1>5. CASE \E k \in Lease : ThreadStep(k) /\ ~Prepare(k) /\ ~Submit(k) /\ ~SubmitFails(k) /\ ~Discard(k)
  BY <1>4, <1>5 DEF ThreadStep, Register, GiveUpMutex, FencePrior, PassBarrier, AbandonWait, Exit,
                ExitLost, ReleaseRefused, ReleaseSlot
<1>6. CASE \E k \in Lease : TaskStep(k) /\ ~Drop(k)
  BY <1>4, <1>6 DEF TaskStep, Arm, BulkDone, BulkLost, BulkCrash, StartReport, Send, ReportLost,
         TransportFails, RetryReport, ReceiveFinal, ReceiveRejection, ReportCrash, Finalize
<1>7. CASE HostStep \/ BeatStep \/ Unmoved
  BY <1>4, <1>7 DEF HostStep, Claim, Expire, CloseElsewhere, HandleReport, BeatStep, Snapshot,
         ZombieStop, HandleBeat, BeatReply, RelayReply, BeatFails, Unmoved
<1> QED BY <1>1, <1>2, <1>3, <1>5, <1>6, <1>7, LanesApart DEF Next

LEMMA InitAnswers ==
  ASSUME Init
  PROVE  AnswersTrue
<1>1. task = [l \in Lease |-> NoTask]
  BY DEF Init
<1>2. \A l \in Lease : task[l].stage = "none"
  BY <1>1 DEF NoTask
<1> QED BY <1>2 DEF AnswersTrue

\* report.py, queue.py: through aborts, retries, condemned attempts and any
\* number of restarts, the marker of a result whose lease the Host honours
\* goes only when the Host has refused the result itself.
THEOREM ResultIsKeptHolds == WaitFitsLease => (Spec => ResultIsKept)
<1> SUFFICES ASSUME WaitFitsLease PROVE Spec => ResultIsKept
  OBVIOUS
<1>1. Init => KeepInv
  BY InitAnswers, InitHonour DEF KeepInv
<1>2. KeepInv /\ [Next]_vars => KeepInv'
  <2> SUFFICES ASSUME KeepInv, [Next]_vars PROVE KeepInv'
    OBVIOUS
  <2>1. HonourInv'
    BY NextHonour DEF KeepInv
  <2>2. AnswersTrue'
    BY TaskAnswers, OthersAnswers
  <2> QED BY <2>1, <2>2 DEF KeepInv
<1>3. KeepInv /\ [Next]_vars
        => [\A l \in Lease : dir.marker = l /\ host[l] = "active" /\ dir'.marker # l
              => At(l, "dropping") /\ task[l].answer \in {"413", "4xx"}]_vars
  BY KeepStep
<1> QED BY <1>1, <1>2, <1>3, PTL DEF Spec, ResultIsKept

=============================================================================
