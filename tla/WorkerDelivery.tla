--------------------------- MODULE WorkerDelivery --------------------------
(***************************************************************************)
(* The Worker's threads, its heartbeat loop, the Host they talk to and a   *)
(* network that loses, delays and repeats.  The Host is the one of the     *)
(* execution core, reduced to what a Worker can observe: a lease is        *)
(* granted, expires, or commits a result, and a terminal request is never  *)
(* granted again.                                                          *)
(***************************************************************************)
EXTENDS WorkerExecution, UploadQueue

\* A claim is granted.  The Worker gets it, or the answer is lost.
Claim(l, arrives) ==
  /\ host[l] = "unclaimed"
  /\ ~closed
  /\ \A k \in Lease : host[k] # "active"
  /\ host' = [host EXCEPT ![l] = "active"]
  /\ pc' = [pc EXCEPT ![l] = IF arrives THEN "mutex" ELSE "over"]
  /\ UNCHANGED <<closed, flying, mutex, prior, dir, beatVars, queueVars, others, crashes>>

\* The sweep: the lease was not renewed in time, because beats were lost or
\* slow.  A claim still waiting for the mutex is younger than its lease's TTL.
Expire(l) ==
  /\ host[l] = "active"
  /\ WaitFitsLease => pc[l] # "mutex"
  /\ host' = [host EXCEPT ![l] = "dead"]
  /\ UNCHANGED <<closed, flying, threadVars, dir, beatVars, queueVars, others, crashes>>

\* Another Worker completes the requeued execution, or it is cancelled.
CloseElsewhere ==
  /\ ~closed
  /\ \A k \in Lease : host[k] # "active"
  /\ \E k \in Lease : host[k] = "dead"
  /\ closed' = TRUE
  /\ UNCHANGED <<host, flying, threadVars, dir, beatVars, queueVars, others, crashes>>

\* The Host handles a report, perhaps long after the Worker gave it up.
HandleReport(l) ==
  /\ l \in flying
  /\ \E answer \in IF host[l] = "active" THEN {"204", "4xx", "413", "401"}
                   ELSE {"409", "401"} :
       /\ host' = IF answer = "204" THEN [host EXCEPT ![l] = "committed"] ELSE host
       /\ closed' = (closed \/ answer = "204")
       /\ task' = IF At(l, "sent") THEN [task EXCEPT ![l].answer = answer] ELSE task
  /\ flying' = flying \ {l}
  /\ UNCHANGED <<threadVars, dir, beatVars, active, depth, others, crashes>>

\* A turn of batch_heartbeat_loop: the entry is sent unless it is quiesced or
\* condemned; one whose process exited unadopted is dropped (the zombie stop).
Snapshot ==
  /\ beat = None /\ entry # None
  /\ ~entry.quiesced /\ ~Condemned(entry)
  /\ beat' = [lease |-> entry.lease, era |-> entry.era, verdict |-> "none"]
  /\ UNCHANGED <<hostVars, threadVars, dir, entry, lost, queueVars, others, crashes>>

ZombieStop ==
  /\ beat = None /\ entry # None
  /\ entry.era = "exec" /\ pc[entry.lease] \in {"exited", "discard"}
  /\ entry' = None
  /\ UNCHANGED <<hostVars, threadVars, dir, lost, beat, queueVars, others, crashes>>

\* batch_heartbeat judges the lease in its transaction.
HandleBeat ==
  /\ beat # None /\ beat.verdict = "none"
  /\ beat' = [beat EXCEPT !.verdict = IF host[beat.lease] = "active" THEN "renewed"
                                      ELSE IF closed THEN "settled" ELSE "lost"]
  /\ UNCHANGED <<hostVars, threadVars, dir, entry, lost, queueVars, others, crashes>>

\* Faulty: the verdict is applied to whatever entry the execution has now.
BeatReplyToEntry ==
  /\ beat # None /\ beat.verdict # "none"
  /\ lost' = IF beat.verdict = "lost" /\ entry # None
             THEN Condemn(entry.lease, entry.era) ELSE lost
  /\ entry' = IF beat.verdict = "settled" THEN None ELSE entry
  /\ beat' = None
  /\ UNCHANGED <<hostVars, threadVars, dir, queueVars, others, crashes>>

\* The reply: a lost lease is condemned through the object that was sent, a
\* settled execution is dropped from the registry whatever its lease.
BeatReply ==
  /\ beat # None /\ beat.verdict # "none"
  /\ lost' = IF beat.verdict = "lost" THEN Condemn(beat.lease, beat.era) ELSE lost
  /\ entry' = IF beat.verdict = "settled" THEN None ELSE entry
  /\ beat' = None
  /\ UNCHANGED <<hostVars, threadVars, dir, queueVars, others, crashes>>

\* Where the supervisor's relay beats, verdicts come back through a file, and
\* a lost one is applied to the entry of that lease, if there still is one.
RelayReply ==
  /\ beat # None /\ beat.verdict # "none"
  /\ lost' = IF beat.verdict = "lost" /\ Mine(beat.lease)
             THEN Condemn(entry.lease, entry.era) ELSE lost
  /\ entry' = IF beat.verdict = "settled" THEN None ELSE entry
  /\ beat' = None
  /\ UNCHANGED <<hostVars, threadVars, dir, queueVars, others, crashes>>

\* The beat or its reply is lost.
BeatFails ==
  /\ beat # None
  /\ beat' = None
  /\ UNCHANGED <<hostVars, threadVars, dir, entry, lost, queueVars, others, crashes>>

\* The executor dies and starts again: restore() queues the result whose
\* marker it finds, clean_work_root() removes a directory without one.
Crash ==
  /\ crashes < MaxCrash
  /\ crashes' = crashes + 1
  /\ pc' = [l \in Lease |-> IF pc[l] = "none" THEN "none" ELSE "over"]
  /\ mutex' = None
  /\ prior' = None
  /\ entry' = None
  /\ beat' = None
  /\ lost' = [l \in Lease |-> [exec |-> FALSE, task |-> FALSE]]
  /\ active' = dir.marker
  /\ depth' = IF dir.marker = None THEN 0 ELSE 1
  /\ task' = [l \in Lease |-> IF l = dir.marker THEN NewTask
                              ELSE IF task[l] = NoTask THEN NoTask ELSE DoneTask]
  /\ others' = 0
  /\ dir' = IF dir.marker = None THEN NoDir ELSE dir
  /\ UNCHANGED hostVars

HostStep ==
  \/ \E l \in Lease, arrives \in BOOLEAN : Claim(l, arrives)
  \/ \E l \in Lease : Expire(l)
  \/ CloseElsewhere
  \/ \E l \in Lease : HandleReport(l)

BeatStep ==
  \/ Snapshot
  \/ ZombieStop
  \/ HandleBeat
  \/ BeatReply
  \/ RelayReply
  \/ BeatFails

Next ==
  \/ HostStep
  \/ BeatStep
  \/ \E l \in Lease : ThreadStep(l)
  \/ \E l \in Lease : TaskStep(l)
  \/ OtherStarts
  \/ OtherEnds
  \/ Crash

(***************************************************************************)
(* Fairness. The Worker's threads run. A request in flight ends: the Host  *)
(* answers or the transport times out, so no answer is promised to a       *)
(* report. The lanes are first in, first out, and reports come one from    *)
(* one finished bulk task: who waits gets a slot if slots are freed again  *)
(* and again. That they are is not assumed: other executions' deliveries   *)
(* may keep theirs for ever. The heartbeat loop ticks at most every 45     *)
(* seconds while the backoffs grow to 60, so a lease whose beats are       *)
(* resumed again and again is snapshotted, and the network lets some of    *)
(* its beats through.                                                      *)
(***************************************************************************)
Fairness ==
  /\ \A l \in Lease : WF_vars(ThreadStep(l))
  /\ WF_vars(\E l \in Lease : TaskStep(l))
  /\ SF_vars(\E l \in Lease : Arm(l) \/ StartReport(l))
  /\ SF_vars(Snapshot) /\ WF_vars(BeatFails)
  /\ SF_vars(HandleBeat) /\ SF_vars(BeatReply \/ RelayReply)
Spec == Init /\ [][Next]_vars /\ Fairness

----------------------------------------------------------------------------
TypeOK ==
  /\ host \in [Lease -> {"unclaimed", "active", "dead", "committed"}]
  /\ closed \in BOOLEAN
  /\ flying \subseteq Lease
  /\ pc \in [Lease -> PC]
  /\ mutex \in Opt(Lease)
  /\ prior \in Opt(Lease)
  /\ dir \in Dir
  /\ entry \in Opt(Entry)
  /\ lost \in [Lease -> [exec : BOOLEAN, task : BOOLEAN]]
  /\ active \in Opt(Lease)
  /\ depth \in Nat
  /\ task \in [Lease -> Task]
  /\ beat \in Opt(Beat)
  /\ others \in 0..Lanes
  /\ crashes \in 0..MaxCrash

\* ownership.py, handoff.py: whoever may create, read or remove files of the
\* shared directory is alone with it, and finds it its own: a running attempt
\* its owner marker, a delivery its pending marker.
Uses(l) == Live(l) \/ pc[l] \in {"prepare", "running", "exited", "submit", "discard"}
DirectoryIsExclusive ==
  /\ \A k, l \in Lease : Uses(k) /\ Uses(l) => k = l
  /\ \A l \in Lease :
       /\ pc[l] \in {"running", "exited", "submit"} => dir = [owner |-> l, marker |-> None]
       /\ Live(l) /\ ~At(l, "finalize") => dir.marker = l

\* heartbeat_batch.py: events are set for dead leases only ("a healthy
\* re-claim cannot be mis-condemned"), wherever the verdict comes from: a
\* beat, a displaced entry, an upload that meets a newer one, the barrier.
LiveLeaseNotCondemned ==
  \A l \in Lease : host[l] = "active" => ~lost[l].exec /\ ~lost[l].task

\* A lease the Host still honours is beaten for as long as its attempt works
\* on it: no other attempt's cleanup takes its entry away, and it is paused
\* only while its own report is in flight.
OwnedLeaseIsBeaten ==
  \A l \in Lease : host[l] = "active" =>
    /\ pc[l] \in {"fence", "waiting", "prepare", "running"} => Mine(l) /\ ~entry.quiesced
    /\ task[l].stage \in {"bulk", "ready", "backoff", "rewriting"} => Mine(l) /\ ~entry.quiesced
    /\ task[l].stage \in {"loop", "sent"} => Mine(l)

\* handoff.py: the slot holds the one unfinished delivery and the depth the
\* claim loop throttles on counts it, through failed submits and restarts.
HandoffCounts ==
  /\ \A l \in Lease : Live(l) <=> active = l
  /\ depth = IF active = None THEN 0 ELSE 1

\* A result whose lease the Host still honours is not thrown away: its marker
\* goes only after the Host refused the result itself.
ResultIsKept ==
  [][\A l \in Lease : dir.marker = l /\ host[l] = "active" /\ dir'.marker # l
        => At(l, "dropping") /\ task[l].answer \in {"413", "4xx"}]_vars

\* Other executions' deliveries never come to hold all the lanes for good.
\* report_task keeps its slot while it retries, so this is not the code's
\* doing: a Host that honours Lanes other leases and answers none of their
\* reports breaks it.
LanesMove == []<>(others < Lanes)

\* handoff.py: "condemn a prior lease and wait through its complete filesystem
\* teardown": while the lanes move the wait ends, even if the Host never
\* answers a report of this execution.
BarrierOpens == LanesMove => \A l \in Lease : pc[l] = "waiting" ~> pc[l] # "waiting"

\* report.py: no delivery retries for ever under a dead lease.  While the lanes
\* move the beat plane ends it although every report fails, unless the
\* execution is closed.
DeadDeliveryEnds ==
  LanesMove => \A l \in Lease : Live(l) /\ host[l] = "dead" ~> ~Live(l) \/ closed

\* queue.py: "A lost lease is terminal and should stop prepare/transfer
\* promptly."  Without LanesMove it may never stop: only a task that got its
\* slot looks.
CondemnedEnds == \A l \in Lease : Live(l) /\ lost[l].task ~> ~(Live(l) /\ lost[l].task)
=============================================================================
