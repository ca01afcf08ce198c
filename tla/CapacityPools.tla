---------------------------- MODULE CapacityPools ----------------------------
(***************************************************************************)
(* Who may start, when slots are few: the local code pool with its flush   *)
(* of buffered claims, the batch claim of Workers, and the limits of a     *)
(* node, which both of them and the operator's settings share.             *)
(*                                                                         *)
(* Several jobs of one workspace, one node of each.  Jobs are numbered in  *)
(* the order of their lock keys.  A claim transaction sees the rows others *)
(* have committed and its own writes (READ COMMITTED); its locks are held  *)
(* to its commit.                                                          *)
(***************************************************************************)
EXTENDS Integers, FiniteSets

CONSTANTS
  Code, Agent,      \* the jobs, by the kind of their node
  Key, KeyOf,       \* node keys, and the key of each job's node
  Worker,           \* Agent Workers
  Poll,             \* claim requests of Workers under way at once
  Local,            \* the poll thread of the Host's workflow worker
  None,             \* nobody, or nothing cached
  NoLimit,          \* no row in workspace_node_limits
  Limits,           \* values an operator may configure
  CodeCapacity,     \* slots of the local code pool
  WorkerSlots,      \* what a Worker declares: executions per kind
  WorkerNodeSlots,  \* what a Worker declares: executions per node key
  WorkspaceAgents,  \* slots of the workspace's Agent pool
  MaxChanges,       \* bound: configurations written
  MaxFaults         \* bound: leases that go overdue, and raced claims

Job == Code \cup Agent
Tx == Poll \cup {Local}

ASSUME PoolAssumption ==
  /\ Job \subseteq Nat /\ IsFiniteSet(Job) /\ Code \cap Agent = {}
  /\ KeyOf \in [Job -> Key]
  /\ Local \notin Poll
  /\ None \notin Worker \cup Tx
  /\ Limits \subseteq Nat \ {0} /\ {NoLimit, None} \cap Nat = {} /\ None # NoLimit
  /\ {CodeCapacity, WorkerSlots, WorkerNodeSlots, WorkspaceAgents, MaxChanges, MaxFaults} \subseteq Nat

VARIABLES
  node,      \* job -> status of its node
  request,   \* job -> state of its agent_execution_requests row
  owner,     \* job -> worker_id of that row, while it takes a slot
  lease,     \* job -> its active lease: none, live, or overdue (past expires_at)
  limit,     \* key -> workspace_node_limits
  route,     \* key -> the limit in the worker's route cache, or None
  stage,     \* transaction -> idle, selected (polls), writing
  by,        \* poll -> the Worker that asks
  todo,      \* transaction -> the jobs it is to claim
  seen,      \* transaction -> the jobs it has come to, whose locks it holds
  got,       \* transaction -> the jobs it has claimed and not committed
  probed,    \* poll -> whether it found a limit row when it began
  view,      \* poll -> the Worker's active executions per kind when it began
  carried,   \* key -> the limit the buffered local claims carry
  pool, ws,  \* who holds the locks code-pool and agent-ws
  bound,     \* history: job -> the limit its lease was granted under
  revived,   \* history: jobs whose lease was renewed after it was overdue
  changes, faults

rows == <<node, request, owner, lease>>
config == <<limit, route, changes>>
txs == <<stage, by, todo, seen, got, probed, view, carried, pool, ws>>
history == <<bound, revived>>
vars == <<rows, config, txs, history, faults>>

Limit == Limits \cup {NoLimit}

----------------------------------------------------------------------------
(* What a transaction reads: the committed rows and its own claims.        *)

OfKey(S, k) == {j \in S : KeyOf[j] = k}

\* The code forms of a lease, 'code' and 'agent:code:%', that are not overdue.
LiveCode == {j \in Code : lease[j] = "live"}
LocalLeases == {j \in Code : lease[j] # "none" /\ request[j] = "none"}
NodeCount(t, k) == Cardinality(OfKey(LiveCode \cup (got[t] \cap Code), k))

Claimed(w) == {j \in Job : request[j] = "claimed" /\ owner[j] = w}
ClaimedAgents == {j \in Agent : request[j] = "claimed"}

IsNext(t, j) == j \in todo[t] \ seen[t] /\ \A i \in todo[t] \ seen[t] : j <= i
JobFree(t, j) == \A u \in Tx \ {t} : j \notin seen[u]
Unlocked(j) == \A u \in Tx : j \notin seen[u]

NoView == [code |-> 0, agent |-> 0]

Init ==
  /\ node = [j \in Job |-> "pending"]
  /\ request = [j \in Job |-> "none"]
  /\ owner = [j \in Job |-> None]
  /\ lease = [j \in Job |-> "none"]
  /\ limit \in [Key -> Limit]
  /\ route = [k \in Key |-> None]
  /\ stage = [t \in Tx |-> "idle"]
  /\ by = [p \in Poll |-> None]
  /\ todo = [t \in Tx |-> {}] /\ seen = [t \in Tx |-> {}] /\ got = [t \in Tx |-> {}]
  /\ probed = [p \in Poll |-> FALSE]
  /\ view = [p \in Poll |-> NoView]
  /\ carried = [k \in Key |-> NoLimit]
  /\ pool = None /\ ws = None
  /\ bound = [j \in Job |-> None] /\ revived = {}
  /\ changes = 0 /\ faults = 0

\* A transaction ends: its locks go, and with a rollback its claims.
EndTx(t) ==
  /\ stage' = [stage EXCEPT ![t] = "idle"]
  /\ todo' = [todo EXCEPT ![t] = {}]
  /\ seen' = [seen EXCEPT ![t] = {}]
  /\ got' = [got EXCEPT ![t] = {}]
  /\ pool' = IF pool = t THEN None ELSE pool
  /\ ws' = IF ws = t THEN None ELSE ws
  /\ carried' = IF t = Local THEN [k \in Key |-> NoLimit] ELSE carried
  /\ by' = [p \in Poll |-> IF p = t THEN None ELSE by[p]]
  /\ probed' = [p \in Poll |-> p # t /\ probed[p]]
  /\ view' = [p \in Poll |-> IF p = t THEN NoView ELSE view[p]]

----------------------------------------------------------------------------
(* The Host's workflow worker.                                             *)

\* agent_claim.py, code_claim.py: a request is queued for a Worker.
Enqueue(j) ==
  /\ node[j] = "pending" /\ request[j] = "none"
  /\ j \notin todo[Local] /\ Unlocked(j)
  /\ request' = [request EXCEPT ![j] = "queued"]
  /\ UNCHANGED <<node, owner, lease, config, txs, history, faults>>

\* resolve_node_route through the cache.
RouteLimit(k) == IF route[k] = None THEN limit[k] ELSE route[k]
RouteExpires(k) ==
  /\ route[k] # None
  /\ route' = [route EXCEPT ![k] = None]
  /\ UNCHANGED <<rows, limit, changes, txs, history, faults>>

\* CapacitySnapshot: what a pass buffers fits what it saw when it began.
FitsSnapshot(S) ==
  /\ Cardinality(S) + Cardinality(LocalLeases \cap LiveCode) <= CodeCapacity
  /\ \A k \in Key : limit[k] # NoLimit /\ OfKey(S, k) # {} =>
       Cardinality(OfKey(S, k)) + Cardinality(OfKey(LiveCode, k)) <= limit[k]

\* claim_executor_node, once per candidate of the pass.
BeginPass ==
  /\ stage[Local] = "idle"
  /\ \E S \in SUBSET {j \in Code : node[j] = "pending" /\ request[j] = "none"} :
       /\ S # {} /\ FitsSnapshot(S)
       /\ todo' = [todo EXCEPT ![Local] = S]
       /\ route' = [k \in Key |-> IF OfKey(S, k) = {} THEN route[k] ELSE RouteLimit(k)]
       /\ carried' = [k \in Key |-> IF OfKey(S, k) = {} THEN NoLimit ELSE RouteLimit(k)]
  /\ stage' = [stage EXCEPT ![Local] = "writing"]
  /\ UNCHANGED <<rows, limit, changes, by, seen, got, probed, view, pool, ws, history, faults>>

\* check_claim_capacity raises on a limit other than the one carried ...
Mismatch(j) == carried[KeyOf[j]] \notin {NoLimit, limit[KeyOf[j]]}

\* ... and otherwise counts.
LocalRoom(j) ==
  /\ Cardinality((LocalLeases \cap LiveCode) \cup got[Local]) < CodeCapacity
  /\ carried[KeyOf[j]] # NoLimit => NodeCount(Local, KeyOf[j]) < carried[KeyOf[j]]

AtLocal(j) ==
  /\ stage[Local] = "writing" /\ IsNext(Local, j)
  /\ pool \in {None, Local} /\ JobFree(Local, j)

\* claim_lease: code-pool, then the job's lock, then the gates.
ClaimLocal(j) ==
  /\ AtLocal(j) /\ ~Mismatch(j)
  /\ pool' = Local
  /\ seen' = [seen EXCEPT ![Local] = @ \cup {j}]
  /\ IF node[j] = "pending" /\ LocalRoom(j)
     THEN /\ got' = [got EXCEPT ![Local] = @ \cup {j}]
          /\ bound' = [bound EXCEPT ![j] = carried[KeyOf[j]]]
     ELSE UNCHANGED <<got, bound>>
  /\ UNCHANGED <<rows, config, stage, by, todo, probed, view, carried, ws, revived, faults>>

\* The ValueError leaves try_claim_many: every claim of the pass rolls back.
AbortPass(j) ==
  /\ AtLocal(j) /\ Mismatch(j)
  /\ EndTx(Local)
  /\ bound' = [i \in Job |-> IF i \in got[Local] THEN None ELSE bound[i]]
  /\ UNCHANGED <<rows, config, revived, faults>>

CommitPass ==
  /\ stage[Local] = "writing" /\ todo[Local] = seen[Local]
  /\ node' = [j \in Job |-> IF j \in got[Local] THEN "running" ELSE node[j]]
  /\ lease' = [j \in Job |-> IF j \in got[Local] THEN "live" ELSE lease[j]]
  /\ EndTx(Local)
  /\ UNCHANGED <<request, owner, config, history, faults>>

----------------------------------------------------------------------------
(* The batch claim of a Worker: a read phase without locks, and a write    *)
(* phase that trusts none of it.                                           *)

OfKind(j, S) == IF j \in Code THEN S \cap Code ELSE S \cap Agent

\* select_batch_candidates: the Worker's declared slots, as read.
FitsWorker(w, S) ==
  /\ \A j \in S : Cardinality(OfKind(j, S)) + Cardinality(OfKind(j, Claimed(w))) <= WorkerSlots
  /\ \A k \in Key : OfKey(S, k) # {} =>
       Cardinality(OfKey(S, k)) + Cardinality(OfKey(Claimed(w), k)) <= WorkerNodeSlots

Select(p) ==
  /\ stage[p] = "idle"
  /\ \E w \in Worker, S \in SUBSET {j \in Job : request[j] = "queued"} :
       /\ S # {} /\ FitsWorker(w, S)
       /\ by' = [by EXCEPT ![p] = w]
       /\ todo' = [todo EXCEPT ![p] = S]
  /\ stage' = [stage EXCEPT ![p] = "selected"]
  /\ UNCHANGED <<rows, config, seen, got, probed, view, carried, pool, ws, history, faults>>

\* Faulty: the row is read without for update.
RowUnlocked(p) == TRUE

\* prepare_claim_view: one write phase per Worker, by the lock of its row.
RowFree(p) == \A q \in Poll \ {p} : ~(stage[q] = "writing" /\ by[q] = by[p])

\* lock_code_pool_for_batch: one probe decides for the whole batch.
LimitProbed(p) == \E j \in todo[p] \cap Code : limit[KeyOf[j]] # NoLimit

Begin(p) ==
  /\ stage[p] = "selected" /\ RowFree(p)
  /\ stage' = [stage EXCEPT ![p] = "writing"]
  /\ view' = [view EXCEPT ![p] = [code |-> Cardinality(Claimed(by[p]) \cap Code),
                                  agent |-> Cardinality(Claimed(by[p]) \cap Agent)]]
  /\ probed' = [probed EXCEPT ![p] = LimitProbed(p)]
  /\ UNCHANGED <<rows, config, by, todo, seen, got, carried, pool, ws, history, faults>>

\* The pool locks it needs, code-pool before agent-ws, before the first job's.
Pooled(p) == (probed[p] => pool = p) /\ (todo[p] \cap Agent # {} => ws = p)

TakePools(p) ==
  /\ stage[p] = "writing" /\ ~Pooled(p)
  /\ IF probed[p] THEN pool = None /\ pool' = p ELSE UNCHANGED pool
  /\ IF todo[p] \cap Agent # {} THEN ws = None /\ ws' = p ELSE UNCHANGED ws
  /\ UNCHANGED <<rows, config, stage, by, todo, seen, got, probed, view, carried, history, faults>>

AtCandidate(p, j) ==
  /\ stage[p] = "writing" /\ Pooled(p)
  /\ IsNext(p, j) /\ JobFree(p, j)

\* admit_candidate, workspace_agent_admits, worker_node_admits.
WorkerRoom(p, j) ==
  /\ IF j \in Code THEN view[p].code + Cardinality(got[p] \cap Code) < WorkerSlots
                    ELSE view[p].agent + Cardinality(got[p] \cap Agent) < WorkerSlots
  /\ Cardinality(OfKey(Claimed(by[p]) \cup got[p], KeyOf[j])) < WorkerNodeSlots
WorkspaceRoom(p, j) ==
  j \in Agent => Cardinality(ClaimedAgents \cup (got[p] \cap Agent)) < WorkspaceAgents

\* Faulty: the limit is enforced whether or not the code-pool lock is held.
NodeRoomUnlocked(p, j) ==
  j \in Code /\ limit[KeyOf[j]] # NoLimit => NodeCount(p, KeyOf[j]) < limit[KeyOf[j]]

\* code_claim_admits: the limit of now, counted under the code-pool lock only.
NodeRoom(p, j) ==
  j \in Code /\ limit[KeyOf[j]] # NoLimit =>
    probed[p] /\ NodeCount(p, KeyOf[j]) < limit[KeyOf[j]]

\* evaluate_candidate: whoever is refused stays queued.
Evaluate(p, j) ==
  /\ AtCandidate(p, j)
  /\ seen' = [seen EXCEPT ![p] = @ \cup {j}]
  /\ IF request[j] = "queued" /\ WorkerRoom(p, j) /\ WorkspaceRoom(p, j) /\ NodeRoom(p, j)
     THEN /\ got' = [got EXCEPT ![p] = @ \cup {j}]
          /\ bound' = [bound EXCEPT ![j] = IF j \in Code THEN limit[KeyOf[j]] ELSE None]
     ELSE UNCHANGED <<got, bound>>
  /\ UNCHANGED <<rows, config, stage, by, todo, probed, view, carried, pool, ws, revived, faults>>

\* ClaimRacedError (the job was paused): its savepoint rolls back, and the
\* batch ends with the claims it has.
RacedOut(p, j) ==
  /\ AtCandidate(p, j) /\ faults < MaxFaults
  /\ faults' = faults + 1
  /\ seen' = [seen EXCEPT ![p] = @ \cup {j}]
  /\ todo' = [todo EXCEPT ![p] = seen[p] \cup {j}]
  /\ UNCHANGED <<rows, config, stage, by, got, probed, view, carried, pool, ws, history>>

CommitPoll(p) ==
  /\ stage[p] = "writing" /\ Pooled(p) /\ todo[p] = seen[p]
  /\ node' = [j \in Job |-> IF j \in got[p] THEN "running" ELSE node[j]]
  /\ request' = [j \in Job |-> IF j \in got[p] THEN "claimed" ELSE request[j]]
  /\ owner' = [j \in Job |-> IF j \in got[p] THEN by[p] ELSE owner[j]]
  /\ lease' = [j \in Job |-> IF j \in got[p] THEN "live" ELSE lease[j]]
  /\ EndTx(p)
  /\ UNCHANGED <<config, history, faults>>

----------------------------------------------------------------------------
(* How slots come back.                                                    *)

\* The lease of j is gone.
Ended(j) ==
  /\ lease' = [lease EXCEPT ![j] = "none"]
  /\ bound' = [bound EXCEPT ![j] = None]
  /\ revived' = revived \ {j}

\* finish_lease: only status = 'active' counts, not the expiry.
Finish(j) ==
  /\ lease[j] # "none" /\ Unlocked(j)
  /\ Ended(j)
  /\ node' = [node EXCEPT ![j] = "ended"]
  /\ UNCHANGED <<request, owner, config, txs, faults>>

\* mark_done, or the sweep that closes a settled request.
Close(j) ==
  /\ request[j] \in {"claimed", "reporting"} /\ lease[j] = "none"
  /\ request' = [request EXCEPT ![j] = "none"]
  /\ owner' = [owner EXCEPT ![j] = None]
  /\ UNCHANGED <<node, lease, config, txs, history, faults>>

\* release_slot: the process is over, the upload remains.
Release(j) ==
  /\ request[j] = "claimed"
  /\ request' = [request EXCEPT ![j] = "reporting"]
  /\ owner' = [owner EXCEPT ![j] = None]
  /\ UNCHANGED <<node, lease, config, txs, history, faults>>

\* expires_at passes, by starvation or death ...
Overdue(j) ==
  /\ lease[j] = "live" /\ faults < MaxFaults
  /\ lease' = [lease EXCEPT ![j] = "overdue"]
  /\ faults' = faults + 1
  /\ UNCHANGED <<node, request, owner, config, txs, history>>

\* ... heartbeat_lease renews whatever is still active ...
Beat(j) ==
  /\ lease[j] = "overdue"
  /\ lease' = [lease EXCEPT ![j] = "live"]
  /\ revived' = revived \cup {j}
  /\ UNCHANGED <<node, request, owner, config, txs, bound, faults>>

\* ... or a sweep gets there first: expire_stale_leases fails the node,
\* sweep_expired_claims requeues it (or fails it, beyond the limit).
Expire(j) ==
  /\ j \in LocalLeases /\ lease[j] = "overdue" /\ Unlocked(j)
  /\ Ended(j)
  /\ node' = [node EXCEPT ![j] = "ended"]
  /\ UNCHANGED <<request, owner, config, txs, faults>>

Sweep(j) ==
  /\ request[j] \in {"claimed", "reporting"} /\ lease[j] = "overdue" /\ Unlocked(j)
  /\ Ended(j)
  /\ owner' = [owner EXCEPT ![j] = None]
  /\ \/ request' = [request EXCEPT ![j] = "queued"] /\ node' = [node EXCEPT ![j] = "pending"]
     \/ request' = [request EXCEPT ![j] = "none"] /\ node' = [node EXCEPT ![j] = "ended"]
  /\ UNCHANGED <<config, txs, faults>>

\* replace_workspace_node_limits: all rows of the workspace, under code-pool.
SetLimits ==
  /\ pool = None /\ changes < MaxChanges
  /\ limit' \in [Key -> Limit] \ {limit}
  /\ changes' = changes + 1
  /\ UNCHANGED <<rows, route, txs, history, faults>>

----------------------------------------------------------------------------
Pass == BeginPass \/ (\E j \in Code : ClaimLocal(j) \/ AbortPass(j)) \/ CommitPass
PollStep(p) ==
  \/ Select(p) \/ Begin(p) \/ TakePools(p)
  \/ (\E j \in Job : Evaluate(p, j)) \/ CommitPoll(p)

Next ==
  \/ Pass
  \/ \E p \in Poll : PollStep(p) \/ \E j \in Job : RacedOut(p, j)
  \/ \E k \in Key : RouteExpires(k)
  \/ \E j \in Job : Enqueue(j) \/ Finish(j) \/ Close(j) \/ Release(j) \/ Overdue(j) \/ Beat(j)
                       \/ Expire(j) \/ Sweep(j)
  \/ SetLimits

(***************************************************************************)
(* Fairness: the poll loop runs, Workers ask, transactions go on, the      *)
(* route cache has a TTL, executions and their requests end.               *)
(***************************************************************************)
Fairness ==
  /\ WF_vars(Pass)
  /\ \A p \in Poll : WF_vars(PollStep(p))
  /\ \A k \in Key : WF_vars(RouteExpires(k))
  /\ \A j \in Agent : WF_vars(Enqueue(j))
  /\ \A j \in Job : WF_vars(Finish(j)) /\ WF_vars(Close(j))

Spec == Init /\ [][Next]_vars /\ Fairness

----------------------------------------------------------------------------
\* Rows, cache and transactions have their types.
TypeOK ==
  /\ node \in [Job -> {"pending", "running", "ended"}]
  /\ request \in [Job -> {"none", "queued", "claimed", "reporting"}]
  /\ owner \in [Job -> Worker \cup {None}]
  /\ lease \in [Job -> {"none", "live", "overdue"}]
  /\ limit \in [Key -> Limit] /\ route \in [Key -> Limit \cup {None}]
  /\ stage \in [Tx -> {"idle", "selected", "writing"}]
  /\ by \in [Poll -> Worker \cup {None}]
  /\ todo \in [Tx -> SUBSET Job] /\ seen \in [Tx -> SUBSET Job] /\ got \in [Tx -> SUBSET Job]
  /\ probed \in [Poll -> BOOLEAN]
  /\ view \in [Poll -> [code : Nat, agent : Nat]]
  /\ carried \in [Key -> Limit]
  /\ pool \in Tx \cup {None} /\ ws \in Poll \cup {None}
  /\ bound \in [Job -> Limit \cup {None}] /\ revived \subseteq Job
  /\ changes \in Nat /\ faults \in Nat

\* The leases there are or will be, once the claims under way commit.
Held == {j \in Job : lease[j] = "live" \/ \E t \in Tx : j \in got[t]}

\* The leases of a node that were granted under a limit and never overdue.
Limited(k) == {j \in (Held \cap Code) \ revived : KeyOf[j] = k /\ bound[j] \in Nat}

\* claim_node_limit.py, "never over-admitting": local and remote claims count
\* before they insert, and the settings change meanwhile.  Of any leases a
\* node has, one (the last granted) was granted under a limit that allows all.
NodeLimitsHold ==
  \A k \in Key : \A S \in SUBSET Limited(k) :
    S # {} => \E j \in S : Cardinality(S) <= bound[j]

ClaimsOf(w) == Claimed(w) \cup UNION {got[p] : p \in {q \in Poll : by[q] = w}}

\* The slots of the code pool, of each Worker and of the workspace's Agent
\* pool, although views are read once per batch and several batches run.
PoolsHold ==
  /\ Cardinality(((LocalLeases \cap LiveCode) \cup got[Local]) \ revived) <= CodeCapacity
  /\ \A w \in Worker : /\ Cardinality(ClaimsOf(w) \cap Code) <= WorkerSlots
                        /\ Cardinality(ClaimsOf(w) \cap Agent) <= WorkerSlots
                        /\ \A k \in Key : Cardinality(OfKey(ClaimsOf(w), k)) <= WorkerNodeSlots
  /\ Cardinality(ClaimedAgents \cup UNION {got[p] \cap Agent : p \in Poll}) <= WorkspaceAgents

\* routing.py: a stale limit "at worst fails a claim that the next pass
\* retries".  It aborts a whole pass, but the route expires, and every node
\* of the workspace gets its turn.
EveryNodeEnds == \A j \in Job : <>(node[j] = "ended")

\* architecture-evidence-matrix.md, EXEC-CAPACITY-001: the capacity of the
\* code pool is "never exceeded".
LiveWithinCapacity == Cardinality(LocalLeases \cap LiveCode) <= CodeCapacity

\* routing.py: a stale limit costs the claim that carries it, not others.
StaleLimitIsContained ==
  [][\A j \in Code : AbortPass(j) => got[Local] = {}]_vars
=============================================================================
