-------------------------- MODULE TransactionLocks --------------------------
(***************************************************************************)
(* PostgreSQL's locks as the Host's transactions take them: job-mutation   *)
(* advisory locks, request rows and lease rows.  A transaction holds what  *)
(* it has taken until it commits or aborts; it waits for one lock at a     *)
(* time.  Executions are numbered in the order of execution_id and each    *)
(* belongs to the job of its number; there are other jobs.                 *)
(***************************************************************************)
EXTENDS Integers, FiniteSets, SequencesExt

CONSTANTS
  Execs,      \* how many executions
  Jobs,       \* how many jobs
  HashSpace,  \* how many lock keys hashtext('job-mutation:' || id) has
  Subs,       \* how many result commits
  MaxBegun,   \* bound: how often a heartbeat, a sweep, a claim batch begins
  None

ASSUME LockAssumption ==
  /\ {Execs, Jobs, HashSpace, Subs, MaxBegun} \subseteq Nat \ {0}
  /\ Execs <= Jobs
  /\ None \notin Int

VARIABLES
  holder,   \* lock -> the transaction that holds it, or None
  plan,     \* transaction -> the locks it has still to take; None outside one
  begun     \* how often the Host's other batches have begun

lockVars == <<holder, plan, begun>>

Exec == 1..Execs
Sub == 1..Subs
Writer == 0
Heartbeat == -1
Sweep == -2
Claim == -3
Background == {Heartbeat, Sweep, Claim}
Tx == Background \cup {Writer} \cup Sub

\* hashtext: two jobs may have the same key, and its order is not theirs.
JobKey(job) == job % HashSpace

Job(j) == <<"job", JobKey(j)>>
Request(e) == <<"request", e>>
Lease(e) == <<"lease", e>>
Lock == {Job(j) : j \in 1..Jobs} \cup {Request(e) : e \in Exec} \cup {Lease(e) : e \in Exec}

ASSUME NoneIsNoPlan == None \notin Seq(Lock)

Each(F(_), s) == [i \in 1..Len(s) |-> F(s[i])]

\* A set as a sequence: each member at the rank of those before it.
Ordered(S, before) ==
  [p \in 1..Cardinality(S) |-> CHOOSE a \in S : Cardinality({b \in S : <<b, a>> \in before}) = p - 1]

Ascending(S) == Ordered(S, {e \in S \X S : e[1] < e[2]})

InExecutionOrder(S) == Ascending(S)

\* Faulty: batches walk their jobs by id, whatever lock a job has.
InJobOrder(S) == Ascending(S)

\* job_mutation_lock_keys: the one order (lock key, job id) of every batch.
InLockOrder(S) ==
  Ordered(S, {e \in S \X S : \/ JobKey(e[1]) < JobKey(e[2])
                             \/ JobKey(e[1]) = JobKey(e[2]) /\ e[1] < e[2]})

----------------------------------------------------------------------------
LocksInit ==
  /\ holder = [l \in Lock |-> None]
  /\ plan = [t \in Tx |-> None]
  /\ begun = [t \in Background |-> 0]

Idle(t) == plan[t] = None
Ready(t) == plan[t] = <<>>
Working(t) == ~Idle(t) /\ ~Ready(t)

\* Take the next lock, which may be one's own already.
TakeLock(t) ==
  /\ Working(t)
  /\ holder[Head(plan[t])] \in {None, t}
  /\ holder' = [holder EXCEPT ![Head(plan[t])] = t]
  /\ plan' = [plan EXCEPT ![t] = Tail(@)]
  /\ UNCHANGED begun

\* Commit or rollback: the locks go with the transaction.
Released(t) == [l \in Lock |-> IF holder[l] = t THEN None ELSE holder[l]]
End(t) == holder' = Released(t) /\ plan' = [plan EXCEPT ![t] = None] /\ UNCHANGED begun

\* Who a transaction is waiting for, and the cycles of waiting ones.
Blocker(t) == IF Working(t) THEN holder[Head(plan[t])] ELSE None
Waiting == {t \in Tx : Blocker(t) \notin {None, t}}
Cycles == {S \in SUBSET Waiting : S # {} /\ {Blocker(t) : t \in S} = S}
=============================================================================
