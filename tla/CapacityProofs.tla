--------------------------- MODULE CapacityProofs ---------------------------
(***************************************************************************)
(* No slot is given twice, proved for any jobs, Workers, polls, limits and *)
(* any number of configuration writes.                                     *)
(***************************************************************************)
EXTENDS CapacityPools, FiniteSetTheorems, TLAPS

LEMMA Counts == ASSUME NEW S \in SUBSET Job PROVE IsFiniteSet(S) /\ Cardinality(S) \in Nat
  BY PoolAssumption, FS_Subset, FS_CardinalityType

LEMMA CountsAgree ==
  ASSUME NEW S \in SUBSET Job, NEW T \in SUBSET S
  PROVE  Cardinality(T) <= Cardinality(S)
  BY Counts, FS_Subset

LEMMA OneMore ==
  ASSUME NEW S \in SUBSET Job, NEW j \in Job
  PROVE  Cardinality(S \cup {j}) <= Cardinality(S) + 1
  BY Counts, FS_AddElement

\* TypeOK in two parts: the rows with what is cached or recorded of them, and the transactions.
RowsTyped ==
  /\ node \in [Job -> {"pending", "running", "ended"}]
  /\ request \in [Job -> {"none", "queued", "claimed", "reporting"}]
  /\ owner \in [Job -> Worker \cup {None}]
  /\ lease \in [Job -> {"none", "live", "overdue"}]
  /\ limit \in [Key -> Limit] /\ route \in [Key -> Limit \cup {None}]
  /\ bound \in [Job -> Limit \cup {None}] /\ revived \subseteq Job
  /\ changes \in Nat /\ faults \in Nat

TxsTyped ==
  /\ stage \in [Tx -> {"idle", "selected", "writing"}]
  /\ by \in [Poll -> Worker \cup {None}]
  /\ todo \in [Tx -> SUBSET Job] /\ seen \in [Tx -> SUBSET Job] /\ got \in [Tx -> SUBSET Job]
  /\ probed \in [Poll -> BOOLEAN]
  /\ view \in [Poll -> [code : Nat, agent : Nat]]
  /\ carried \in [Key -> Limit]
  /\ pool \in Tx \cup {None} /\ ws \in Poll \cup {None}

LEMMA TypeParts == (TypeOK <=> RowsTyped /\ TxsTyped) /\ (TypeOK' <=> RowsTyped' /\ TxsTyped')
  BY DEF TypeOK, RowsTyped, TxsTyped

LEMMA SameTxs == ASSUME TxsTyped, UNCHANGED txs PROVE TxsTyped'
  BY DEF TxsTyped, txs

LEMMA EndTxType ==
  ASSUME TxsTyped, NEW t \in Tx, EndTx(t)
  PROVE  TxsTyped'
<1>1. probed' \in [Poll -> BOOLEAN]
  BY DEF TxsTyped, EndTx
<1>2. view' \in [Poll -> [code : Nat, agent : Nat]]
  BY DEF TxsTyped, EndTx, NoView
<1>3. carried' \in [Key -> Limit]
  BY DEF TxsTyped, EndTx, Limit
<1> QED BY <1>1, <1>2, <1>3 DEF TxsTyped, EndTx

LEMMA EndsType ==
  ASSUME TxsTyped, CommitPass \/ (\E j \in Code : AbortPass(j)) \/ (\E p \in Poll : CommitPoll(p))
  PROVE  TxsTyped'
<1>1. PICK t \in Tx : EndTx(t)
  BY DEF CommitPass, AbortPass, CommitPoll, Tx
<1> QED BY <1>1, EndTxType

LEMMA PassType == ASSUME TypeOK, Pass PROVE TypeOK'
<1> USE PoolAssumption DEF RowsTyped, rows, config, history, Tx
<1>t. RowsTyped /\ TxsTyped BY TypeParts
<1>1. CASE BeginPass
  <2>1. carried' \in [Key -> Limit] /\ route' \in [Key -> Limit \cup {None}]
    BY <1>1, <1>t DEF BeginPass, RouteLimit, Limit, TxsTyped
  <2>2. RowsTyped' BY <1>1, <1>t, <2>1 DEF BeginPass
  <2>3. TxsTyped' BY <1>1, <1>t, <2>1 DEF BeginPass, Job, TxsTyped
  <2> QED BY <2>2, <2>3, TypeParts
<1>2. CASE \E j \in Code : ClaimLocal(j)
  <2> PICK j \in Code : ClaimLocal(j) BY <1>2
  <2>1. KeyOf[j] \in Key /\ j \in Job
    BY DEF Job
  <2>2. bound' \in [Job -> Limit \cup {None}] /\ got' \in [Tx -> SUBSET Job]
    <3>1. \/ got' = got /\ bound' = bound
          \/ got' = [got EXCEPT ![Local] = @ \cup {j}] /\ bound' = [bound EXCEPT ![j] = carried[KeyOf[j]]]
      BY DEF ClaimLocal
    <3>2. carried[KeyOf[j]] \in Limit \cup {None}
      BY <1>t, <2>1 DEF TxsTyped
    <3> QED BY <1>t, <2>1, <3>1, <3>2 DEF TxsTyped
  <2>3. RowsTyped' BY <1>t, <2>2 DEF ClaimLocal
  <2>4. TxsTyped' BY <1>t, <2>1, <2>2 DEF ClaimLocal, TxsTyped
  <2> QED BY <2>3, <2>4, TypeParts
<1>3. CASE \E j \in Code : AbortPass(j)
  <2> PICK j \in Code : AbortPass(j) BY <1>3
  <2>1. bound' \in [Job -> Limit \cup {None}]
    BY <1>t DEF AbortPass, TxsTyped
  <2>2. RowsTyped' BY <1>t, <2>1 DEF AbortPass
  <2>3. TxsTyped' BY <1>3, <1>t, EndsType
  <2> QED BY <2>2, <2>3, TypeParts
<1>4. CASE CommitPass
  <2>1. node' \in [Job -> {"pending", "running", "ended"}] /\ lease' \in [Job -> {"none", "live", "overdue"}]
    BY <1>4, <1>t DEF CommitPass, TxsTyped
  <2>2. RowsTyped' BY <1>4, <1>t, <2>1 DEF CommitPass
  <2>3. TxsTyped' BY <1>4, <1>t, EndsType
  <2> QED BY <2>2, <2>3, TypeParts
<1> QED BY <1>1, <1>2, <1>3, <1>4 DEF Pass

LEMMA PollType == ASSUME TypeOK, NEW p \in Poll, PollStep(p) \/ \E j \in Job : RacedOut(p, j) PROVE TypeOK'
<1> USE PoolAssumption DEF RowsTyped, rows, config, history, Tx
<1>t. RowsTyped /\ TxsTyped BY TypeParts
<1>1. CASE Select(p)
  <2>1. RowsTyped' BY <1>1, <1>t DEF Select
  <2>2. TxsTyped' BY <1>1, <1>t DEF Select, TxsTyped
  <2> QED BY <2>1, <2>2, TypeParts
<1>2. CASE Begin(p)
  <2>1. view' \in [Poll -> [code : Nat, agent : Nat]]
    <3>1. Claimed(by[p]) \cap Code \in SUBSET Job /\ Claimed(by[p]) \cap Agent \in SUBSET Job
      BY DEF Claimed
    <3>2. [code |-> Cardinality(Claimed(by[p]) \cap Code), agent |-> Cardinality(Claimed(by[p]) \cap Agent)]
            \in [code : Nat, agent : Nat]
      BY <3>1, Counts
    <3> QED BY <1>2, <1>t, <3>2 DEF Begin, TxsTyped
  <2>2. probed' \in [Poll -> BOOLEAN]
    BY <1>2, <1>t DEF Begin, LimitProbed, TxsTyped
  <2>3. RowsTyped' BY <1>2, <1>t DEF Begin
  <2>4. TxsTyped' BY <1>2, <1>t, <2>1, <2>2 DEF Begin, TxsTyped
  <2> QED BY <2>3, <2>4, TypeParts
<1>3. CASE TakePools(p)
  <2>1. RowsTyped' BY <1>3, <1>t DEF TakePools
  <2>2. TxsTyped' BY <1>3, <1>t DEF TakePools, TxsTyped
  <2> QED BY <2>1, <2>2, TypeParts
<1>4. CASE \E j \in Job : Evaluate(p, j)
  <2> PICK j \in Job : Evaluate(p, j) BY <1>4
  <2>1. limit[KeyOf[j]] \in Limit
    BY <1>t
  <2>2. bound' \in [Job -> Limit \cup {None}] /\ got' \in [Tx -> SUBSET Job]
    <3>1. PICK v \in Limit \cup {None} : v = IF j \in Code THEN limit[KeyOf[j]] ELSE None
      BY <2>1
    <3>2. \/ got' = got /\ bound' = bound
          \/ got' = [got EXCEPT ![p] = @ \cup {j}] /\ bound' = [bound EXCEPT ![j] = v]
      BY <3>1 DEF Evaluate
    <3>3. got' \in [Tx -> SUBSET Job]
      <4>1. got \in [Tx -> SUBSET Job] /\ p \in Tx
        BY <1>t DEF TxsTyped
      <4>2. got[p] \cup {j} \in SUBSET Job
        BY <4>1
      <4> HIDE DEF Tx
      <4> QED BY <3>2, <4>1, <4>2
    <3>4. bound' \in [Job -> Limit \cup {None}]
      BY <1>t, <3>2
    <3> QED BY <3>3, <3>4
  <2>3. RowsTyped' BY <1>t, <2>2 DEF Evaluate
  <2>4. TxsTyped' BY <1>t, <2>2 DEF Evaluate, TxsTyped
  <2> QED BY <2>3, <2>4, TypeParts
<1>5. CASE CommitPoll(p)
  <2>1. node' \in [Job -> {"pending", "running", "ended"}] /\ lease' \in [Job -> {"none", "live", "overdue"}]
    BY <1>5, <1>t DEF CommitPoll, TxsTyped
  <2>2. request' \in [Job -> {"none", "queued", "claimed", "reporting"}] /\ owner' \in [Job -> Worker \cup {None}]
    BY <1>5, <1>t DEF CommitPoll, TxsTyped
  <2>3. RowsTyped' BY <1>5, <1>t, <2>1, <2>2 DEF CommitPoll
  <2>4. TxsTyped' BY <1>5, <1>t, EndsType
  <2> QED BY <2>3, <2>4, TypeParts
<1>6. CASE \E j \in Job : RacedOut(p, j)
  <2>1. RowsTyped' BY <1>6, <1>t DEF RacedOut
  <2>2. TxsTyped' BY <1>6, <1>t DEF RacedOut, TxsTyped
  <2> QED BY <2>1, <2>2, TypeParts
<1> QED BY <1>1, <1>2, <1>3, <1>4, <1>5, <1>6 DEF PollStep

SlotStep(j) == Enqueue(j) \/ Finish(j) \/ Close(j) \/ Release(j) \/ Overdue(j) \/ Beat(j) \/ Expire(j) \/ Sweep(j)

LEMMA SlotTxs == ASSUME NEW j \in Job, SlotStep(j) PROVE UNCHANGED <<config, txs>>
  BY DEF SlotStep, Enqueue, Finish, Close, Release, Overdue, Beat, Expire, Sweep

LEMMA SlotType == ASSUME TypeOK, NEW j \in Job, SlotStep(j) PROVE TypeOK'
<1>t. RowsTyped /\ TxsTyped BY TypeParts
<1>1. TxsTyped' BY <1>t, SlotTxs, SameTxs
<1>2. RowsTyped'
  <2> USE SlotTxs, <1>t DEF RowsTyped, config, history
  <2>1. CASE Enqueue(j) \/ Close(j) \/ Release(j)
    BY <2>1 DEF Enqueue, Close, Release
  <2>2. CASE Finish(j) \/ Expire(j)
    BY <2>2 DEF Finish, Expire, Ended
  <2>3. CASE Sweep(j)
    BY <2>3 DEF Sweep, Ended
  <2>4. CASE Overdue(j) \/ Beat(j)
    BY <2>4 DEF Overdue, Beat
  <2> QED BY <2>1, <2>2, <2>3, <2>4 DEF SlotStep
<1> QED BY <1>1, <1>2, TypeParts

ConfigStep == (\E k \in Key : RouteExpires(k)) \/ SetLimits

\* The kinds of step there are.
LEMMA NextCases ==
  ASSUME [Next]_vars
  PROVE  \/ Pass
         \/ \E p \in Poll : PollStep(p) \/ \E j \in Job : RacedOut(p, j)
         \/ \E j \in Job : SlotStep(j)
         \/ ConfigStep
         \/ UNCHANGED vars
  BY DEF Next, SlotStep, ConfigStep

LEMMA TypeInit == ASSUME Init PROVE TypeOK
  BY PoolAssumption DEF Init, TypeOK, NoView, Limit, Tx

LEMMA TypeNext == ASSUME TypeOK, [Next]_vars PROVE TypeOK'
<1>1. CASE ConfigStep
  <2>1. UNCHANGED txs
    BY <1>1 DEF ConfigStep, RouteExpires, SetLimits
  <2>2. RowsTyped'
    BY <1>1, TypeParts DEF ConfigStep, RouteExpires, SetLimits, RowsTyped, rows, history
  <2> QED BY <2>1, <2>2, SameTxs, TypeParts
<1>2. CASE UNCHANGED vars
  BY <1>2 DEF TypeOK, vars, rows, config, txs, history
<1> QED BY <1>1, <1>2, NextCases, PassType, PollType, SlotType

\* Rows, cache and transactions of the claim paths have their types.
THEOREM CapacityTypeCorrect == Spec => []TypeOK
<1>1. Init => TypeOK BY TypeInit
<1>2. TypeOK /\ [Next]_vars => TypeOK' BY TypeNext
<1> QED BY <1>1, <1>2, PTL DEF Spec
----------------------------------------------------------------------------
(* The limits of a node.  A claim counts what its transaction can see; that *)
(* is everything, because whoever grants under a limit holds code-pool.     *)

\* Only what a transaction has locked is claimed by it.
GotSeen == \A t \in Tx : got[t] \subseteq seen[t]

\* A claim under way that was granted under a limit holds the code-pool lock.
LockedClaims == \A t \in Tx : \A j \in got[t] \cap Code : bound[j] \in Nat => pool = t

NodeInv == TypeOK /\ GotSeen /\ LockedClaims /\ NodeLimitsHold

\* A step that grants nothing.
LEMMA Quiet ==
  ASSUME NodeLimitsHold,
         \A k \in Key : Limited(k)' \subseteq Limited(k),
         \A k \in Key : \A j \in Limited(k)' : bound'[j] = bound[j]
  PROVE  NodeLimitsHold'
<1> SUFFICES ASSUME NEW k \in Key, NEW S \in SUBSET Limited(k)', S # {}
             PROVE  \E j \in S : Cardinality(S) <= bound'[j]
  BY DEF NodeLimitsHold
<1>1. PICK j \in S : Cardinality(S) <= bound[j]
  BY DEF NodeLimitsHold
<1> QED BY <1>1

\* One grant, under a limit it has counted against or under none.
LEMMA Grant ==
  ASSUME NodeInv, NEW t \in Tx, NEW j \in Code, NEW v \in Limit,
         got' = [got EXCEPT ![t] = @ \cup {j}], bound' = [bound EXCEPT ![j] = v],
         lease' = lease, revived' = revived,
         v \in Nat => pool \in {None, t} /\ NodeCount(t, KeyOf[j]) < v
  PROVE  NodeLimitsHold'
<1>t. /\ got \in [Tx -> SUBSET Job] /\ bound \in [Job -> Limit \cup {None}]
      /\ lease \in [Job -> {"none", "live", "overdue"}] /\ j \in Job /\ KeyOf[j] \in Key
  BY PoolAssumption DEF NodeInv, TypeOK, Job
<1>1. ASSUME NEW k \in Key, NEW i \in Limited(k)', i # j PROVE i \in Limited(k) /\ bound'[i] = bound[i]
  BY <1>1, <1>t DEF Limited, Held
<1> SUFFICES ASSUME NEW k \in Key, NEW S \in SUBSET Limited(k)', S # {}
             PROVE  \E i \in S : Cardinality(S) <= bound'[i]
  BY DEF NodeLimitsHold
<1>2. CASE j \notin S
  <2>1. S \in SUBSET Limited(k) /\ \A i \in S : bound'[i] = bound[i]
    BY <1>1, <1>2
  <2>2. PICK i \in S : Cardinality(S) <= bound[i]
    BY <2>1 DEF NodeInv, NodeLimitsHold
  <2> QED BY <2>1, <2>2
<1>3. CASE j \in S
  <2>1. v \in Nat /\ bound'[j] = v /\ KeyOf[j] = k
    BY <1>3, <1>t DEF Limited
  <2> DEFINE C == OfKey(LiveCode \cup (got[t] \cap Code), k)
  <2>2. ASSUME NEW i \in S \ {j} PROVE i \in C
    <3>1. i \in Limited(k)
      BY <1>1
    <3>2. ASSUME NEW u \in Tx, i \in got[u] PROVE i \in got[t]
      BY <2>1, <3>1, <3>2, PoolAssumption DEF NodeInv, LockedClaims, Limited
    <3> QED BY <3>1, <3>2 DEF Limited, Held, LiveCode, OfKey
  <2>3. C \in SUBSET Job /\ S \in SUBSET Job
    BY <1>t DEF OfKey, LiveCode, Job, Limited, Held
  <2>4. S \ {j} \in SUBSET C
    BY <2>2
  <2>5. Cardinality(S \ {j}) <= Cardinality(C) /\ Cardinality(S) <= Cardinality(S \ {j}) + 1
    <3>1. S = (S \ {j}) \cup {j}
      BY <1>3
    <3> QED BY <2>3, <2>4, <3>1, <1>t, CountsAgree, OneMore
  <2>6. Cardinality(C) < v
    BY <2>1 DEF NodeCount
  <2>7. Cardinality(S) \in Nat /\ Cardinality(S \ {j}) \in Nat /\ Cardinality(C) \in Nat
    BY <2>3, Counts
  <2> QED BY <1>3, <2>1, <2>5, <2>6, <2>7
<1> QED BY <1>2, <1>3

\* A transaction that ends keeps its claims as leases, or drops them.
LEMMA EndLocks ==
  ASSUME TypeOK, GotSeen, LockedClaims, NEW t \in Tx, EndTx(t),
         \A j \in Job : bound'[j] \in {bound[j], None}
  PROVE  GotSeen' /\ LockedClaims'
<1>1. got' = [got EXCEPT ![t] = {}] /\ seen' = [seen EXCEPT ![t] = {}]
  BY DEF EndTx
<1>2. pool' = IF pool = t THEN None ELSE pool
  BY DEF EndTx
<1>3. got \in [Tx -> SUBSET Job] /\ seen \in [Tx -> SUBSET Job]
  BY DEF TypeOK
<1>4. GotSeen'
  BY <1>1, <1>3 DEF GotSeen
<1>5. ASSUME NEW u \in Tx, NEW j \in got'[u] \cap Code, bound'[j] \in Nat PROVE pool' = u
  <2>1. u # t /\ j \in got[u] /\ j \in Job
    BY <1>1, <1>3
  <2>2. bound[j] \in Nat
    BY <1>5, <2>1, PoolAssumption
  <2> QED BY <2>1, <2>2, <1>2 DEF LockedClaims
<1> QED BY <1>4, <1>5 DEF LockedClaims
LEMMA PassNode == ASSUME NodeInv, Pass, TypeOK' PROVE NodeInv'
<1>t. /\ got \in [Tx -> SUBSET Job] /\ seen \in [Tx -> SUBSET Job] /\ todo \in [Tx -> SUBSET Job]
      /\ bound \in [Job -> Limit \cup {None}] /\ lease \in [Job -> {"none", "live", "overdue"}]
      /\ Local \in Tx /\ Code \in SUBSET Job
  BY DEF NodeInv, TypeOK, Tx, Job
<1>1. CASE BeginPass
  <2>1. UNCHANGED <<lease, seen, got, bound, revived, pool>>
    BY <1>1 DEF BeginPass, rows, history
  <2> QED BY <2>1 DEF NodeInv, GotSeen, LockedClaims, NodeLimitsHold, Limited, Held
<1>2. CASE \E j \in Code : ClaimLocal(j)
  <2> PICK j \in Code : ClaimLocal(j) BY <1>2
  <2>1. /\ UNCHANGED <<lease, revived>> /\ pool' = Local /\ pool \in {None, Local}
        /\ seen' = [seen EXCEPT ![Local] = @ \cup {j}]
    BY DEF ClaimLocal, AtLocal, rows
  <2>2. \/ UNCHANGED <<got, bound>>
        \/ /\ got' = [got EXCEPT ![Local] = @ \cup {j}]
           /\ bound' = [bound EXCEPT ![j] = carried[KeyOf[j]]]
           /\ LocalRoom(j)
    BY DEF ClaimLocal
  <2>3. GotSeen'
    BY <1>t, <2>1, <2>2 DEF NodeInv, GotSeen
  <2>4. \A u \in Tx \ {Local} : j \notin got[u]
    BY DEF ClaimLocal, AtLocal, JobFree, NodeInv, GotSeen
  <2>5. ASSUME NEW u \in Tx, NEW i \in got'[u] \cap Code, bound'[i] \in Nat PROVE pool' = u
    <3>1. CASE u = Local
      BY <3>1, <2>1
    <3>2. CASE u # Local
      <4>1. i \in got[u] /\ i # j /\ i \in Job
        BY <3>2, <2>2, <2>4, <1>t
      <4>2. bound[i] \in Nat
        BY <4>1, <2>2, <2>5, <1>t
      <4> QED BY <4>1, <4>2, <3>2, <2>1, PoolAssumption DEF NodeInv, LockedClaims
    <3> QED BY <3>1, <3>2
  <2>6. NodeLimitsHold'
    <3>1. CASE UNCHANGED <<got, bound>>
      BY <3>1, <2>1 DEF NodeInv, NodeLimitsHold, Limited, Held
    <3>2. CASE ~UNCHANGED <<got, bound>>
      <4>1. KeyOf[j] \in Key
        BY <1>t, PoolAssumption
      <4>2. carried[KeyOf[j]] \in Limit
        BY <4>1 DEF NodeInv, TypeOK
      <4>3. carried[KeyOf[j]] \in Nat => NodeCount(Local, KeyOf[j]) < carried[KeyOf[j]]
        BY <3>2, <2>2, PoolAssumption DEF LocalRoom
      <4> QED BY <3>2, <2>1, <2>2, <4>2, <4>3, <1>t, Grant
    <3> QED BY <3>1, <3>2
  <2> QED BY <2>3, <2>5, <2>6 DEF NodeInv, LockedClaims
<1>3. CASE \E j \in Code : AbortPass(j)
  <2> PICK j \in Code : AbortPass(j) BY <1>3
  <2>1. /\ EndTx(Local) /\ UNCHANGED <<lease, revived>>
        /\ bound' = [i \in Job |-> IF i \in got[Local] THEN None ELSE bound[i]]
    BY DEF AbortPass, rows
  <2>2. got' = [got EXCEPT ![Local] = {}]
    BY <2>1 DEF EndTx
  <2>3. GotSeen' /\ LockedClaims'
    BY <1>t, <2>1, EndLocks DEF NodeInv
  <2>4. ASSUME NEW k \in Key, NEW i \in Limited(k)' PROVE i \in Limited(k) /\ bound'[i] = bound[i]
    <3>1. i \in Code /\ i \in Job /\ bound'[i] \in Nat /\ i \in Held' /\ i \notin revived' /\ KeyOf[i] = k
      BY <1>t, <2>4 DEF Limited
    <3>2. bound'[i] = bound[i]
      BY <3>1, <2>1, PoolAssumption
    <3>3. i \in Held
      BY <3>1, <1>t, <2>1, <2>2 DEF Held
    <3> QED BY <3>1, <3>2, <3>3, <2>1 DEF Limited
  <2> QED BY <2>3, <2>4, Quiet DEF NodeInv
<1>4. CASE CommitPass
  <2>1. /\ EndTx(Local) /\ UNCHANGED <<bound, revived>>
        /\ lease' = [j \in Job |-> IF j \in got[Local] THEN "live" ELSE lease[j]]
    BY <1>4 DEF CommitPass, history
  <2>2. got' = [got EXCEPT ![Local] = {}]
    BY <2>1 DEF EndTx
  <2>3. GotSeen' /\ LockedClaims'
    BY <1>t, <2>1, EndLocks DEF NodeInv
  <2>4. Held' \subseteq Held
    BY <1>t, <2>1, <2>2 DEF Held
  <2>5. \A k \in Key : Limited(k)' \subseteq Limited(k) /\ \A j \in Limited(k)' : bound'[j] = bound[j]
    BY <2>1, <2>4 DEF Limited
  <2> QED BY <2>3, <2>5, Quiet DEF NodeInv
<1> QED BY <1>1, <1>2, <1>3, <1>4 DEF Pass

LEMMA PollNode ==
  ASSUME NodeInv, TypeOK', NEW p \in Poll, PollStep(p) \/ \E j \in Job : RacedOut(p, j)
  PROVE  NodeInv'
<1>t. /\ got \in [Tx -> SUBSET Job] /\ seen \in [Tx -> SUBSET Job] /\ todo \in [Tx -> SUBSET Job]
      /\ bound \in [Job -> Limit \cup {None}] /\ lease \in [Job -> {"none", "live", "overdue"}]
      /\ p \in Tx /\ Code \in SUBSET Job
  BY DEF NodeInv, TypeOK, Tx, Job
<1>1. CASE Select(p) \/ Begin(p) \/ \E j \in Job : RacedOut(p, j)
  <2>1. UNCHANGED <<lease, got, bound, revived, pool>> /\ \A t \in Tx : seen[t] \subseteq seen'[t]
    BY <1>1, <1>t DEF Select, Begin, RacedOut, rows, history
  <2> QED BY <2>1 DEF NodeInv, GotSeen, LockedClaims, NodeLimitsHold, Limited, Held
<1>2. CASE TakePools(p)
  <2>1. UNCHANGED <<lease, got, seen, bound, revived>> /\ (pool' = pool \/ pool = None)
    BY <1>2 DEF TakePools, rows, history
  <2>2. GotSeen'
    BY <2>1 DEF NodeInv, GotSeen
  <2>3. \A t \in Tx : t # None
    BY PoolAssumption DEF Tx
  <2>4. LockedClaims'
    BY <1>t, <2>1, <2>3 DEF NodeInv, LockedClaims
  <2>5. \A k \in Key : Limited(k)' = Limited(k)
    BY <2>1 DEF Limited, Held
  <2>6. NodeLimitsHold'
    BY <2>1, <2>5 DEF NodeInv, NodeLimitsHold
  <2> QED BY <2>2, <2>4, <2>6 DEF NodeInv
<1>3. CASE \E j \in Job : Evaluate(p, j)
  <2> PICK j \in Job : Evaluate(p, j) BY <1>3
  <2>1. /\ UNCHANGED <<lease, revived, pool>> /\ seen' = [seen EXCEPT ![p] = @ \cup {j}]
    BY DEF Evaluate, rows
  <2>2. PICK v \in Limit \cup {None} : v = IF j \in Code THEN limit[KeyOf[j]] ELSE None
    BY PoolAssumption DEF NodeInv, TypeOK
  <2>3. \/ UNCHANGED <<got, bound>>
        \/ got' = [got EXCEPT ![p] = @ \cup {j}] /\ bound' = [bound EXCEPT ![j] = v] /\ NodeRoom(p, j)
    BY <2>2 DEF Evaluate
  <2>4. GotSeen'
    BY <1>t, <2>1, <2>3 DEF NodeInv, GotSeen
  <2>5. \A u \in Tx \ {p} : j \notin got[u]
    BY DEF Evaluate, AtCandidate, JobFree, NodeInv, GotSeen
  <2>6. ~UNCHANGED <<got, bound>> /\ v \in Nat =>
           pool = p /\ j \in Code /\ v \in Limit /\ NodeCount(p, KeyOf[j]) < v
    BY <2>2, <2>3, PoolAssumption DEF NodeRoom, Evaluate, AtCandidate, Pooled, Limit
  <2>7. ASSUME NEW u \in Tx, NEW i \in got'[u] \cap Code, bound'[i] \in Nat PROVE pool' = u
    <3>1. CASE UNCHANGED <<got, bound>>
      BY <3>1, <2>1, <2>7 DEF NodeInv, LockedClaims
    <3>2. CASE ~UNCHANGED <<got, bound>> /\ i = j
      <4>1. u = p /\ v \in Nat
        BY <3>2, <2>3, <2>5, <2>7, <1>t
      <4> QED BY <4>1, <3>2, <2>6, <2>1
    <3>3. CASE ~UNCHANGED <<got, bound>> /\ i # j
      <4>1. i \in got[u] /\ bound[i] \in Nat
        BY <3>3, <2>3, <2>7, <1>t
      <4> QED BY <4>1, <2>1 DEF NodeInv, LockedClaims
    <3> QED BY <3>1, <3>2, <3>3
  <2>8. NodeLimitsHold'
    <3>1. CASE UNCHANGED <<got, bound>>
      BY <3>1, <2>1 DEF NodeInv, NodeLimitsHold, Limited, Held
    <3>2. CASE ~UNCHANGED <<got, bound>> /\ j \in Code
      <4>1. v \in Limit
        BY <3>2, <2>2, PoolAssumption DEF NodeInv, TypeOK
      <4> QED BY <3>2, <4>1, <2>1, <2>3, <2>6, <1>t, Grant
    <3>3. CASE ~UNCHANGED <<got, bound>> /\ j \notin Code
      <4>1. ASSUME NEW k \in Key, NEW i \in Limited(k)' PROVE i \in Limited(k) /\ bound'[i] = bound[i]
        BY <3>3, <2>1, <2>3, <1>t, <4>1 DEF Limited, Held
      <4> QED BY <4>1, Quiet DEF NodeInv
    <3> QED BY <3>1, <3>2, <3>3
  <2> QED BY <2>4, <2>7, <2>8 DEF NodeInv, LockedClaims
<1>4. CASE CommitPoll(p)
  <2>1. /\ EndTx(p) /\ UNCHANGED <<bound, revived>>
        /\ lease' = [j \in Job |-> IF j \in got[p] THEN "live" ELSE lease[j]]
    BY <1>4 DEF CommitPoll, history
  <2>2. got' = [got EXCEPT ![p] = {}]
    BY <2>1 DEF EndTx
  <2>3. GotSeen' /\ LockedClaims'
    BY <1>t, <2>1, EndLocks DEF NodeInv
  <2>4. Held' \subseteq Held
    BY <1>t, <2>1, <2>2 DEF Held
  <2>5. \A k \in Key : Limited(k)' \subseteq Limited(k) /\ \A j \in Limited(k)' : bound'[j] = bound[j]
    BY <2>1, <2>4 DEF Limited
  <2> QED BY <2>3, <2>5, Quiet DEF NodeInv
<1> QED BY <1>1, <1>2, <1>3, <1>4 DEF PollStep

LEMMA SlotNode == ASSUME NodeInv, TypeOK', NEW j \in Job, SlotStep(j) PROVE NodeInv'
<1>t. lease \in [Job -> {"none", "live", "overdue"}] /\ bound \in [Job -> Limit \cup {None}]
  BY DEF NodeInv, TypeOK
<1>1. UNCHANGED <<got, seen, pool>>
  BY SlotTxs DEF txs
<1>2. \/ UNCHANGED <<lease, bound, revived>>
      \/ lease' = [lease EXCEPT ![j] = "overdue"] /\ UNCHANGED <<bound, revived>>
      \/ lease' = [lease EXCEPT ![j] = "live"] /\ bound' = bound /\ revived' = revived \cup {j}
      \/ Ended(j)
  BY DEF SlotStep, Enqueue, Finish, Close, Release, Overdue, Beat, Expire, Sweep, history
<1>3. \A i \in Job : bound'[i] \in Nat => bound'[i] = bound[i]
  BY <1>t, <1>2, PoolAssumption DEF Ended
<1>4. ASSUME NEW k \in Key, NEW i \in Limited(k)' PROVE i \in Limited(k) /\ bound'[i] = bound[i]
  <2>1. i \in Code /\ i \in Job /\ i \in Held' /\ i \notin revived' /\ KeyOf[i] = k /\ bound'[i] \in Nat
    BY <1>4 DEF Limited, Job
  <2>2. bound'[i] = bound[i] /\ (i = j => ~Ended(j))
    BY <2>1, <1>3, <1>t, PoolAssumption DEF Ended
  <2>3. i \in Held /\ i \notin revived
    BY <2>1, <2>2, <1>1, <1>2, <1>t DEF Held, Ended
  <2> QED BY <2>1, <2>2, <2>3 DEF Limited
<1>5. GotSeen' /\ LockedClaims'
  BY <1>1, <1>3 DEF NodeInv, GotSeen, LockedClaims, Job
<1> QED BY <1>4, <1>5, Quiet DEF NodeInv

LEMMA NodeNext == ASSUME NodeInv, [Next]_vars PROVE NodeInv'
<1>1. TypeOK' BY TypeNext DEF NodeInv
<1>2. CASE ConfigStep \/ UNCHANGED vars
  <2>1. UNCHANGED <<lease, got, seen, bound, revived, pool>>
    BY <1>2 DEF ConfigStep, RouteExpires, SetLimits, vars, rows, txs, history
  <2> QED BY <1>1, <2>1 DEF NodeInv, GotSeen, LockedClaims, NodeLimitsHold, Limited, Held
<1> QED BY <1>1, <1>2, NextCases, PassNode, PollNode, SlotNode DEF NodeInv

LEMMA NodeInit == ASSUME Init PROVE NodeInv
<1>1. \A k \in Key : Limited(k) = {}
  BY PoolAssumption DEF Init, Limited, Held, Job
<1> QED BY <1>1, TypeInit DEF Init, NodeInv, GotSeen, LockedClaims, NodeLimitsHold

\* A node never runs more executions than some limit they were granted under,
\* although three writers (the local pool, every Worker's batch and the
\* operator) act on what they read.
THEOREM NodeLimitsHonoured == Spec => []NodeLimitsHold
<1>1. Init => NodeInv BY NodeInit
<1>2. NodeInv /\ [Next]_vars => NodeInv' BY NodeNext
<1>3. NodeInv => NodeLimitsHold BY DEF NodeInv
<1> QED BY <1>1, <1>2, <1>3, PTL DEF Spec
----------------------------------------------------------------------------
(* The slots of the pools.  A batch reads its view once; the lock of the    *)
(* Worker's row keeps that view an upper bound until the batch commits.     *)

\* Claims under way belong to write phases, and a Worker has one at a time.
WritingOnly == \A p \in Poll : got[p] # {} => stage[p] = "writing"
RowExclusive ==
  \A p, q \in Poll : stage[p] = "writing" /\ stage[q] = "writing" /\ by[p] = by[q] => p = q

\* What others do to the requests of the Worker only makes room.
ViewHolds ==
  \A p \in Poll : stage[p] = "writing" =>
    /\ Cardinality(Claimed(by[p]) \cap Code) <= view[p].code
    /\ Cardinality(Claimed(by[p]) \cap Agent) <= view[p].agent

\* Whoever claims for the Agent pool holds its lock.
AgentLock == \A p \in Poll : got[p] \cap Agent # {} => ws = p

BatchInv == WritingOnly /\ RowExclusive /\ ViewHolds /\ AgentLock

PoolInv == NodeInv /\ BatchInv /\ PoolsHold

LocalHeld == ((LocalLeases \cap LiveCode) \cup got[Local]) \ revived
AgentsHeld == ClaimedAgents \cup UNION {got[p] \cap Agent : p \in Poll}

\* The sets PoolsHold counts are sets of jobs.
LEMMA HeldAreJobs ==
  ASSUME TypeOK
  PROVE  /\ LocalHeld \in SUBSET Job /\ AgentsHeld \in SUBSET Job
         /\ \A w \in Worker : ClaimsOf(w) \in SUBSET Job
<1>1. got \in [Tx -> SUBSET Job] /\ Code \in SUBSET Job /\ Agent \in SUBSET Job
  BY DEF TypeOK, Job
<1> QED BY <1>1 DEF LocalHeld, AgentsHeld, ClaimsOf, LocalLeases, LiveCode, ClaimedAgents, Claimed, Tx

\* A step that takes no slot.
LEMMA LocalShrinks ==
  ASSUME TypeOK, LocalHeld' \subseteq LocalHeld, Cardinality(LocalHeld) <= CodeCapacity
  PROVE  Cardinality(LocalHeld') <= CodeCapacity
<1>1. LocalHeld \in SUBSET Job /\ LocalHeld' \in SUBSET Job BY HeldAreJobs
<1>2. Cardinality(LocalHeld') <= Cardinality(LocalHeld) BY <1>1, CountsAgree
<1>3. Cardinality(LocalHeld') \in Nat /\ Cardinality(LocalHeld) \in Nat BY <1>1, Counts
<1> QED BY <1>2, <1>3, PoolAssumption

\* The slots of one Worker.
WorkerFits(w) ==
  /\ Cardinality(ClaimsOf(w) \cap Code) <= WorkerSlots
  /\ Cardinality(ClaimsOf(w) \cap Agent) <= WorkerSlots
  /\ \A k \in Key : Cardinality(OfKey(ClaimsOf(w), k)) <= WorkerNodeSlots

LEMMA PoolParts ==
  /\ PoolsHold <=> /\ Cardinality(LocalHeld) <= CodeCapacity
                   /\ \A w \in Worker : WorkerFits(w)
                   /\ Cardinality(AgentsHeld) <= WorkspaceAgents
  /\ PoolsHold' <=> /\ Cardinality(LocalHeld') <= CodeCapacity
                    /\ \A w \in Worker : WorkerFits(w)'
                    /\ Cardinality(AgentsHeld') <= WorkspaceAgents
  BY DEF PoolsHold, LocalHeld, AgentsHeld, WorkerFits

LEMMA WorkerShrinks ==
  ASSUME TypeOK, NEW w \in Worker, ClaimsOf(w)' \subseteq ClaimsOf(w), WorkerFits(w)
  PROVE  WorkerFits(w)'
<1>1. ClaimsOf(w) \in SUBSET Job BY HeldAreJobs
<1>2. ASSUME NEW S \in SUBSET Job, NEW T \in SUBSET S, NEW n \in Nat, Cardinality(S) <= n
      PROVE  Cardinality(T) <= n
  <2>1. Cardinality(T) <= Cardinality(S) /\ Cardinality(T) \in Nat /\ Cardinality(S) \in Nat
    BY Counts, CountsAgree
  <2> QED BY <2>1, <1>2
<1>3. ClaimsOf(w)' \cap Code \in SUBSET (ClaimsOf(w) \cap Code) /\ ClaimsOf(w) \cap Code \in SUBSET Job
  BY <1>1
<1>4. ClaimsOf(w)' \cap Agent \in SUBSET (ClaimsOf(w) \cap Agent) /\ ClaimsOf(w) \cap Agent \in SUBSET Job
  BY <1>1
<1>5. ASSUME NEW k \in Key
      PROVE  OfKey(ClaimsOf(w)', k) \in SUBSET OfKey(ClaimsOf(w), k) /\ OfKey(ClaimsOf(w), k) \in SUBSET Job
  BY <1>1 DEF OfKey
<1>6. WorkerSlots \in Nat /\ WorkerNodeSlots \in Nat BY PoolAssumption
<1>7. Cardinality(ClaimsOf(w)' \cap Code) <= WorkerSlots BY <1>2, <1>3, <1>6 DEF WorkerFits
<1>8. Cardinality(ClaimsOf(w)' \cap Agent) <= WorkerSlots BY <1>2, <1>4, <1>6 DEF WorkerFits
<1>9. ASSUME NEW k \in Key PROVE Cardinality(OfKey(ClaimsOf(w)', k)) <= WorkerNodeSlots
  BY <1>2, <1>5, <1>6 DEF WorkerFits
<1> QED BY <1>7, <1>8, <1>9 DEF WorkerFits, OfKey

LEMMA AgentsShrink ==
  ASSUME TypeOK, AgentsHeld' \subseteq AgentsHeld, Cardinality(AgentsHeld) <= WorkspaceAgents
  PROVE  Cardinality(AgentsHeld') <= WorkspaceAgents
<1>1. AgentsHeld \in SUBSET Job /\ AgentsHeld' \in SUBSET Job BY HeldAreJobs
<1>2. Cardinality(AgentsHeld') <= Cardinality(AgentsHeld) BY <1>1, CountsAgree
<1>3. Cardinality(AgentsHeld') \in Nat /\ Cardinality(AgentsHeld) \in Nat BY <1>1, Counts
<1> QED BY <1>2, <1>3, PoolAssumption

\* One grant to a counted set.
LEMMA RoomFor ==
  ASSUME NEW S \in SUBSET Job, NEW j \in Job, NEW T \in SUBSET (S \cup {j}), NEW n \in Nat, Cardinality(S) < n
  PROVE  Cardinality(T) <= n
<1>1. S \cup {j} \in SUBSET Job OBVIOUS
<1>2. Cardinality(T) <= Cardinality(S \cup {j}) /\ Cardinality(S \cup {j}) <= Cardinality(S) + 1
  BY <1>1, CountsAgree, OneMore
<1>3. Cardinality(T) \in Nat /\ Cardinality(S) \in Nat /\ Cardinality(S \cup {j}) \in Nat
  BY <1>1, Counts
<1> QED BY <1>2, <1>3
\* What others see of the polls: their phases, Workers, views and claims.
PollsSame == \A p \in Poll : /\ stage'[p] = stage[p] /\ by'[p] = by[p]
                             /\ view'[p] = view[p] /\ got'[p] = got[p]

NoNewClaim == \A i \in Job : request'[i] = "claimed" => request[i] = "claimed" /\ owner'[i] = owner[i]


\* A view stays an upper bound while the requests of its Worker only end.
LEMMA ViewKept ==
  ASSUME TypeOK, TypeOK', ViewHolds, NoNewClaim,
         NEW p \in Poll, stage[p] = "writing", by'[p] = by[p], view'[p] = view[p]
  PROVE  /\ Cardinality(Claimed(by[p])' \cap Code) <= view'[p].code
         /\ Cardinality(Claimed(by[p])' \cap Agent) <= view'[p].agent
<1> DEFINE A == Claimed(by[p])
           B == {j \in Job : request'[j] = "claimed" /\ owner'[j] = by'[p]}
<1>1. B \subseteq A /\ A \in SUBSET Job
  BY DEF Claimed, NoNewClaim
<1>2. Cardinality(A \cap Code) <= view[p].code /\ Cardinality(A \cap Agent) <= view[p].agent
  BY DEF ViewHolds
<1>3. view[p].code \in Nat /\ view[p].agent \in Nat
  BY DEF TypeOK
<1> HIDE DEF A, B
<1>4. /\ Cardinality(B \cap Code) <= Cardinality(A \cap Code)
      /\ Cardinality(B \cap Agent) <= Cardinality(A \cap Agent)
  <2>1. A \cap Code \in SUBSET Job /\ A \cap Agent \in SUBSET Job
    BY <1>1
  <2>2. B \cap Code \in SUBSET (A \cap Code) /\ B \cap Agent \in SUBSET (A \cap Agent)
    BY <1>1
  <2> QED BY <2>1, <2>2, CountsAgree
<1>5. /\ Cardinality(A \cap Code) \in Nat /\ Cardinality(A \cap Agent) \in Nat
      /\ Cardinality(B \cap Code) \in Nat /\ Cardinality(B \cap Agent) \in Nat
  <2>1. /\ A \cap Code \in SUBSET Job /\ A \cap Agent \in SUBSET Job
        /\ B \cap Code \in SUBSET Job /\ B \cap Agent \in SUBSET Job
    BY <1>1
  <2> QED BY <2>1, Counts
<1>6. Cardinality(B \cap Code) <= view[p].code /\ Cardinality(B \cap Agent) <= view[p].agent
  BY <1>2, <1>3, <1>4, <1>5
<1>7. B = Claimed(by[p])'
  BY DEF B, Claimed
<1> QED BY <1>6, <1>7

\* A step that claims nothing and leaves the polls as they are.
LEMMA PollsKept ==
  ASSUME TypeOK, TypeOK', BatchInv, PollsSame, NoNewClaim, ws' = ws
  PROVE  BatchInv' /\ (\A w \in Worker : ClaimsOf(w)' \subseteq ClaimsOf(w)) /\ AgentsHeld' \subseteq AgentsHeld
<1>1. WritingOnly' /\ RowExclusive' /\ AgentLock'
  BY DEF BatchInv, PollsSame, WritingOnly, RowExclusive, AgentLock
<1>2. ViewHolds'
  <2> SUFFICES ASSUME NEW p \in Poll, stage'[p] = "writing"
               PROVE  /\ Cardinality(Claimed(by[p])' \cap Code) <= view'[p].code
                      /\ Cardinality(Claimed(by[p])' \cap Agent) <= view'[p].agent
    BY DEF ViewHolds
  <2> QED BY ViewKept DEF BatchInv, PollsSame
<1>3. ASSUME NEW w \in Worker PROVE ClaimsOf(w)' \subseteq ClaimsOf(w)
  BY DEF ClaimsOf, Claimed, NoNewClaim, PollsSame
<1>4. AgentsHeld' \subseteq AgentsHeld
  BY DEF AgentsHeld, ClaimedAgents, NoNewClaim, PollsSame, Job
<1> QED BY <1>1, <1>2, <1>3, <1>4 DEF BatchInv

\* Such a step keeps PoolsHold, if it takes no slot of the local pool either.
LEMMA PollsKeptPools ==
  ASSUME PoolInv, NodeInv', PollsSame, NoNewClaim, ws' = ws, Cardinality(LocalHeld') <= CodeCapacity
  PROVE  PoolInv'
<1>1. TypeOK /\ TypeOK' BY DEF PoolInv, NodeInv
<1>2. BatchInv' /\ (\A w \in Worker : ClaimsOf(w)' \subseteq ClaimsOf(w)) /\ AgentsHeld' \subseteq AgentsHeld
  BY <1>1, PollsKept DEF PoolInv
<1>3. \A w \in Worker : WorkerFits(w)'
  BY <1>1, <1>2, PoolParts, WorkerShrinks DEF PoolInv
<1>4. Cardinality(AgentsHeld') <= WorkspaceAgents
  BY <1>1, <1>2, PoolParts, AgentsShrink DEF PoolInv
<1> QED BY <1>2, <1>3, <1>4, PoolParts DEF PoolInv

LEMMA EndLocal ==
  ASSUME TypeOK, EndTx(Local)
  PROVE  PollsSame /\ ws' = ws /\ got'[Local] = {}
<1>1. Local \in Tx /\ Local \notin Poll /\ ws # Local /\ \A p \in Poll : p \in Tx /\ p # Local
  BY PoolAssumption DEF TypeOK, Tx
<1> QED BY <1>1 DEF EndTx, PollsSame, TypeOK

LEMMA PassPools == ASSUME PoolInv, NodeInv', Pass PROVE PoolInv'
<1>t. /\ TypeOK /\ TypeOK' /\ Local \in Tx /\ Local \notin Poll /\ Cardinality(LocalHeld) <= CodeCapacity
      /\ got \in [Tx -> SUBSET Job] /\ stage \in [Tx -> {"idle", "selected", "writing"}]
      /\ lease \in [Job -> {"none", "live", "overdue"}] /\ Code \in SUBSET Job
      /\ \A p \in Poll : p \in Tx /\ p # Local
  BY PoolParts, PoolAssumption DEF PoolInv, NodeInv, TypeOK, Tx, Job
<1>1. NoNewClaim
  BY DEF Pass, BeginPass, ClaimLocal, AbortPass, CommitPass, rows, NoNewClaim
<1>2. CASE BeginPass
  <2>1. PollsSame /\ ws' = ws /\ UNCHANGED <<request, lease, got, revived>>
    BY <1>2, <1>t DEF BeginPass, PollsSame, rows, history
  <2>2. LocalHeld' = LocalHeld
    BY <2>1 DEF LocalHeld, LocalLeases, LiveCode
  <2> QED BY <1>1, <1>t, <2>1, <2>2, PollsKeptPools
<1>3. CASE \E j \in Code : ClaimLocal(j)
  <2> PICK j \in Code : ClaimLocal(j) BY <1>3
  <2>1. /\ UNCHANGED <<request, lease, revived, stage, by, view, ws>>
        /\ \/ got' = got
           \/ got' = [got EXCEPT ![Local] = @ \cup {j}] /\ LocalRoom(j)
    BY DEF ClaimLocal, rows
  <2>2. PollsSame
    BY <2>1, <1>t DEF PollsSame
  <2>3. Cardinality(LocalHeld') <= CodeCapacity
    <3>1. CASE got' = got
      <4>1. LocalHeld' = LocalHeld
        BY <3>1, <2>1 DEF LocalHeld, LocalLeases, LiveCode
      <4> QED BY <4>1, <1>t
    <3>2. CASE got' = [got EXCEPT ![Local] = @ \cup {j}] /\ LocalRoom(j)
      <4> DEFINE S == (LocalLeases \cap LiveCode) \cup got[Local]
      <4>1. Cardinality(S) < CodeCapacity
        BY <3>2 DEF LocalRoom
      <4>2. S \in SUBSET Job /\ j \in Job
        BY <1>t DEF LocalLeases, LiveCode
      <4>3. LocalHeld' \in SUBSET (S \cup {j})
        BY <3>2, <2>1, <1>t DEF LocalHeld, LocalLeases, LiveCode
      <4> HIDE DEF S
      <4> QED BY <4>1, <4>2, <4>3, RoomFor, PoolAssumption
    <3> QED BY <2>1, <3>1, <3>2
  <2> QED BY <1>1, <1>t, <2>1, <2>2, <2>3, PollsKeptPools
<1>4. CASE (\E j \in Code : AbortPass(j)) \/ CommitPass
  <2>1. EndTx(Local) /\ UNCHANGED <<request, revived>>
    BY <1>4 DEF AbortPass, CommitPass, rows, history
  <2>2. \A j \in Job : lease'[j] = lease[j] \/ j \in got[Local]
    BY <1>4, <1>t DEF AbortPass, CommitPass, rows
  <2>3. PollsSame /\ ws' = ws /\ got'[Local] = {}
    BY <2>1, <1>t, EndLocal
  <2>4. LocalHeld' \subseteq LocalHeld
    BY <2>1, <2>2, <2>3, <1>t DEF LocalHeld, LocalLeases, LiveCode
  <2>5. Cardinality(LocalHeld') <= CodeCapacity
    BY <2>4, <1>t, LocalShrinks
  <2> QED BY <1>1, <1>t, <2>3, <2>5, PollsKeptPools
<1> QED BY <1>2, <1>3, <1>4 DEF Pass

LEMMA SlotPools == ASSUME PoolInv, NodeInv', NEW j \in Job, SlotStep(j) PROVE PoolInv'
<1>t. /\ TypeOK /\ TypeOK' /\ Local \in Tx /\ Cardinality(LocalHeld) <= CodeCapacity
      /\ lease \in [Job -> {"none", "live", "overdue"}] /\ Code \in SUBSET Job
      /\ request \in [Job -> {"none", "queued", "claimed", "reporting"}]
      /\ owner \in [Job -> Worker \cup {None}]
  BY PoolParts DEF PoolInv, NodeInv, TypeOK, Tx, Job
<1>1. PollsSame /\ ws' = ws /\ got' = got
  BY SlotTxs DEF txs, PollsSame
<1>2. NoNewClaim
  BY <1>t DEF SlotStep, Enqueue, Finish, Close, Release, Overdue, Beat, Expire, Sweep, NoNewClaim
<1>3. LocalHeld' \subseteq LocalHeld
  <2>1. CASE Enqueue(j) \/ Release(j) \/ Close(j)
    BY <2>1, <1>1, <1>t DEF Enqueue, Release, Close, LocalHeld, LocalLeases, LiveCode, history
  <2>2. CASE Overdue(j) \/ Beat(j)
    BY <2>2, <1>1, <1>t DEF Overdue, Beat, LocalHeld, LocalLeases, LiveCode, history
  <2>3. CASE Finish(j) \/ Expire(j) \/ Sweep(j)
    <3>1. Ended(j) /\ \A i \in Job \ {j} : request'[i] = request[i]
      BY <2>3, <1>t DEF Finish, Expire, Sweep
    <3>2. j \notin got[Local]
      BY <2>3, <1>t DEF Finish, Expire, Sweep, Unlocked, PoolInv, NodeInv, GotSeen
    <3> QED BY <3>1, <3>2, <1>1, <1>t DEF Ended, LocalHeld, LocalLeases, LiveCode
  <2> QED BY <2>1, <2>2, <2>3 DEF SlotStep
<1>4. Cardinality(LocalHeld') <= CodeCapacity
  BY <1>3, <1>t, LocalShrinks
<1> QED BY <1>1, <1>2, <1>4, PollsKeptPools
\* All a Worker has claimed and not committed is in its one write phase.
LEMMA OneWriter ==
  ASSUME WritingOnly, RowExclusive, NEW p \in Poll, stage[p] = "writing"
  PROVE  UNION {got[q] : q \in {r \in Poll : by[r] = by[p]}} = got[p]
  BY DEF WritingOnly, RowExclusive

LEMMA SelectPools == ASSUME PoolInv, NodeInv', NEW p \in Poll, Select(p) PROVE PoolInv'
<1>t. /\ TypeOK /\ TypeOK' /\ p \in Tx /\ WritingOnly /\ RowExclusive /\ ViewHolds /\ AgentLock
      /\ by \in [Poll -> Worker \cup {None}] /\ stage \in [Tx -> {"idle", "selected", "writing"}]
      /\ \A q \in Poll : q \in Tx
  BY DEF PoolInv, BatchInv, NodeInv, TypeOK, Tx
<1>1. PICK w \in Worker : by' = [by EXCEPT ![p] = w]
  BY DEF Select
<1>2. /\ UNCHANGED <<request, owner, lease, got, view, ws, revived>>
      /\ stage' = [stage EXCEPT ![p] = "selected"] /\ got[p] = {}
  BY <1>t DEF Select, rows, history, WritingOnly
<1>3. NoNewClaim
  BY <1>2 DEF NoNewClaim
<1>4. WritingOnly' /\ RowExclusive' /\ AgentLock'
  BY <1>t, <1>1, <1>2 DEF WritingOnly, RowExclusive, AgentLock
<1>5. ViewHolds'
  <2> SUFFICES ASSUME NEW q \in Poll, stage'[q] = "writing"
               PROVE  /\ Cardinality(Claimed(by[q])' \cap Code) <= view'[q].code
                      /\ Cardinality(Claimed(by[q])' \cap Agent) <= view'[q].agent
    BY DEF ViewHolds
  <2>1. stage[q] = "writing" /\ by'[q] = by[q] /\ view'[q] = view[q]
    BY <1>t, <1>1, <1>2
  <2> QED BY <1>t, <1>3, <2>1, ViewKept
<1>6. ASSUME NEW v \in Worker PROVE ClaimsOf(v)' \subseteq ClaimsOf(v)
  <2>1. \A q \in Poll : by'[q] = v => by[q] = v \/ got[q] = {}
    BY <1>t, <1>1, <1>2
  <2> QED BY <1>2, <2>1 DEF ClaimsOf, Claimed
<1>7. LocalHeld' = LocalHeld /\ AgentsHeld' = AgentsHeld
  BY <1>2 DEF LocalHeld, LocalLeases, LiveCode, AgentsHeld, ClaimedAgents
<1>8. \A v \in Worker : WorkerFits(v)'
  BY <1>t, <1>6, PoolParts, WorkerShrinks DEF PoolInv
<1> QED BY <1>4, <1>5, <1>7, <1>8, PoolParts DEF PoolInv, BatchInv

LEMMA BeginPools == ASSUME PoolInv, NodeInv', NEW p \in Poll, Begin(p) PROVE PoolInv'
<1>t. /\ TypeOK /\ TypeOK' /\ p \in Tx /\ WritingOnly /\ RowExclusive /\ ViewHolds /\ AgentLock
      /\ stage \in [Tx -> {"idle", "selected", "writing"}] /\ view \in [Poll -> [code : Nat, agent : Nat]]
      /\ \A q \in Poll : q \in Tx
  BY DEF PoolInv, BatchInv, NodeInv, TypeOK, Tx
<1>1. /\ UNCHANGED <<request, owner, lease, got, by, ws, revived>> /\ RowFree(p)
      /\ stage' = [stage EXCEPT ![p] = "writing"]
      /\ view' = [view EXCEPT ![p] = [code |-> Cardinality(Claimed(by[p]) \cap Code),
                                      agent |-> Cardinality(Claimed(by[p]) \cap Agent)]]
  BY DEF Begin, rows, history
<1>2. NoNewClaim
  BY <1>1 DEF NoNewClaim
<1>3. WritingOnly' /\ RowExclusive' /\ AgentLock'
  BY <1>t, <1>1 DEF WritingOnly, RowExclusive, AgentLock, RowFree
<1>4. ViewHolds'
  <2> SUFFICES ASSUME NEW q \in Poll, stage'[q] = "writing"
               PROVE  /\ Cardinality(Claimed(by[q])' \cap Code) <= view'[q].code
                      /\ Cardinality(Claimed(by[q])' \cap Agent) <= view'[q].agent
    BY DEF ViewHolds
  <2>1. CASE q = p
    <3>1. Claimed(by[q])' = Claimed(by[p])
      BY <1>1, <2>1 DEF Claimed
    <3>2. Claimed(by[p]) \cap Code \in SUBSET Job /\ Claimed(by[p]) \cap Agent \in SUBSET Job
      BY DEF Claimed
    <3>3. Cardinality(Claimed(by[p]) \cap Code) \in Nat /\ Cardinality(Claimed(by[p]) \cap Agent) \in Nat
      BY <3>2, Counts
    <3>4. /\ view'[q].code = Cardinality(Claimed(by[p]) \cap Code)
          /\ view'[q].agent = Cardinality(Claimed(by[p]) \cap Agent)
      BY <1>t, <1>1, <2>1
    <3> QED BY <3>1, <3>3, <3>4
  <2>2. CASE q # p
    <3>1. stage[q] = "writing" /\ by'[q] = by[q] /\ view'[q] = view[q]
      BY <1>t, <1>1, <2>2
    <3> QED BY <1>t, <1>2, <3>1, ViewKept
  <2> QED BY <2>1, <2>2
<1>5. LocalHeld' = LocalHeld /\ AgentsHeld' = AgentsHeld /\ \A v \in Worker : ClaimsOf(v)' = ClaimsOf(v)
  BY <1>1 DEF LocalHeld, LocalLeases, LiveCode, AgentsHeld, ClaimedAgents, ClaimsOf, Claimed
<1>6. \A v \in Worker : WorkerFits(v)'
  BY <1>t, <1>5, PoolParts, WorkerShrinks DEF PoolInv
<1> QED BY <1>3, <1>4, <1>5, <1>6, PoolParts DEF PoolInv, BatchInv

LEMMA TakePoolsPools ==
  ASSUME PoolInv, NodeInv', NEW p \in Poll, TakePools(p)
  PROVE  PoolInv'
<1>t. TypeOK /\ TypeOK' /\ WritingOnly /\ RowExclusive /\ ViewHolds /\ AgentLock
  BY DEF PoolInv, BatchInv, NodeInv
<1>1. UNCHANGED <<request, owner, lease, got, by, stage, view, revived>> /\ (ws' = ws \/ ws = None)
  BY DEF TakePools, rows, history
<1>2. WritingOnly' /\ RowExclusive' /\ ViewHolds'
  BY <1>t, <1>1 DEF WritingOnly, RowExclusive, ViewHolds, Claimed
<1>3. AgentLock'
  BY <1>t, <1>1, PoolAssumption DEF AgentLock, Tx
<1>4. LocalHeld' = LocalHeld /\ AgentsHeld' = AgentsHeld /\ \A v \in Worker : ClaimsOf(v)' = ClaimsOf(v)
  BY <1>1 DEF LocalHeld, LocalLeases, LiveCode, AgentsHeld, ClaimedAgents, ClaimsOf, Claimed
<1>5. \A v \in Worker : WorkerFits(v)'
  BY <1>t, <1>4, PoolParts, WorkerShrinks DEF PoolInv
<1> QED BY <1>2, <1>3, <1>4, <1>5, PoolParts DEF PoolInv, BatchInv

LEMMA CommitPools == ASSUME PoolInv, NodeInv', NEW p \in Poll, CommitPoll(p) PROVE PoolInv'
<1>t. /\ TypeOK /\ TypeOK' /\ p \in Tx /\ Local \in Tx /\ Local # p
      /\ WritingOnly /\ RowExclusive /\ ViewHolds /\ AgentLock
      /\ by \in [Poll -> Worker \cup {None}] /\ stage \in [Tx -> {"idle", "selected", "writing"}]
      /\ got \in [Tx -> SUBSET Job] /\ view \in [Poll -> [code : Nat, agent : Nat]]
      /\ Code \in SUBSET Job /\ Agent \in SUBSET Job /\ \A q \in Poll : q \in Tx
  BY PoolAssumption DEF PoolInv, BatchInv, NodeInv, TypeOK, Tx, Job
<1>1. /\ request' = [j \in Job |-> IF j \in got[p] THEN "claimed" ELSE request[j]]
      /\ owner' = [j \in Job |-> IF j \in got[p] THEN by[p] ELSE owner[j]]
      /\ lease' = [j \in Job |-> IF j \in got[p] THEN "live" ELSE lease[j]]
      /\ UNCHANGED revived /\ stage[p] = "writing"
  BY DEF CommitPoll, history
<1>2. /\ stage' = [stage EXCEPT ![p] = "idle"] /\ got' = [got EXCEPT ![p] = {}]
      /\ ws' = IF ws = p THEN None ELSE ws
      /\ by' = [q \in Poll |-> IF q = p THEN None ELSE by[q]]
      /\ view' = [q \in Poll |-> IF q = p THEN NoView ELSE view[q]]
  BY DEF CommitPoll, EndTx
<1>3. WritingOnly' /\ RowExclusive' /\ AgentLock'
  BY <1>t, <1>2 DEF WritingOnly, RowExclusive, AgentLock
<1>4. ViewHolds'
  <2> SUFFICES ASSUME NEW q \in Poll, stage'[q] = "writing"
               PROVE  /\ Cardinality(Claimed(by[q])' \cap Code) <= view'[q].code
                      /\ Cardinality(Claimed(by[q])' \cap Agent) <= view'[q].agent
    BY DEF ViewHolds
  <2>1. q # p /\ stage[q] = "writing" /\ by'[q] = by[q] /\ view'[q] = view[q] /\ by[q] # by[p]
    BY <1>t, <1>1, <1>2 DEF RowExclusive
  <2>2. Claimed(by[q])' = Claimed(by[q]) \ got[p]
    BY <2>1, <1>1 DEF Claimed
  <2>3. /\ (Claimed(by[q]) \ got[p]) \cap Code \in SUBSET (Claimed(by[q]) \cap Code)
        /\ (Claimed(by[q]) \ got[p]) \cap Agent \in SUBSET (Claimed(by[q]) \cap Agent)
        /\ Claimed(by[q]) \cap Code \in SUBSET Job /\ Claimed(by[q]) \cap Agent \in SUBSET Job
    BY DEF Claimed
  <2>4. /\ Cardinality((Claimed(by[q]) \ got[p]) \cap Code) <= Cardinality(Claimed(by[q]) \cap Code)
        /\ Cardinality((Claimed(by[q]) \ got[p]) \cap Agent) <= Cardinality(Claimed(by[q]) \cap Agent)
    BY <2>3, CountsAgree
  <2>5. /\ Cardinality((Claimed(by[q]) \ got[p]) \cap Code) \in Nat
        /\ Cardinality((Claimed(by[q]) \ got[p]) \cap Agent) \in Nat
        /\ Cardinality(Claimed(by[q]) \cap Code) \in Nat /\ Cardinality(Claimed(by[q]) \cap Agent) \in Nat
    BY <2>3, Counts
  <2>6. view[q].code \in Nat /\ view[q].agent \in Nat
    BY <1>t
  <2>7. /\ Cardinality(Claimed(by[q]) \cap Code) <= view[q].code
        /\ Cardinality(Claimed(by[q]) \cap Agent) <= view[q].agent
    BY <1>t, <2>1 DEF ViewHolds
  <2> QED BY <2>1, <2>2, <2>4, <2>5, <2>6, <2>7
<1>5. LocalHeld' \subseteq LocalHeld
  <2>1. ASSUME NEW i \in LocalHeld' PROVE i \in LocalHeld
    <3>1. i \in Job /\ i \notin revived /\ (i \in got[Local] \/ (i \in Code /\ lease'[i] = "live" /\ request'[i] = "none"))
      BY <2>1, <1>1, <1>2, <1>t DEF LocalHeld, LocalLeases, LiveCode
    <3> QED BY <3>1, <1>1, <1>t DEF LocalHeld, LocalLeases, LiveCode
  <2> QED BY <2>1
<1>6. AgentsHeld' \subseteq AgentsHeld
  BY <1>t, <1>1, <1>2 DEF AgentsHeld, ClaimedAgents
<1>7. ASSUME NEW v \in Worker PROVE ClaimsOf(v)' \subseteq ClaimsOf(v)
  BY <1>t, <1>1, <1>2, PoolAssumption DEF ClaimsOf, Claimed
<1>8. \A v \in Worker : WorkerFits(v)'
  BY <1>t, <1>7, PoolParts, WorkerShrinks DEF PoolInv
<1>9. Cardinality(LocalHeld') <= CodeCapacity /\ Cardinality(AgentsHeld') <= WorkspaceAgents
  BY <1>t, <1>5, <1>6, PoolParts, LocalShrinks, AgentsShrink DEF PoolInv
<1> QED BY <1>3, <1>4, <1>8, <1>9, PoolParts DEF PoolInv, BatchInv
LEMMA EvaluatePools ==
  ASSUME PoolInv, NodeInv', NEW p \in Poll, NEW j \in Job, Evaluate(p, j)
  PROVE  PoolInv'
<1>t. /\ TypeOK /\ TypeOK' /\ p \in Tx /\ Local \in Tx /\ Local # p
      /\ WritingOnly /\ RowExclusive /\ ViewHolds /\ AgentLock
      /\ got \in [Tx -> SUBSET Job] /\ view \in [Poll -> [code : Nat, agent : Nat]]
      /\ Code \in SUBSET Job /\ Agent \in SUBSET Job /\ Code \cap Agent = {}
      /\ \A q \in Poll : q \in Tx
  BY PoolAssumption DEF PoolInv, BatchInv, NodeInv, TypeOK, Tx, Job
<1>1. /\ UNCHANGED <<request, owner, lease, by, stage, view, ws, revived>>
      /\ stage[p] = "writing" /\ (j \in Agent => ws = p)
  BY DEF Evaluate, AtCandidate, IsNext, Pooled, rows
<1>2. \/ got' = got
      \/ got' = [got EXCEPT ![p] = @ \cup {j}] /\ WorkerRoom(p, j) /\ WorkspaceRoom(p, j)
  BY DEF Evaluate
<1>3. WritingOnly' /\ RowExclusive' /\ ViewHolds'
  BY <1>t, <1>1, <1>2 DEF WritingOnly, RowExclusive, ViewHolds, Claimed
<1>4. AgentLock'
  BY <1>t, <1>1, <1>2 DEF AgentLock
<1>5. LocalHeld' = LocalHeld
  BY <1>t, <1>1, <1>2 DEF LocalHeld, LocalLeases, LiveCode
<1>6. CASE got' = got
  <2>1. AgentsHeld' = AgentsHeld /\ \A v \in Worker : ClaimsOf(v)' = ClaimsOf(v)
    BY <1>1, <1>6 DEF AgentsHeld, ClaimedAgents, ClaimsOf, Claimed
  <2>2. \A v \in Worker : WorkerFits(v)'
    BY <1>t, <2>1, PoolParts, WorkerShrinks DEF PoolInv
  <2> QED BY <1>3, <1>4, <1>5, <2>1, <2>2, PoolParts DEF PoolInv, BatchInv
<1>7. CASE got' = [got EXCEPT ![p] = @ \cup {j}] /\ WorkerRoom(p, j) /\ WorkspaceRoom(p, j)
  <2>1. Cardinality(AgentsHeld') <= WorkspaceAgents
    <3>1. CASE j \in Agent
      <4> DEFINE S == ClaimedAgents \cup (got[p] \cap Agent)
      <4>1. Cardinality(S) < WorkspaceAgents
        BY <1>7, <3>1 DEF WorkspaceRoom
      <4>2. S \in SUBSET Job
        BY <1>t DEF ClaimedAgents
      <4>3. \A q \in Poll \ {p} : got[q] \cap Agent = {}
        BY <1>t, <1>1, <3>1 DEF AgentLock
      <4>4. AgentsHeld' \in SUBSET (S \cup {j})
        BY <1>t, <1>1, <1>7, <4>3 DEF AgentsHeld, ClaimedAgents
      <4> HIDE DEF S
      <4> QED BY <4>1, <4>2, <4>4, RoomFor, PoolAssumption
    <3>2. CASE j \notin Agent
      <4>1. AgentsHeld' \subseteq AgentsHeld
        BY <1>t, <1>1, <1>7, <3>2 DEF AgentsHeld, ClaimedAgents
      <4> QED BY <4>1, <1>t, PoolParts, AgentsShrink DEF PoolInv
    <3> QED BY <3>1, <3>2
  <2>2. ASSUME NEW v \in Worker PROVE WorkerFits(v)'
    <3>1. CASE v # by[p]
      <4>1. ClaimsOf(v)' \subseteq ClaimsOf(v)
        BY <1>t, <1>1, <1>7, <3>1 DEF ClaimsOf, Claimed
      <4> QED BY <4>1, <1>t, PoolParts, WorkerShrinks DEF PoolInv
    <3>2. CASE v = by[p]
      <4> DEFINE C == Claimed(by[p])
      <4>1. ClaimsOf(v)' = C \cup got[p] \cup {j}
        <5>1. UNION {got'[q] : q \in {r \in Poll : by'[r] = by'[p]}} = got'[p]
          BY <1>t, <1>1, <1>3, OneWriter DEF WritingOnly, RowExclusive
        <5>2. ClaimsOf(v)' = Claimed(by[p]) \cup got'[p]
          BY <5>1, <1>1, <3>2 DEF ClaimsOf, Claimed
        <5> QED BY <5>2, <1>7, <1>t
      <4>2. C \in SUBSET Job /\ got[p] \in SUBSET Job
        BY <1>t DEF Claimed
      <4>3. /\ Cardinality(C \cap Code) <= view[p].code /\ Cardinality(C \cap Agent) <= view[p].agent
            /\ view[p].code \in Nat /\ view[p].agent \in Nat
        BY <1>t, <1>1 DEF ViewHolds
      <4>4. \A k \in Key : Cardinality(OfKey(ClaimsOf(v), k)) <= WorkerNodeSlots
        BY PoolParts DEF PoolInv, WorkerFits
      <4>5. Cardinality(OfKey(C \cup got[p], KeyOf[j])) < WorkerNodeSlots
        BY <1>7 DEF WorkerRoom
      <4>6. ClaimsOf(v) = C \cup got[p]
        BY <1>t, <1>1, <3>2, OneWriter DEF ClaimsOf
      <4> HIDE DEF C
      <4>7. ASSUME NEW k \in Key PROVE Cardinality(OfKey(ClaimsOf(v)', k)) <= WorkerNodeSlots
        <5>1. OfKey(C \cup got[p], k) \in SUBSET Job
          BY <4>2 DEF OfKey
        <5>2. CASE k = KeyOf[j]
          <6>1. OfKey(ClaimsOf(v)', k) \in SUBSET (OfKey(C \cup got[p], k) \cup {j})
            BY <4>1 DEF OfKey
          <6> QED BY <6>1, <5>1, <5>2, <4>5, RoomFor, PoolAssumption
        <5>3. CASE k # KeyOf[j]
          <6>1. OfKey(ClaimsOf(v)', k) = OfKey(ClaimsOf(v), k)
            BY <4>1, <4>6, <5>3 DEF OfKey
          <6> QED BY <6>1, <4>4
        <5> QED BY <5>2, <5>3
      <4>8. ASSUME NEW K \in {Code, Agent}, NEW n \in Nat, Cardinality(C \cap K) <= n,
                   j \in K => n + Cardinality(got[p] \cap K) < WorkerSlots,
                   Cardinality(ClaimsOf(v) \cap K) <= WorkerSlots
            PROVE  Cardinality(ClaimsOf(v)' \cap K) <= WorkerSlots
        <5> DEFINE S == (C \cap K) \cup (got[p] \cap K)
        <5>1. C \cap K \in SUBSET Job /\ got[p] \cap K \in SUBSET Job /\ S \in SUBSET Job
          BY <4>2
        <5>2. CASE j \in K
          <6>1. Cardinality(S) <= Cardinality(C \cap K) + Cardinality(got[p] \cap K)
            <7>1. IsFiniteSet(C \cap K) /\ IsFiniteSet(got[p] \cap K) /\ IsFiniteSet((C \cap K) \cap (got[p] \cap K))
              BY <5>1, Counts, FS_Subset
            <7>2. Cardinality(S) = Cardinality(C \cap K) + Cardinality(got[p] \cap K)
                                     - Cardinality((C \cap K) \cap (got[p] \cap K))
              BY <7>1, FS_Union
            <7>3. /\ Cardinality(C \cap K) \in Nat /\ Cardinality(got[p] \cap K) \in Nat
                  /\ Cardinality((C \cap K) \cap (got[p] \cap K)) \in Nat
              BY <7>1, FS_CardinalityType
            <7> QED BY <7>2, <7>3
          <6>2. Cardinality(S) \in Nat /\ Cardinality(C \cap K) \in Nat /\ Cardinality(got[p] \cap K) \in Nat
            BY <5>1, Counts
          <6>3. Cardinality(S) < WorkerSlots
            BY <6>1, <6>2, <4>8, <5>2, PoolAssumption
          <6>4. ClaimsOf(v)' \cap K \in SUBSET (S \cup {j})
            BY <4>1
          <6> HIDE DEF S
          <6> QED BY <6>3, <6>4, <5>1, RoomFor, PoolAssumption
        <5>3. CASE j \notin K
          <6>1. ClaimsOf(v)' \cap K = ClaimsOf(v) \cap K
            BY <4>1, <4>6, <5>3
          <6> QED BY <6>1, <4>8
        <5> QED BY <5>2, <5>3
      <4>9. /\ Cardinality(ClaimsOf(v) \cap Code) <= WorkerSlots
            /\ Cardinality(ClaimsOf(v) \cap Agent) <= WorkerSlots
        BY PoolParts DEF PoolInv, WorkerFits
      <4>10. /\ j \in Code => view[p].code + Cardinality(got[p] \cap Code) < WorkerSlots
             /\ j \in Agent => view[p].agent + Cardinality(got[p] \cap Agent) < WorkerSlots
        BY <1>7, <1>t DEF WorkerRoom
      <4>11. Cardinality(ClaimsOf(v)' \cap Code) <= WorkerSlots
        BY <4>3, <4>8, <4>9, <4>10
      <4>12. Cardinality(ClaimsOf(v)' \cap Agent) <= WorkerSlots
        BY <4>3, <4>8, <4>9, <4>10
      <4> QED BY <4>7, <4>11, <4>12 DEF WorkerFits, OfKey
    <3> QED BY <3>1, <3>2
  <2> QED BY <1>3, <1>4, <1>5, <2>1, <2>2, PoolParts DEF PoolInv, BatchInv
<1> QED BY <1>2, <1>6, <1>7

LEMMA PoolNext == ASSUME PoolInv, [Next]_vars PROVE PoolInv'
<1>1. NodeInv'
  BY NodeNext DEF PoolInv
<1>2. CASE ConfigStep \/ UNCHANGED vars \/ \E p \in Poll, j \in Job : RacedOut(p, j)
  <2>1. UNCHANGED <<rows, got, stage, by, view, ws, revived>>
    BY <1>2 DEF ConfigStep, RouteExpires, SetLimits, RacedOut, vars, txs, history
  <2>2. PollsSame /\ NoNewClaim
    BY <2>1 DEF PollsSame, NoNewClaim, rows
  <2>3. LocalHeld' = LocalHeld
    BY <2>1 DEF rows, LocalHeld, LocalLeases, LiveCode
  <2>4. Cardinality(LocalHeld') <= CodeCapacity
    BY <2>3, PoolParts DEF PoolInv
  <2> QED BY <1>1, <2>1, <2>2, <2>4, PollsKeptPools
<1>3. CASE \E p \in Poll : PollStep(p)
  BY <1>1, <1>3, SelectPools, BeginPools, TakePoolsPools, EvaluatePools, CommitPools DEF PollStep
<1> QED BY <1>1, <1>2, <1>3, NextCases, PassPools, SlotPools

LEMMA PoolInit == ASSUME Init PROVE PoolInv
<1>a. \A j \in Job : request[j] = "none" /\ lease[j] = "none"
  BY DEF Init
<1>b. \A t \in Tx : got[t] = {}
  BY DEF Init
<1>c. LocalHeld = {}
  BY <1>a, <1>b DEF LocalHeld, LocalLeases, LiveCode, Job, Tx
<1>d. AgentsHeld = {}
  BY <1>a, <1>b DEF AgentsHeld, ClaimedAgents, Job, Tx
<1>e. \A w \in Worker : ClaimsOf(w) = {}
  BY <1>a, <1>b DEF ClaimsOf, Claimed, Tx
<1>1. LocalHeld = {} /\ AgentsHeld = {} /\ \A w \in Worker : ClaimsOf(w) = {}
  BY <1>c, <1>d, <1>e
<1>2. BatchInv
  BY PoolAssumption DEF Init, BatchInv, WritingOnly, RowExclusive, ViewHolds, AgentLock, Tx
<1>3. Cardinality({}) = 0
  BY FS_EmptySet
<1>4. \A w \in Worker : WorkerFits(w)
  <2>1. ASSUME NEW w \in Worker, NEW k \in Key PROVE OfKey(ClaimsOf(w), k) = {}
    BY <1>1 DEF OfKey
  <2>2. ASSUME NEW w \in Worker PROVE ClaimsOf(w) \cap Code = {} /\ ClaimsOf(w) \cap Agent = {}
    BY <1>1
  <2> QED BY <2>1, <2>2, <1>3, PoolAssumption DEF WorkerFits
<1>5. Cardinality(LocalHeld) <= CodeCapacity /\ Cardinality(AgentsHeld) <= WorkspaceAgents
  BY <1>1, <1>3, PoolAssumption
<1> QED BY <1>2, <1>4, <1>5, NodeInit, PoolParts DEF PoolInv

\* The slots of the local pool, of every Worker and of the workspace's Agent
\* pool are never overcommitted by claims, although each batch reads its view
\* once and other batches, sweeps and reports run meanwhile.
THEOREM PoolsAreHonoured == Spec => []PoolsHold
<1>1. Init => PoolInv BY PoolInit
<1>2. PoolInv /\ [Next]_vars => PoolInv' BY PoolNext
<1>3. PoolInv => PoolsHold BY DEF PoolInv
<1> QED BY <1>1, <1>2, <1>3, PTL DEF Spec
=============================================================================
