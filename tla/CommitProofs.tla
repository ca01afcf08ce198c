---------------------------- MODULE CommitProofs ----------------------------
(***************************************************************************)
(* The group commit gives every result its true verdict, for any number of *)
(* executions, commits and locks, whatever the batches beside it do and    *)
(* however often PostgreSQL breaks a cycle; and no cycle of waits consists *)
(* of job locks and lease rows alone.                                      *)
(***************************************************************************)
EXTENDS GroupCommit, FiniteSetTheorems, SequenceTheorems, TLAPS

-----------------------------------------------------------------------------
(* The inductive invariant.                                                *)

Item == [by : Sub, kind : {"finish", "mark_done"}]
CallOf == [items : Seq(Item), grouped : BOOLEAN]
Statuses == Parked \cup {"ready", "finished", "closed", "rejected", "error"}
LeaseStates == {"active", "released", "gone"}
RequestStates == {"claimed", "done", "queued"}
Settled == {"finished", "closing", "closed"}

CommitTyped ==
  /\ reports \in [Sub -> Exec]
  /\ lease \in [Exec -> LeaseStates] /\ request \in [Exec -> RequestStates]
  /\ sub \in [Sub -> Statuses]
  /\ queue \in Seq(Item \cup {Sentinel})
  /\ writer \in [at : {"loop", "get", "drain", "dead"}, calls : Seq(CallOf)]
  /\ gate \in [closed : BOOLEAN, stop : BOOLEAN]
  /\ plan = [t \in Tx |-> plan[t]]
Waits(su, pl, item) ==
  /\ pl[item.by] = None
  /\ su[item.by] = IF item.kind = "finish" THEN "finishing" ELSE "closing"
Queued(q, su, pl) == \A i \in DOMAIN q : q[i] # Sentinel => Waits(su, pl, q[i])
Called(c, su, pl) == \A k \in DOMAIN c : \A i \in DOMAIN c[k].items : Waits(su, pl, c[k].items[i])
OnceQueued(q) == \A i, j \in DOMAIN q : q[i].by = q[j].by => i = j
OnceCalled(c) ==
  \A k, l \in DOMAIN c : \A i \in DOMAIN c[k].items, j \in DOMAIN c[l].items :
    c[k].items[i].by = c[l].items[j].by => k = l /\ i = j
Apart(q, c) ==
  \A i \in DOMAIN q, k \in DOMAIN c : \A j \in DOMAIN c[k].items : q[i].by # c[k].items[j].by
Sliced(c) ==
  \A k \in DOMAIN c :
    /\ c[k].items # <<>>
    /\ \A i \in DOMAIN c[k].items : c[k].items[i].kind = c[k].items[1].kind
    /\ ~ c[k].grouped => Len(c[k].items) = 1
Arms ==
  /\ plan[Writer] # None => writer.calls # <<>>
  /\ writer.at = "get" => writer.calls = <<>>
  /\ \A s \in Sub : plan[s] # None => sub[s] \in Parked
  /\ (\E i \in DOMAIN queue : queue[i] = Sentinel) => gate.closed
Truth(su, le) ==
  \A s \in Sub : su[s] \in Settled =>
    /\ le[reports[s]] = "released"
    /\ \A t \in Sub : su[t] \in Settled /\ reports[t] = reports[s] => s = t
CommitInv ==
  /\ CommitTyped
  /\ Queued(queue, sub, plan) /\ Called(writer.calls, sub, plan)
  /\ OnceQueued(queue) /\ OnceCalled(writer.calls) /\ Apart(queue, writer.calls)
  /\ Sliced(writer.calls)
  /\ Arms
  /\ Truth(sub, lease)

-----------------------------------------------------------------------------
(* The rounds of the writer.                                               *)

\* A strict total order on a finite set lines it up.
LEMMA OrderedFacts ==
  ASSUME NEW S, IsFiniteSet(S), NEW R,
         \A a \in S : <<a, a>> \notin R,
         \A a, b \in S : a = b \/ <<a, b>> \in R \/ <<b, a>> \in R,
         \A a, b, c \in S : <<a, b>> \in R /\ <<b, c>> \in R => <<a, c>> \in R,
         NEW q, q = Ordered(S, R)
  PROVE  /\ Cardinality(S) \in Nat /\ q \in Seq(S)
         /\ DOMAIN q = 1..Cardinality(S) /\ Len(q) = Cardinality(S)
         /\ \A p \in DOMAIN q : q[p] \in S
         /\ \A a \in S : \E p \in DOMAIN q : q[p] = a
         /\ \A p, r \in DOMAIN q : p < r => <<q[p], q[r]>> \in R
         /\ \A p, r \in DOMAIN q : q[p] = q[r] => p = r
<1> DEFINE n == Cardinality(S)
           Below(i) == {j \in S : <<j, i>> \in R}
           f == [i \in S |-> Cardinality(Below(i)) + 1]
<1>1. n \in Nat
  BY FS_CardinalityType
<1>2. ASSUME NEW i \in S
      PROVE  /\ IsFiniteSet(Below(i)) /\ Cardinality(Below(i)) \in Nat
             /\ Cardinality(Below(i)) < n
  <2>1. Below(i) \subseteq S /\ i \notin Below(i)
    OBVIOUS
  <2>2. IsFiniteSet(Below(i)) /\ Cardinality(Below(i)) <= n /\ Cardinality(Below(i)) # n
    BY <2>1, FS_Subset
  <2> QED BY <2>2, <1>1, FS_CardinalityType
<1>3. ASSUME NEW i \in S, NEW j \in S, <<i, j>> \in R PROVE Cardinality(Below(i)) < Cardinality(Below(j))
  <2>1. Below(i) \cup {i} \subseteq Below(j) /\ i \notin Below(i)
    BY <1>3
  <2>2. IsFiniteSet(Below(i)) /\ IsFiniteSet(Below(j))
    BY <1>2
  <2>3. /\ Cardinality(Below(i)) \in Nat /\ Cardinality(Below(j)) \in Nat
    BY <1>2
  <2> HIDE DEF Below
  <2>4. Cardinality(Below(i) \cup {i}) = Cardinality(Below(i)) + 1
    BY <2>1, <2>2, FS_AddElement
  <2>5. Cardinality(Below(i) \cup {i}) <= Cardinality(Below(j))
    BY <2>1, <2>2, FS_Subset
  <2> QED BY <2>3, <2>4, <2>5
<1>4. \A i \in S : f[i] = Cardinality(Below(i)) + 1 /\ Cardinality(Below(i)) \in Nat /\ f[i] \in 1..n
  <2>1. \A i \in S : Cardinality(Below(i)) \in Nat /\ Cardinality(Below(i)) < n
    BY <1>2
  <2> HIDE DEF Below, n
  <2> QED BY <1>1, <2>1
<1>5. /\ f \in [S -> 1..n]
      /\ \A i, j \in S : <<i, j>> \in R => f[i] < f[j]
      /\ \A i, j \in S : f[i] = f[j] => i = j
  <2>1. f = [i \in S |-> f[i]]
    OBVIOUS
  <2>2. \A i, j \in S : <<i, j>> \in R => f[i] < f[j]
    <3>1. \A i, j \in S : <<i, j>> \in R => Cardinality(Below(i)) < Cardinality(Below(j))
      BY <1>3
    <3> HIDE DEF Below, f
    <3> QED BY <1>4, <3>1
  <2> HIDE DEF Below, f, n
  <2>3. \A i \in S : f[i] \in Int
    BY <1>1, <1>4
  <2>4. ASSUME NEW i \in S, NEW j \in S, f[i] = f[j] PROVE i = j
    <3>1. ~ (<<i, j>> \in R)
      BY <2>2, <2>3, <2>4
    <3>2. ~ (<<j, i>> \in R)
      BY <2>2, <2>3, <2>4
    <3> QED BY <3>1, <3>2
  <2> QED BY <1>4, <2>1, <2>2, <2>4
<1> HIDE DEF f
<1>6. f \in Injection(S, 1..n)
  BY <1>5 DEF Injection, IsInjective
<1>7. IsFiniteSet(1..n) /\ Cardinality(1..n) = n
  BY <1>1, FS_Interval
<1>8. f \in Surjection(S, 1..n)
  BY <1>6, <1>7, FS_Injection
<1>9. q = [p \in 1..n |-> CHOOSE a \in S : Cardinality(Below(a)) = p - 1]
  BY DEF Ordered
<1>10. ASSUME NEW p \in 1..n PROVE q[p] \in S /\ f[q[p]] = p
  <2>1. PICK i \in S : f[i] = p
    BY <1>8 DEF Surjection
  <2> HIDE DEF Below
  <2>2. Cardinality(Below(i)) = p - 1
    BY <2>1, <1>4
  <2>3. q[p] = CHOOSE a \in S : Cardinality(Below(a)) = p - 1
    BY <1>9
  <2>4. q[p] \in S /\ Cardinality(Below(q[p])) = p - 1
    BY <2>2, <2>3
  <2> QED BY <2>4, <1>1, <1>4
<1>11. DOMAIN q = 1..n /\ q \in Seq(S) /\ Len(q) = n
  <2>1. q = [p \in 1..n |-> q[p]] /\ \A p \in 1..n : q[p] \in S
    BY <1>9, <1>10
  <2> HIDE DEF n
  <2> QED BY <1>1, <2>1
<1>12. \A a \in S : \E p \in 1..n : q[p] = a
  <2>1. \A a \in S : f[a] \in 1..n /\ q[f[a]] = a
    BY <1>4, <1>5, <1>10
  <2> QED BY <2>1
<1>13. \A p, r \in 1..n : p < r => <<q[p], q[r]>> \in R
  <2> SUFFICES ASSUME NEW p \in 1..n, NEW r \in 1..n, p < r PROVE <<q[p], q[r]>> \in R
    OBVIOUS
  <2>1. q[p] \in S /\ q[r] \in S /\ f[q[p]] = p /\ f[q[r]] = r
    BY <1>10
  <2>2. ~ (<<q[r], q[p]>> \in R) /\ q[p] # q[r]
    BY <1>1, <1>5, <2>1
  <2> QED BY <2>1, <2>2
<1>14. \A p, r \in 1..n : q[p] = q[r] => p = r
  BY <1>10
<1> HIDE DEF n
<1> QED BY <1>1, <1>10, <1>11, <1>12, <1>13, <1>14 DEF n

\* Numbers, in ascending order.
LEMMA AscendingFacts ==
  ASSUME NEW S \in SUBSET Int, IsFiniteSet(S), NEW q, q = Ascending(S)
  PROVE  /\ Cardinality(S) \in Nat /\ q \in Seq(S)
         /\ DOMAIN q = 1..Cardinality(S) /\ Len(q) = Cardinality(S)
         /\ \A p \in DOMAIN q : q[p] \in S
         /\ \A a \in S : \E p \in DOMAIN q : q[p] = a
         /\ \A p, r \in DOMAIN q : p < r => q[p] < q[r]
         /\ \A p, r \in DOMAIN q : q[p] = q[r] => p = r
<1> DEFINE R == {e \in S \X S : e[1] < e[2]}
<1>1. q = Ordered(S, R)
  BY DEF Ascending
<1>2. \A a, b \in S : <<a, b>> \in R <=> a < b
  OBVIOUS
<1> HIDE DEF R
<1>3. /\ \A a \in S : <<a, a>> \notin R
      /\ \A a, b \in S : a = b \/ <<a, b>> \in R \/ <<b, a>> \in R
      /\ \A a, b, c \in S : <<a, b>> \in R /\ <<b, c>> \in R => <<a, c>> \in R
  BY <1>2
<1>4. /\ Cardinality(S) \in Nat /\ q \in Seq(S)
      /\ DOMAIN q = 1..Cardinality(S) /\ Len(q) = Cardinality(S)
      /\ \A p \in DOMAIN q : q[p] \in S
      /\ \A a \in S : \E p \in DOMAIN q : q[p] = a
      /\ \A p, r \in DOMAIN q : p < r => <<q[p], q[r]>> \in R
      /\ \A p, r \in DOMAIN q : q[p] = q[r] => p = r
  BY <1>1, <1>3, OrderedFacts
<1> QED BY <1>2, <1>4

\* The items of a kind are items of the batch, and stay apart.
LEMMA OfKindFacts ==
  ASSUME NEW batch \in Seq(Item), NEW k, NEW part, part = OfKind(batch, k)
  PROVE  /\ part \in Seq(Item)
         /\ \A p \in DOMAIN part : part[p].kind = k /\ \E i \in DOMAIN batch : part[p] = batch[i]
         /\ OnceQueued(batch) => OnceQueued(part)
<1>1. Len(batch) \in Nat /\ DOMAIN batch = 1..Len(batch) /\ \A i \in DOMAIN batch : batch[i] \in Item
  OBVIOUS
<1>2. PICK at : at = {i \in DOMAIN batch : batch[i].kind = k}
  OBVIOUS
<1>3. PICK order : order = Ascending(at)
  OBVIOUS
<1>4. part = [p \in DOMAIN order |-> batch[order[p]]]
  BY <1>2, <1>3 DEF OfKind
<1>5. at \in SUBSET Int /\ IsFiniteSet(at)
  <2>1. at \subseteq 1..Len(batch) /\ IsFiniteSet(1..Len(batch))
    BY <1>1, <1>2, FS_Interval
  <2>2. IsFiniteSet(at)
    BY <2>1, FS_Subset
  <2> QED BY <2>1, <2>2
<1>6. /\ Len(order) \in Nat /\ DOMAIN order = 1..Len(order)
      /\ \A p \in DOMAIN order : order[p] \in DOMAIN batch /\ batch[order[p]].kind = k
      /\ \A p, r \in DOMAIN order : order[p] = order[r] => p = r
  <2>1. /\ Cardinality(at) \in Nat /\ DOMAIN order = 1..Cardinality(at) /\ Len(order) = Cardinality(at)
        /\ \A p \in DOMAIN order : order[p] \in at
        /\ \A p, r \in DOMAIN order : order[p] = order[r] => p = r
    BY <1>3, <1>5, AscendingFacts
  <2> QED BY <1>2, <2>1
<1>7. part \in Seq(Item) /\ DOMAIN part = DOMAIN order
  <2>1. \A p \in DOMAIN order : batch[order[p]] \in Item
    BY <1>1, <1>6
  <2> QED BY <1>4, <1>6, <2>1
<1>8. \A p \in DOMAIN part : part[p] = batch[order[p]]
  BY <1>4, <1>7
<1>9. OnceQueued(batch) => OnceQueued(part)
  <2> SUFFICES ASSUME OnceQueued(batch), NEW p \in DOMAIN part, NEW q \in DOMAIN part,
                      part[p].by = part[q].by
               PROVE  p = q
    BY DEF OnceQueued
  <2>1. batch[order[p]].by = batch[order[q]].by
    BY <1>8
  <2>2. order[p] = order[q]
    BY <2>1, <1>6, <1>7 DEF OnceQueued
  <2> QED BY <2>2, <1>6, <1>7
<1> QED BY <1>6, <1>7, <1>8, <1>9

\* A round is calls of one kind each, on items of the batch.
LEMMA CallsFacts ==
  ASSUME NEW batch \in Seq(Item), OnceQueued(batch), NEW c, c = Calls(batch)
  PROVE  /\ c \in Seq(CallOf) /\ Sliced(c) /\ OnceCalled(c)
         /\ \A n \in DOMAIN c : \A i \in DOMAIN c[n].items :
              \E p \in DOMAIN batch : c[n].items[i] = batch[p]
<1> DEFINE call(k) == IF OfKind(batch, k) = <<>> THEN <<>> ELSE <<Call(OfKind(batch, k), TRUE)>>
<1>1. c = call("finish") \o call("mark_done")
  BY DEF Calls
<1>2. ASSUME NEW k \in {"finish", "mark_done"}
      PROVE  /\ call(k) \in Seq(CallOf) /\ Len(call(k)) \in {0, 1}
             /\ Len(call(k)) = 1 =>
                  /\ call(k)[1].items \in Seq(Item) /\ call(k)[1].items # <<>> /\ call(k)[1].grouped
                  /\ OnceQueued(call(k)[1].items)
                  /\ \A p \in DOMAIN call(k)[1].items :
                       /\ call(k)[1].items[p].kind = k
                       /\ \E i \in DOMAIN batch : call(k)[1].items[p] = batch[i]
  <2>1. PICK part : part = OfKind(batch, k)
    OBVIOUS
  <2>2. /\ part \in Seq(Item) /\ OnceQueued(part)
        /\ \A p \in DOMAIN part : part[p].kind = k /\ \E i \in DOMAIN batch : part[p] = batch[i]
    BY <2>1, OfKindFacts
  <2>3. CASE part = <<>>
    BY <2>1, <2>3
  <2>4. CASE part # <<>>
    <3>1. call(k) = <<Call(part, TRUE)>>
      BY <2>1, <2>4
    <3>2. Call(part, TRUE) \in CallOf /\ Call(part, TRUE).items = part /\ Call(part, TRUE).grouped
      BY <2>2 DEF Call, CallOf
    <3> HIDE DEF call
    <3>3. PICK one \in CallOf : call(k) = <<one>> /\ one.items = part /\ one.grouped
      BY <3>1, <3>2
    <3>4. call(k) \in Seq(CallOf) /\ Len(call(k)) = 1 /\ call(k)[1] = one
      BY <3>3
    <3> QED BY <3>3, <3>4, <2>2, <2>4
  <2> QED BY <2>3, <2>4
<1> HIDE DEF call
<1> DEFINE A == call("finish")
           B == call("mark_done")
<1>3. /\ A \in Seq(CallOf) /\ B \in Seq(CallOf) /\ Len(A) \in {0, 1} /\ Len(B) \in {0, 1}
  BY <1>2
<1>4. ASSUME NEW n \in DOMAIN c
      PROVE  \E k \in {"finish", "mark_done"} :
               /\ Len(call(k)) = 1 /\ c[n] = call(k)[1]
               /\ n = 1 \/ (n = 2 /\ Len(A) = 1 /\ k = "mark_done")
               /\ n = 1 /\ Len(A) = 1 => k = "finish"
               /\ n = 1 /\ Len(A) # 1 => k = "mark_done"
  <2> HIDE DEF A, B
  <2>1. c = A \o B /\ Len(c) = Len(A) + Len(B) /\ DOMAIN c = 1..Len(c)
    BY <1>1, <1>3, ConcatProperties DEF A, B
  <2>2. \A i \in 1..Len(c) : c[i] = IF i <= Len(A) THEN A[i] ELSE B[i - Len(A)]
    BY <2>1, <1>3
  <2>3. CASE Len(A) = 1 /\ n = 1
    BY <2>1, <2>2, <2>3 DEF A
  <2>4. CASE Len(A) = 1 /\ n # 1
    <3>1. n = 2 /\ Len(B) = 1 /\ c[n] = B[1]
      BY <2>1, <2>2, <2>4, <1>3
    <3> QED BY <3>1, <2>4 DEF B
  <2>5. CASE Len(A) # 1
    <3>1. n = 1 /\ Len(B) = 1 /\ c[n] = B[1]
      BY <2>1, <2>2, <2>5, <1>3
    <3> QED BY <3>1, <2>5 DEF B
  <2> QED BY <2>3, <2>4, <2>5
<1>5. c \in Seq(CallOf)
  BY <1>1, <1>3, ConcatProperties
<1>6. \A n \in DOMAIN c : \A i \in DOMAIN c[n].items : \E p \in DOMAIN batch : c[n].items[i] = batch[p]
  BY <1>2, <1>4
<1>7. Sliced(c)
  <2> SUFFICES ASSUME NEW n \in DOMAIN c
               PROVE  /\ c[n].items # <<>>
                      /\ \A i \in DOMAIN c[n].items : c[n].items[i].kind = c[n].items[1].kind
                      /\ c[n].grouped
    BY DEF Sliced
  <2>1. PICK k \in {"finish", "mark_done"} : Len(call(k)) = 1 /\ c[n] = call(k)[1]
    BY <1>4
  <2>2. /\ c[n].items \in Seq(Item) /\ c[n].items # <<>> /\ c[n].grouped
        /\ \A p \in DOMAIN c[n].items : c[n].items[p].kind = k
    BY <2>1, <1>2, SMTT(60)
  <2>3. 1 \in DOMAIN c[n].items
    BY <2>2
  <2> QED BY <2>2, <2>3
<1>8. OnceCalled(c)
  <2> SUFFICES ASSUME NEW n \in DOMAIN c, NEW l \in DOMAIN c,
                      NEW i \in DOMAIN c[n].items, NEW j \in DOMAIN c[l].items,
                      c[n].items[i].by = c[l].items[j].by
               PROVE  n = l /\ i = j
    BY DEF OnceCalled
  <2>1. PICK k \in {"finish", "mark_done"} :
               /\ Len(call(k)) = 1 /\ c[n] = call(k)[1]
               /\ n = 1 \/ (n = 2 /\ Len(A) = 1 /\ k = "mark_done")
               /\ n = 1 /\ Len(A) = 1 => k = "finish"
               /\ n = 1 /\ Len(A) # 1 => k = "mark_done"
    BY <1>4
  <2>2. PICK h \in {"finish", "mark_done"} :
               /\ Len(call(h)) = 1 /\ c[l] = call(h)[1]
               /\ l = 1 \/ (l = 2 /\ Len(A) = 1 /\ h = "mark_done")
               /\ l = 1 /\ Len(A) = 1 => h = "finish"
               /\ l = 1 /\ Len(A) # 1 => h = "mark_done"
    BY <1>4
  <2>3. /\ c[n].items[i].kind = k /\ c[l].items[j].kind = h
        /\ \E p, q \in DOMAIN batch : c[n].items[i] = batch[p] /\ c[l].items[j] = batch[q]
    BY <2>1, <2>2, <1>2, SMTT(60)
  <2>4. k = h
    BY <2>3 DEF OnceQueued
  <2>5. n = l
    BY <2>1, <2>2, <2>4
  <2>6. OnceQueued(c[n].items)
    BY <2>1, <1>2
  <2> QED BY <2>5, <2>6 DEF OnceQueued
<1> QED BY <1>5, <1>6, <1>7, <1>8

-----------------------------------------------------------------------------
(* The verdicts of a transaction.                                          *)

\* A transaction has at least one item, and each is a finish or a close of a commit.
LEMMA ItemsFacts ==
  ASSUME NEW items \in Seq(Item), items # <<>>
  PROVE  /\ DOMAIN items = 1..Len(items) /\ Len(items) \in Nat /\ 1 \in DOMAIN items
         /\ \A i \in DOMAIN items : items[i].by \in Sub /\ items[i].kind \in {"finish", "mark_done"}
<1>1. DOMAIN items = 1..Len(items) /\ Len(items) \in Nat
  OBVIOUS
<1>2. Len(items) # 0
  BY EmptySeq
<1>3. \A i \in DOMAIN items : items[i] \in Item
  OBVIOUS
<1>4. \A it \in Item : it.by \in Sub /\ it.kind \in {"finish", "mark_done"}
  BY DEF Item
<1> QED BY <1>1, <1>2, <1>3, <1>4

\* A committed transaction releases each lease for one of its commits.
LEMMA WriteTrue ==
  ASSUME CommitTyped, Truth(sub, lease),
         NEW items \in Seq(Item), items # <<>>, OnceQueued(items),
         \A i \in DOMAIN items :
           /\ items[i].kind = items[1].kind
           /\ sub[items[i].by] = IF items[i].kind = "finish" THEN "finishing" ELSE "closing",
         Write(items)
  PROVE  /\ UNCHANGED reports /\ lease' \in [Exec -> LeaseStates]
         /\ request' \in [Exec -> RequestStates] /\ sub' \in [Sub -> Statuses]
         /\ Truth(sub', lease')
         /\ \A s \in Sub : (\A i \in DOMAIN items : items[i].by # s) => sub'[s] = sub[s]
<1>1. /\ reports \in [Sub -> Exec] /\ lease \in [Exec -> LeaseStates] /\ sub \in [Sub -> Statuses]
      /\ request \in [Exec -> RequestStates] /\ UNCHANGED reports
  BY DEF CommitTyped, Write
<1>2. /\ DOMAIN items = 1..Len(items) /\ Len(items) \in Nat /\ 1 \in DOMAIN items
      /\ \A i \in DOMAIN items : items[i].by \in Sub /\ items[i].kind \in {"finish", "mark_done"}
  BY ItemsFacts
<1>3. ASSUME NEW i \in DOMAIN items
      PROVE  sub'[items[i].by] = Verdict(items[i].kind, Applied(items, i))
  <2>1. (CHOOSE j \in DOMAIN items : items[j].by = items[i].by) = i
    BY DEF OnceQueued
  <2> QED BY <2>1, <1>2 DEF Write
<1>4. \A s \in Sub : (\A i \in DOMAIN items : items[i].by # s) => sub'[s] = sub[s]
  BY DEF Write
<1>5. sub' \in [Sub -> Statuses]
  <2>1. DOMAIN sub' = Sub /\ sub' = [s \in Sub |-> sub'[s]]
    BY DEF Write
  <2>2. ASSUME NEW s \in Sub PROVE sub'[s] \in Statuses
    <3>1. CASE \E i \in DOMAIN items : items[i].by = s
      <4>1. \E i \in DOMAIN items : sub'[s] = Verdict(items[i].kind, Applied(items, i))
        BY <3>1, <1>3
      <4> QED BY <4>1 DEF Verdict, Statuses
    <3>2. CASE ~ \E i \in DOMAIN items : items[i].by = s
      BY <3>2, <1>1, <1>4
    <3> QED BY <3>1, <3>2
  <2> QED BY <2>1, <2>2
<1>6. /\ lease' \in [Exec -> LeaseStates] /\ request' \in [Exec -> RequestStates]
      /\ \A e \in Exec : lease[e] = "released" => lease'[e] = "released"
  BY <1>1 DEF Write, LeaseStates, RequestStates
<1>7. Truth(sub', lease')
  <2>1. CASE items[1].kind = "finish"
    <3>1. ASSUME NEW s \in Sub, sub'[s] \in Settled
          PROVE  \/ sub[s] \in Settled
                 \/ \E i \in DOMAIN items :
                      /\ items[i].by = s /\ lease[reports[s]] = "active" /\ lease'[reports[s]] = "released"
                      /\ \A j \in 1..(i - 1) : reports[items[j].by] # reports[s]
      <4>1. CASE \A i \in DOMAIN items : items[i].by # s
        BY <3>1, <4>1, <1>4
      <4>2. CASE \E i \in DOMAIN items : items[i].by = s
        <5>1. PICK i \in DOMAIN items : items[i].by = s
          BY <4>2
        <5>2. Applied(items, i) /\ items[i].kind = "finish"
          BY <5>1, <3>1, <1>3, <2>1 DEF Verdict, Settled
        <5>3. /\ lease[reports[s]] = "active"
              /\ \A j \in 1..(i - 1) : reports[items[j].by] # reports[s]
          BY <5>1, <5>2 DEF Applied, ExecOf
        <5>4. reports[s] \in ExecsOf(items) /\ reports[s] \in Exec
          BY <5>1, <1>1 DEF ExecsOf, ExecOf
        <5>5. lease'[reports[s]] = "released"
          BY <5>3, <5>4, <2>1 DEF Write
        <5> QED BY <5>1, <5>3, <5>5
      <4> QED BY <4>1, <4>2
    <3>2. ASSUME NEW s \in Sub, sub'[s] \in Settled PROVE lease'[reports[s]] = "released"
      BY <3>1, <3>2, <1>1, <1>6 DEF Truth
    <3>3. ASSUME NEW s \in Sub, NEW t \in Sub, sub'[s] \in Settled, sub'[t] \in Settled,
                 reports[s] = reports[t]
          PROVE  s = t
      <4>1. CASE lease[reports[s]] = "active"
        <5>1. sub[s] \notin Settled /\ sub[t] \notin Settled
          BY <4>1, <3>3 DEF Truth
        <5>2. PICK i \in DOMAIN items :
                 items[i].by = s /\ \A j \in 1..(i - 1) : reports[items[j].by] # reports[s]
          BY <5>1, <3>1, <3>3
        <5>3. PICK k \in DOMAIN items :
                 items[k].by = t /\ \A j \in 1..(k - 1) : reports[items[j].by] # reports[t]
          BY <5>1, <3>1, <3>3
        <5>4. ~ (i < k) /\ ~ (k < i)
          <6>1. i < k => i \in 1..(k - 1)
            BY <1>2
          <6>2. k < i => k \in 1..(i - 1)
            BY <1>2
          <6> QED BY <6>1, <6>2, <5>2, <5>3, <3>3
        <5>5. i = k
          BY <5>4, <1>2
        <5> QED BY <5>2, <5>3, <5>5
      <4>2. CASE lease[reports[s]] # "active"
        <5>1. sub[s] \in Settled /\ sub[t] \in Settled
          BY <4>2, <3>1, <3>3
        <5> QED BY <5>1, <3>3 DEF Truth
      <4> QED BY <4>1, <4>2
    <3> QED BY <3>2, <3>3 DEF Truth
  <2>2. CASE items[1].kind # "finish"
    <3>1. ASSUME NEW s \in Sub, sub'[s] \in Settled PROVE sub[s] \in Settled
      <4>1. CASE \A i \in DOMAIN items : items[i].by # s
        BY <3>1, <4>1, <1>4
      <4>2. CASE \E i \in DOMAIN items : items[i].by = s
        BY <4>2, <2>2 DEF Settled
      <4> QED BY <4>1, <4>2
    <3> QED BY <3>1, <1>1, <1>6 DEF Truth
  <2> QED BY <2>1, <2>2
<1> QED BY <1>1, <1>4, <1>5, <1>6, <1>7

-----------------------------------------------------------------------------
(* The steps.                                                              *)

LEMMA TxFacts ==
  /\ Sub \in SUBSET Tx /\ Writer \in Tx /\ Background \in SUBSET Tx
  /\ Writer \notin Sub /\ Background \cap Sub = {} /\ Writer \notin Background
  /\ None \notin Sub /\ Sentinel.by = None /\ Sentinel \notin Item
<1>1. \A s \in Sub : s \in Int /\ s >= 1
  BY LockAssumption DEF Sub
<1>2. None \notin Sub
  BY <1>1, LockAssumption
<1>3. Sentinel.by = None /\ Sentinel \notin Item
  BY DEF Sentinel, Item
<1>4. Writer \notin Sub /\ Background \cap Sub = {} /\ Writer \notin Background
  BY <1>1 DEF Writer, Background, Heartbeat, Sweep, Claim
<1> QED BY <1>2, <1>3, <1>4 DEF Tx

\* A transaction with no lock left to take has begun.
LEMMA EmptyPlan == <<>> # None
BY NoneIsNoPlan, EmptySeq

\* A write of the plan of one transaction.
LEMMA PlanSet ==
  ASSUME plan = [t \in Tx |-> plan[t]], NEW t \in Tx, NEW x, plan' = [plan EXCEPT ![t] = x]
  PROVE  plan' = [u \in Tx |-> plan'[u]] /\ plan'[t] = x /\ \A u \in Tx : u # t => plan'[u] = plan[u]
<1> DEFINE p == plan
<1>1. p = [u \in Tx |-> p[u]] /\ plan' = [p EXCEPT ![t] = x]
  OBVIOUS
<1> HIDE DEF p
<1>2. plan' = [u \in Tx |-> IF u = t THEN x ELSE p[u]]
  BY <1>1
<1> QED BY <1>2 DEF p

\* The items of a call.
LEMMA CallParts ==
  ASSUME NEW c \in Seq(CallOf), NEW k \in DOMAIN c
  PROVE  /\ c[k] \in CallOf /\ c[k].items \in Seq(Item) /\ c[k].grouped \in BOOLEAN
         /\ DOMAIN c[k].items = 1..Len(c[k].items) /\ Len(c[k].items) \in Nat
         /\ \A i \in DOMAIN c[k].items : c[k].items[i] \in Item
<1>1. c[k] \in CallOf
  OBVIOUS
<1>2. c[k].items \in Seq(Item) /\ c[k].grouped \in BOOLEAN
  BY <1>1 DEF CallOf
<1>3. \A t \in Seq(Item) : /\ DOMAIN t = 1..Len(t) /\ Len(t) \in Nat
                           /\ \A i \in DOMAIN t : t[i] \in Item
  OBVIOUS
<1> QED BY <1>1, <1>2, <1>3

\* What a step does to the items on their way is nothing, if it moves neither
\* them nor the commits that wait for them.
LEMMA ItemsKept ==
  ASSUME NEW q, NEW c, NEW su, NEW pl, NEW sv, NEW pm,
         q \in Seq(Item \cup {Sentinel}), c \in Seq(CallOf),
         Queued(q, su, pl), Called(c, su, pl),
         \A s \in Sub : pl[s] = None /\ su[s] \in Parked => pm[s] = None /\ sv[s] = su[s]
  PROVE  Queued(q, sv, pm) /\ Called(c, sv, pm)
<1>1. \A it \in Item : it.by \in Sub /\ (Waits(su, pl, it) => Waits(sv, pm, it))
  BY DEF Item, Waits, Parked
<1>2. \A i \in DOMAIN q : q[i] # Sentinel => q[i] \in Item
  OBVIOUS
<1>3. \A k \in DOMAIN c : \A i \in DOMAIN c[k].items : c[k].items[i] \in Item
  BY CallParts
<1> QED BY <1>1, <1>2, <1>3 DEF Queued, Called

\* Steps that move locks, and at most take leases away from their holders.
LEMMA LocksKeep ==
  ASSUME CommitInv, UNCHANGED <<reports, sub, queue, gate>>,
         lease' \in [Exec -> LeaseStates], request' \in [Exec -> RequestStates],
         \A e \in Exec : lease[e] = "released" => lease'[e] = "released",
         writer' \in [at : {"loop", "get", "drain", "dead"}, calls : Seq(CallOf)],
         writer'.calls = writer.calls, writer'.at = "get" => writer.calls = <<>>,
         plan' = [t \in Tx |-> plan'[t]],
         plan'[Writer] # None => writer.calls # <<>>,
         \A s \in Sub : plan[s] = None => plan'[s] = None
  PROVE  CommitInv'
<1>1. CommitTyped /\ CommitTyped'
  BY DEF CommitInv, CommitTyped
<1>2. queue \in Seq(Item \cup {Sentinel}) /\ writer.calls \in Seq(CallOf)
  BY <1>1 DEF CommitTyped
<1>3. Queued(queue', sub', plan') /\ Called(writer'.calls, sub', plan')
  <2>1. Queued(queue, sub, plan) /\ Called(writer.calls, sub, plan)
    BY DEF CommitInv
  <2>2. \A s \in Sub : plan[s] = None /\ sub[s] \in Parked => plan'[s] = None /\ sub'[s] = sub[s]
    OBVIOUS
  <2>3. \A it \in Item : Waits(sub, plan, it) => Waits(sub', plan', it)
    BY <2>2 DEF Item, Waits, Parked
  <2>4. \A i \in DOMAIN queue : queue[i] # Sentinel => queue[i] \in Item
    BY <1>2
  <2>5. \A k \in DOMAIN writer.calls : \A i \in DOMAIN writer.calls[k].items : writer.calls[k].items[i] \in Item
    BY <1>2, CallParts
  <2>6. Queued(queue', sub', plan')
    BY <2>1, <2>3, <2>4 DEF Queued
  <2>7. Called(writer'.calls, sub', plan')
    BY <2>1, <2>3, <2>5 DEF Called
  <2> QED BY <2>6, <2>7
<1>4. OnceQueued(queue') /\ OnceCalled(writer'.calls) /\ Apart(queue', writer'.calls) /\ Sliced(writer'.calls)
  BY DEF CommitInv
<1>5. Arms'
  BY DEF CommitInv, Arms
<1>6. Truth(sub', lease')
  <2>1. \A s \in Sub : reports[s] \in Exec
    BY <1>1 DEF CommitTyped
  <2> QED BY <2>1 DEF CommitInv, Truth
<1>7. Truth(sub, lease)'
  BY <1>6 DEF Truth
<1> QED BY <1>1, <1>3, <1>4, <1>5, <1>7 DEF CommitInv, Queued, Called, OnceQueued, OnceCalled, Apart, Sliced

\* Such a step is a write of one plan, of a transaction that has begun or is
\* not a commit's.
LEMMA PlanKeeps ==
  ASSUME CommitInv, UNCHANGED <<reports, sub, queue, gate, writer>>,
         lease' \in [Exec -> LeaseStates], request' \in [Exec -> RequestStates],
         \A e \in Exec : lease[e] = "released" => lease'[e] = "released",
         NEW t \in Tx, NEW x, plan' = [plan EXCEPT ![t] = x],
         t = Writer /\ x # None => writer.calls # <<>>,
         t \in Sub => plan[t] # None
  PROVE  CommitInv'
<1>1. CommitTyped /\ Arms
  BY DEF CommitInv
<1>2. plan = [u \in Tx |-> plan[u]]
  BY <1>1 DEF CommitTyped
<1>3. plan' = [u \in Tx |-> plan'[u]] /\ plan'[t] = x /\ \A u \in Tx : u # t => plan'[u] = plan[u]
  BY <1>2, PlanSet
<1>4. plan'[Writer] # None => writer.calls # <<>>
  BY <1>1, <1>3, TxFacts DEF Arms
<1>5. \A s \in Sub : plan[s] = None => plan'[s] = None
  BY <1>3, TxFacts
<1>6. /\ writer' \in [at : {"loop", "get", "drain", "dead"}, calls : Seq(CallOf)]
      /\ writer'.calls = writer.calls
      /\ writer'.at = "get" => writer.calls = <<>>
  BY <1>1 DEF CommitTyped, Arms
<1> QED BY <1>3, <1>4, <1>5, <1>6, LocksKeep

\* The batches beside the group commit, and the locks of all.
LEMMA OthersKeep ==
  ASSUME CommitInv,
         \/ BeginHeartbeat \/ BeginSweep \/ BeginClaim \/ BeginArm
         \/ CommitHeartbeat \/ CommitSweep \/ CommitClaim
         \/ \E t \in Tx : \/ Acquire(t) \/ SkipRow(t)
                          \/ t \in Background /\ End(t) /\ UNCHANGED <<rows, batcher>>
  PROVE  CommitInv'
<1>1. /\ lease \in [Exec -> LeaseStates] /\ request \in [Exec -> RequestStates]
  BY DEF CommitInv, CommitTyped
<1>2. Heartbeat \in Background /\ Sweep \in Background /\ Claim \in Background
  BY DEF Background
<1>3. ASSUME NEW t \in Background, NEW x, plan' = [plan EXCEPT ![t] = x],
             UNCHANGED <<reports, sub, queue, gate, writer>>,
             lease' \in [Exec -> LeaseStates], request' \in [Exec -> RequestStates],
             \A e \in Exec : lease[e] = "released" => lease'[e] = "released"
      PROVE  CommitInv'
  <2>1. t \in Tx /\ t # Writer /\ t \notin Sub
    BY TxFacts
  <2> QED BY <1>3, <2>1, PlanKeeps
<1>4. ASSUME UNCHANGED <<rows, batcher>>
      PROVE  /\ UNCHANGED <<reports, sub, queue, gate, writer>>
             /\ lease' \in [Exec -> LeaseStates] /\ request' \in [Exec -> RequestStates]
             /\ \A e \in Exec : lease[e] = "released" => lease'[e] = "released"
  BY <1>1, <1>4 DEF rows, batcher
<1>5. CASE BeginHeartbeat \/ BeginClaim
  BY <1>2, <1>3, <1>4, <1>5 DEF BeginHeartbeat, BeginClaim, Begin
<1>6. CASE BeginSweep
  <2>1. UNCHANGED <<rows, batcher>> /\ \E x : plan' = [plan EXCEPT ![Sweep] = x]
    BY <1>6 DEF BeginSweep, Begin
  <2> QED BY <2>1, <1>2, <1>3, <1>4
<1>7. CASE BeginArm
  <2>1. UNCHANGED <<rows, batcher>> /\ writer.calls # <<>> /\ \E x : plan' = [plan EXCEPT ![Writer] = x]
    BY <1>7 DEF BeginArm
  <2>2. UNCHANGED <<reports, sub, queue, gate, writer>>
    BY <2>1, <1>4
  <2> QED BY <2>1, <2>2, <1>4, PlanKeeps, TxFacts
<1>8. CASE CommitHeartbeat \/ CommitClaim
  BY <1>2, <1>3, <1>4, <1>8 DEF CommitHeartbeat, CommitClaim, End
<1>9. CASE CommitSweep
  <2>1. PICK swept :
          /\ request' = [e \in Exec |-> IF e \notin swept THEN request[e]
                                        ELSE IF lease[e] = "active" THEN "queued" ELSE "done"]
          /\ lease' = [e \in Exec |-> IF e \in swept /\ lease[e] = "active" THEN "gone" ELSE lease[e]]
    BY <1>9 DEF CommitSweep
  <2>2. /\ lease' \in [Exec -> LeaseStates] /\ request' \in [Exec -> RequestStates]
        /\ \A e \in Exec : lease[e] = "released" => lease'[e] = "released"
    BY <1>1, <2>1 DEF LeaseStates, RequestStates
  <2>3. UNCHANGED <<reports, sub, queue, gate, writer>> /\ plan' = [plan EXCEPT ![Sweep] = None]
    BY <1>9 DEF CommitSweep, End, batcher
  <2> QED BY <1>2, <1>3, <2>2, <2>3
<1>10. ASSUME NEW t \in Tx, Acquire(t) \/ SkipRow(t) PROVE CommitInv'
  <2>1. Working(t) /\ UNCHANGED <<rows, batcher>> /\ \E x : plan' = [plan EXCEPT ![t] = x]
    BY <1>10 DEF Acquire, SkipRow, TakeLock
  <2>2. plan[t] # None
    BY <2>1 DEF Working, Idle
  <2>3. t = Writer => writer.calls # <<>>
    BY <2>2 DEF CommitInv, Arms
  <2> QED BY <2>1, <2>2, <2>3, <1>4, PlanKeeps
<1>11. ASSUME NEW t \in Background, End(t), UNCHANGED <<rows, batcher>> PROVE CommitInv'
  BY <1>3, <1>4, <1>11 DEF End
<1> QED BY <1>5, <1>6, <1>7, <1>8, <1>9, <1>10, <1>11

LEMMA LoopTestKeeps == CommitInv /\ LoopTest => CommitInv'
<1> SUFFICES ASSUME CommitInv, LoopTest PROVE CommitInv'
  OBVIOUS
<1>1. CommitTyped /\ Arms
  BY DEF CommitInv
<1>2. /\ UNCHANGED <<reports, sub, queue, gate, lease, request, plan>> /\ writer.calls = <<>>
      /\ writer' = [writer EXCEPT !.at = IF gate.stop THEN "drain" ELSE "get"]
  BY DEF LoopTest, rows, lockVars
<1>3. /\ writer' \in [at : {"loop", "get", "drain", "dead"}, calls : Seq(CallOf)]
      /\ writer'.calls = writer.calls
  BY <1>1, <1>2 DEF CommitTyped
<1>4. /\ lease' \in [Exec -> LeaseStates] /\ request' \in [Exec -> RequestStates]
      /\ plan' = [t \in Tx |-> plan'[t]]
      /\ plan'[Writer] # None => writer.calls # <<>>
  BY <1>1, <1>2 DEF CommitTyped, Arms
<1>5. /\ \A e \in Exec : lease[e] = "released" => lease'[e] = "released"
      /\ \A s \in Sub : plan[s] = None => plan'[s] = None
      /\ writer'.at = "get" => writer.calls = <<>>
      /\ UNCHANGED <<reports, sub, queue, gate>>
  BY <1>2
<1> QED BY <1>3, <1>4, <1>5, LocksKeep

\* A commit that has begun its own transaction, or parks nowhere, has no item.
LEMMA NoItem ==
  ASSUME CommitInv, NEW s \in Sub, sub[s] \notin Parked \/ plan[s] # None
  PROVE  /\ \A i \in DOMAIN queue : queue[i].by # s
         /\ \A k \in DOMAIN writer.calls : \A i \in DOMAIN writer.calls[k].items :
              writer.calls[k].items[i].by # s
<1>1. \A it : Waits(sub, plan, it) => it.by # s
  BY DEF Waits, Parked
<1>2. \A i \in DOMAIN queue : queue[i].by # s
  BY <1>1, TxFacts DEF CommitInv, Queued
<1> QED BY <1>1, <1>2 DEF CommitInv, Called

LEMMA StopKeeps == CommitInv /\ Stop => CommitInv'
<1> SUFFICES ASSUME CommitInv, Stop PROVE CommitInv'
  OBVIOUS
<1>1. CommitTyped /\ Arms
  BY DEF CommitInv
<1>2. /\ ~ gate.closed /\ gate' = [closed |-> TRUE, stop |-> TRUE] /\ queue' = Append(queue, Sentinel)
      /\ UNCHANGED <<reports, lease, request, plan, sub, writer>>
  BY DEF Stop, rows, lockVars
<1>3. queue \in Seq(Item \cup {Sentinel}) /\ Sentinel \in Item \cup {Sentinel}
  BY <1>1 DEF CommitTyped
<1>4. /\ queue' \in Seq(Item \cup {Sentinel}) /\ Len(queue') = Len(queue) + 1 /\ Len(queue) \in Nat
      /\ DOMAIN queue = 1..Len(queue) /\ DOMAIN queue' = 1..(Len(queue) + 1)
      /\ \A i \in DOMAIN queue : queue'[i] = queue[i]
      /\ queue'[Len(queue) + 1] = Sentinel
  BY <1>2, <1>3, AppendProperties
<1>5. \A i \in DOMAIN queue' : i \in DOMAIN queue \/ i = Len(queue) + 1
  BY <1>4
<1>6. \A i \in DOMAIN queue : queue[i] \in Item /\ queue[i].by \in Sub /\ queue[i].by # None
  <2>1. \A i \in DOMAIN queue : queue[i] # Sentinel
    BY <1>1, <1>2 DEF Arms
  <2> QED BY <2>1, <1>3, TxFacts DEF Item
<1>7. CommitTyped'
  BY <1>1, <1>2, <1>4 DEF CommitTyped
<1>8. Arms'
  BY <1>1, <1>2 DEF Arms
<1>9. Queued(queue', sub, plan)
  BY <1>4, <1>5 DEF CommitInv, Queued
<1>10. OnceQueued(queue')
  BY <1>4, <1>5, <1>6, TxFacts DEF CommitInv, OnceQueued
<1>11. Apart(queue', writer.calls)
  <2>1. \A k \in DOMAIN writer.calls : \A j \in DOMAIN writer.calls[k].items :
           writer.calls[k].items[j].by \in Sub
    BY <1>1, CallParts DEF CommitTyped, Item
  <2> QED BY <1>4, <1>5, <2>1, TxFacts DEF CommitInv, Apart
<1> QED BY <1>2, <1>7, <1>8, <1>9, <1>10, <1>11 DEF CommitInv, Queued, Called, OnceQueued, OnceCalled, Apart, Sliced, Truth

\* A commit parks: its item is the only one it has.
LEMMA SubmitKeeps ==
  ASSUME CommitInv, NEW s \in Sub, Submit(s)
  PROVE  CommitInv'
<1>1. CommitTyped /\ Arms
  BY DEF CommitInv
<1>2. UNCHANGED <<reports, lease, request, gate, writer>>
  BY DEF Submit, rows
<1>3. PICK k \in {"finish", "mark_done"}, to \in Parked :
        /\ to = IF k = "finish" THEN "finishing" ELSE "closing"
        /\ sub[s] = IF k = "finish" THEN "ready" ELSE "finished"
        /\ sub' = [sub EXCEPT ![s] = to] /\ Enqueue(s, k)
  BY DEF Submit, Parked
<1>4. sub[s] \notin Parked /\ plan[s] = None /\ (to \in Settled => sub[s] \in Settled)
  BY <1>1, <1>3 DEF Parked, Arms, Settled
<1>5. /\ sub' \in [Sub -> Statuses] /\ sub'[s] = to /\ \A t \in Sub : t # s => sub'[t] = sub[t]
  BY <1>1, <1>3 DEF CommitTyped, Statuses
<1>6. /\ \A i \in DOMAIN queue : queue[i].by # s
      /\ \A n \in DOMAIN writer.calls : \A i \in DOMAIN writer.calls[n].items :
           writer.calls[n].items[i].by # s
  BY <1>4, NoItem
<1>7. /\ queue \in Seq(Item \cup {Sentinel}) /\ writer.calls \in Seq(CallOf)
      /\ plan = [u \in Tx |-> plan[u]] /\ s \in Tx /\ s # Writer
  BY <1>1, TxFacts DEF CommitTyped
<1>8. Truth(sub, lease)'
  BY <1>2, <1>4, <1>5 DEF CommitInv, Truth
<1>9. CASE ~ gate.closed
  <2> DEFINE it == [by |-> s, kind |-> k]
  <2>1. queue' = Append(queue, it) /\ UNCHANGED plan /\ it \in Item \cup {Sentinel} /\ it.by = s
    BY <1>3, <1>9 DEF Enqueue, Item
  <2>2. it # Sentinel /\ Waits(sub', plan', it)
    BY <2>1, <1>3, <1>4, <1>5 DEF Sentinel, Waits
  <2> HIDE DEF it
  <2>3. /\ queue' \in Seq(Item \cup {Sentinel}) /\ Len(queue') = Len(queue) + 1 /\ Len(queue) \in Nat
        /\ DOMAIN queue = 1..Len(queue) /\ DOMAIN queue' = 1..(Len(queue) + 1)
        /\ \A i \in DOMAIN queue : queue'[i] = queue[i]
        /\ queue'[Len(queue) + 1] = it
    BY <1>7, <2>1, AppendProperties
  <2>4. \A i \in DOMAIN queue' : i \in DOMAIN queue \/ i = Len(queue) + 1
    BY <2>3
  <2>5. CommitTyped'
    BY <1>1, <1>2, <1>5, <2>1, <2>3 DEF CommitTyped
  <2>6. Arms'
    <3>1. ~ \E i \in DOMAIN queue' : queue'[i] = Sentinel
      BY <1>1, <1>9, <2>2, <2>3, <2>4 DEF Arms
    <3> QED BY <1>1, <1>2, <1>4, <1>5, <2>1, <3>1 DEF Arms
  <2>7. Queued(queue, sub', plan') /\ Called(writer.calls, sub', plan')
    BY <1>4, <1>5, <1>7, <2>1, ItemsKept DEF CommitInv
  <2>8. Queued(queue', sub', plan')
    BY <2>2, <2>3, <2>4, <2>7 DEF Queued
  <2>9. OnceQueued(queue') /\ Apart(queue', writer.calls)
    BY <1>6, <2>1, <2>3, <2>4 DEF CommitInv, OnceQueued, Apart
  <2> QED BY <1>2, <1>8, <2>5, <2>6, <2>7, <2>8, <2>9
      DEF CommitInv, Queued, Called, OnceQueued, OnceCalled, Apart, Sliced
<1>10. CASE gate.closed
  <2>1. UNCHANGED queue /\ \E x : plan' = [plan EXCEPT ![s] = x]
    BY <1>3, <1>10 DEF Enqueue
  <2>2. plan' = [u \in Tx |-> plan'[u]] /\ \A u \in Tx : u # s => plan'[u] = plan[u]
    BY <1>7, <2>1, PlanSet
  <2>3. CommitTyped'
    BY <1>1, <1>2, <1>5, <2>1, <2>2 DEF CommitTyped
  <2>4. \A t \in Sub : plan[t] = None /\ sub[t] \in Parked => plan'[t] = None /\ sub'[t] = sub[t]
    BY <1>4, <1>5, <2>2, TxFacts
  <2>5. Queued(queue, sub', plan') /\ Called(writer.calls, sub', plan')
    BY <1>7, <2>4, ItemsKept DEF CommitInv
  <2>6. Arms'
    <3>1. \A t \in Sub : plan'[t] # None => sub'[t] \in Parked
      BY <1>1, <1>5, <2>2, TxFacts DEF Arms
    <3>2. plan'[Writer] = plan[Writer]
      BY <1>7, <2>2, TxFacts
    <3>3. UNCHANGED <<gate, writer, queue>>
      BY <1>2, <2>1
    <3>4. /\ plan'[Writer] # None => writer'.calls # <<>>
          /\ writer'.at = "get" => writer'.calls = <<>>
      BY <1>1, <3>2, <3>3 DEF Arms
    <3>5. (\E i \in DOMAIN queue' : queue'[i] = Sentinel) => gate'.closed
      BY <1>1, <3>3 DEF Arms
    <3>6. Sentinel' = Sentinel
      BY DEF Sentinel
    <3> QED BY <3>1, <3>4, <3>5, <3>6 DEF Arms
  <2>7. UNCHANGED <<queue, writer>>
    BY <1>2, <2>1
  <2>8. OnceQueued(queue') /\ OnceCalled(writer'.calls) /\ Apart(queue', writer'.calls) /\ Sliced(writer'.calls)
    BY <2>7 DEF CommitInv
  <2>9. Queued(queue', sub', plan') /\ Called(writer'.calls, sub', plan')
    BY <2>5, <2>7
  <2> QED BY <1>8, <2>3, <2>6, <2>8, <2>9
      DEF CommitInv, Queued, Called, OnceQueued, OnceCalled, Apart, Sliced
<1> QED BY <1>9, <1>10

\* The writer takes a round from the queue.
LEMMA RoundKeeps ==
  ASSUME CommitInv, NEW n \in Nat, NEW m \in Nat, n < m, m <= Len(queue) + 1,
         n <= Len(queue),
         \A i \in 1..n : queue[i] # Sentinel,
         queue' = SubSeq(queue, m, Len(queue)),
         NEW a \in {"loop", "drain", "dead"}, NEW c, writer' = [at |-> a, calls |-> c],
         c = <<>> \/ c = Calls(SubSeq(queue, 1, n)),
         plan[Writer] = None,
         gate' \in [closed : BOOLEAN, stop : BOOLEAN], gate'.closed = gate.closed,
         UNCHANGED <<reports, lease, request, plan, sub>>
  PROVE  CommitInv'
<1>1. CommitTyped /\ Arms /\ queue \in Seq(Item \cup {Sentinel})
  BY DEF CommitInv, CommitTyped
<1>2. Len(queue) \in Nat /\ DOMAIN queue = 1..Len(queue) /\ \A i \in DOMAIN queue : queue[i] \in Item \cup {Sentinel}
  BY <1>1
<1>b. PICK batch : batch = SubSeq(queue, 1, n)
  OBVIOUS
<1>3. batch \in Seq(Item) /\ Len(batch) = n /\ \A i \in 1..n : batch[i] = queue[i] /\ i \in DOMAIN queue
  <2>1. \A i \in 1..n : i \in DOMAIN queue /\ queue[i] \in Item
    BY <1>2
  <2>2. n - 1 + 1 = n /\ \A i \in 1..n : 1 + i - 1 = i
    OBVIOUS
  <2>3. SubSeq(queue, 1, n) \in Seq(Item) /\ Len(SubSeq(queue, 1, n)) = n
        /\ \A i \in 1..n : SubSeq(queue, 1, n)[i] = queue[i]
    BY <2>1, <2>2, SubSeqProperties
  <2>4. \A i \in 1..n : i \in DOMAIN queue
    BY <2>1
  <2> QED BY <2>3, <2>4, <1>b
<1>4. DOMAIN batch = 1..n
  BY <1>3
<1>5. /\ queue' \in Seq(Item \cup {Sentinel}) /\ Len(queue') = Len(queue) - m + 1
      /\ \A i \in 1..(Len(queue) - m + 1) : queue'[i] = queue[m + i - 1]
  <2>1. \A i \in m..Len(queue) : queue[i] \in Item \cup {Sentinel}
    BY <1>2
  <2>2. m \in Int /\ Len(queue) \in Int /\ Len(queue) - m + 1 >= 0
    BY <1>2
  <2> QED BY <2>1, <2>2, SubSeqProperties
<1>6. DOMAIN queue' = 1..(Len(queue) - m + 1)
  BY <1>5
<1>7. \A i \in DOMAIN queue' : /\ m + i - 1 \in DOMAIN queue /\ m + i - 1 \notin 1..n
                               /\ queue'[i] = queue[m + i - 1]
  BY <1>2, <1>5, <1>6
<1>8. OnceQueued(batch)
  BY <1>3, <1>4 DEF CommitInv, OnceQueued
<1>9. /\ c \in Seq(CallOf) /\ Sliced(c) /\ OnceCalled(c)
      /\ \A k \in DOMAIN c : \A i \in DOMAIN c[k].items : \E p \in DOMAIN batch : c[k].items[i] = batch[p]
  <2>1. batch \in Seq(Item) /\ OnceQueued(batch)
    BY <1>3, <1>8
  <2>2. CASE c = Calls(batch)
    <3>1. c \in Seq(CallOf)
      BY <2>1, <2>2, CallsFacts
    <3>2. Sliced(c)
      BY <2>1, <2>2, CallsFacts
    <3>3. OnceCalled(c)
      BY <2>1, <2>2, CallsFacts
    <3>4. \A k \in DOMAIN c : \A i \in DOMAIN c[k].items : \E p \in DOMAIN batch : c[k].items[i] = batch[p]
      BY <2>1, <2>2, CallsFacts
    <3> QED BY <3>1, <3>2, <3>3, <3>4
  <2>3. CASE c = <<>>
    <3>1. c \in Seq(CallOf) /\ DOMAIN c = {}
      BY <2>3
    <3> QED BY <3>1 DEF Sliced, OnceCalled
  <2> QED BY <2>2, <2>3, <1>b
<1>10. \A k \in DOMAIN c : \A i \in DOMAIN c[k].items :
         \E p \in 1..n : p \in DOMAIN queue /\ c[k].items[i] = queue[p] /\ queue[p] # Sentinel
  BY <1>3, <1>4, <1>9
<1>11. Called(c, sub, plan)
  BY <1>10 DEF CommitInv, Queued, Called
<1>12. Queued(queue', sub, plan) /\ OnceQueued(queue')
  <2>1. \A i, j \in DOMAIN queue' : m + i - 1 = m + j - 1 => i = j
    BY <1>2, <1>6
  <2>2. Queued(queue', sub, plan)
    BY <1>7 DEF CommitInv, Queued
  <2>3. OnceQueued(queue')
    BY <1>7, <2>1 DEF CommitInv, OnceQueued
  <2> QED BY <2>2, <2>3
<1>13. Apart(queue', c)
  <2> SUFFICES ASSUME NEW i \in DOMAIN queue', NEW k \in DOMAIN c, NEW j \in DOMAIN c[k].items,
                      queue'[i].by = c[k].items[j].by
               PROVE  FALSE
    BY DEF Apart
  <2>1. PICK p \in 1..n : p \in DOMAIN queue /\ c[k].items[j] = queue[p]
    BY <1>10
  <2>2. PICK q : q \in DOMAIN queue /\ q \notin 1..n /\ queue'[i] = queue[q]
    BY <1>7
  <2>3. queue[q].by = queue[p].by /\ OnceQueued(queue)
    BY <2>1, <2>2 DEF CommitInv
  <2>4. q = p
    BY <2>1, <2>2, <2>3 DEF OnceQueued
  <2> QED BY <2>1, <2>2, <2>4
<1>14. /\ writer'.calls = c /\ writer'.at # "get"
       /\ writer' \in [at : {"loop", "get", "drain", "dead"}, calls : Seq(CallOf)]
  BY <1>9
<1>15. CommitTyped'
  BY <1>1, <1>5, <1>14 DEF CommitTyped
<1>16. Arms'
  BY <1>1, <1>7, <1>14 DEF Arms
<1>17. Truth(sub, lease)'
  BY DEF CommitInv, Truth
<1> QED BY <1>9, <1>11, <1>12, <1>13, <1>14, <1>15, <1>16, <1>17
    DEF CommitInv, Queued, Called, OnceQueued, OnceCalled, Apart, Sliced

\* One round, up to the sentinel, which is in the queue at most once.
LEMMA TakeBatchKeeps == CommitInv /\ TakeBatch => CommitInv'
<1> SUFFICES ASSUME CommitInv, TakeBatch PROVE CommitInv'
  OBVIOUS
<1>1. CommitTyped /\ Arms /\ OnceQueued(queue)
  BY DEF CommitInv
<1>2. queue \in Seq(Item \cup {Sentinel}) /\ queue # <<>> /\ gate \in [closed : BOOLEAN, stop : BOOLEAN]
  BY <1>1 DEF CommitTyped, TakeBatch
<1>3. Len(queue) \in Nat /\ DOMAIN queue = 1..Len(queue) /\ MaxItems \in Nat
  BY <1>2, BatcherAssumption
<1>4. PICK upTo : upTo = IF Len(queue) < MaxItems THEN Len(queue) ELSE MaxItems
  OBVIOUS
<1>5. upTo \in Nat /\ upTo <= Len(queue)
  BY <1>3, <1>4
<1>6. PICK ends : ends = {i \in 1..upTo : queue[i] = Sentinel}
  OBVIOUS
<1>7. PICK size, m :
        /\ size = IF ends = {} THEN upTo ELSE (CHOOSE i \in ends : TRUE) - 1
        /\ m = IF ends # {} THEN size + 2 ELSE size + 1
        /\ queue' = SubSeq(queue, m, Len(queue))
        /\ gate' = [gate EXCEPT !.stop = @ \/ ends # {}]
        /\ writer' = [at |-> "loop", calls |-> Calls(SubSeq(queue, 1, size))]
  BY <1>4, <1>6 DEF TakeBatch
<1>8. /\ size \in Nat /\ m \in Nat /\ size < m /\ m <= Len(queue) + 1 /\ size <= Len(queue)
      /\ \A i \in 1..size : queue[i] # Sentinel
  <2>1. CASE ends = {}
    <3>1. size = upTo /\ m = upTo + 1
      BY <1>7, <2>1
    <3>2. \A i \in 1..upTo : queue[i] # Sentinel
      BY <1>6, <2>1
    <3> QED BY <1>3, <1>5, <3>1, <3>2
  <2>2. CASE ends # {}
    <3>1. PICK k \in ends : size = k - 1 /\ m = size + 2
      BY <1>7, <2>2
    <3>2. k \in 1..upTo /\ queue[k] = Sentinel
      BY <1>6
    <3>3. \A i \in DOMAIN queue : queue[i] = Sentinel => i = k
      BY <1>1, <1>3, <1>5, <3>2 DEF OnceQueued
    <3>4. /\ size \in Nat /\ m \in Nat /\ size < m /\ m <= Len(queue) + 1 /\ size <= Len(queue)
          /\ \A i \in 1..size : i \in DOMAIN queue /\ i # k
      BY <1>3, <1>5, <3>1, <3>2
    <3> QED BY <3>3, <3>4
  <2> QED BY <2>1, <2>2
<1>9. gate' \in [closed : BOOLEAN, stop : BOOLEAN] /\ gate'.closed = gate.closed
  BY <1>2, <1>7
<1>10. UNCHANGED <<reports, lease, request, plan, sub>> /\ plan[Writer] = None
  BY <1>1 DEF TakeBatch, rows, lockVars, Arms
<1> QED BY <1>7, <1>8, <1>9, <1>10, RoundKeeps

\* What stop() left, one item at a time.
LEMMA DrainKeeps == CommitInv /\ Drain => CommitInv'
<1> SUFFICES ASSUME CommitInv, Drain PROVE CommitInv'
  OBVIOUS
<1>1. CommitTyped /\ Arms
  BY DEF CommitInv
<1>2. /\ UNCHANGED <<reports, lease, request, plan, sub, gate>>
      /\ writer.at = "drain" /\ writer.calls = <<>> /\ plan[Writer] = None
      /\ writer \in [at : {"loop", "get", "drain", "dead"}, calls : Seq(CallOf)]
      /\ queue \in Seq(Item \cup {Sentinel})
      /\ gate \in [closed : BOOLEAN, stop : BOOLEAN]
  BY <1>1 DEF Drain, rows, lockVars, Arms, CommitTyped
<1>3. CASE queue = <<>>
  <2>1. writer' = [writer EXCEPT !.at = "dead"] /\ UNCHANGED queue
    BY <1>3 DEF Drain
  <2>2. /\ writer' \in [at : {"loop", "get", "drain", "dead"}, calls : Seq(CallOf)]
        /\ writer'.calls = writer.calls /\ writer'.at # "get"
    BY <1>2, <2>1
  <2>3. /\ lease' \in [Exec -> LeaseStates] /\ request' \in [Exec -> RequestStates]
        /\ plan' = [t \in Tx |-> plan'[t]]
        /\ plan'[Writer] = None
    BY <1>1, <1>2 DEF CommitTyped
  <2>4. /\ \A e \in Exec : lease[e] = "released" => lease'[e] = "released"
        /\ \A s \in Sub : plan[s] = None => plan'[s] = None
        /\ UNCHANGED <<reports, sub, queue, gate>>
    BY <1>2, <2>1
  <2> QED BY <2>2, <2>3, <2>4, LocksKeep
<1>4. CASE queue # <<>>
  <2>1. PICK c : /\ c = IF Head(queue) = Sentinel THEN <<>> ELSE Calls(<<Head(queue)>>)
                 /\ writer' = [writer EXCEPT !.calls = c] /\ queue' = Tail(queue)
    BY <1>4 DEF Drain
  <2>2. writer' = [at |-> "drain", calls |-> c]
    BY <1>2, <2>1
  <2>3. /\ Len(queue) \in Nat /\ Len(queue) >= 1 /\ Head(queue) = queue[1]
        /\ Tail(queue) = SubSeq(queue, 2, Len(queue)) /\ SubSeq(queue, 1, 1) = <<Head(queue)>>
    <3>1. Len(queue) \in Nat /\ Len(queue) >= 1 /\ Head(queue) = queue[1]
      BY <1>2, <1>4, EmptySeq
    <3>2. Tail(queue) = SubSeq(queue, 2, Len(queue))
      BY <1>2, <1>4, TailIsSubSeq
    <3>3. SubSeq(queue, 1, 1) = <<queue[1]>>
      <4>1. \A i \in 1..1 : queue[i] \in Item \cup {Sentinel}
        BY <1>2, <3>1
      <4>2. /\ SubSeq(queue, 1, 1) \in Seq(Item \cup {Sentinel}) /\ Len(SubSeq(queue, 1, 1)) = 1
            /\ SubSeq(queue, 1, 1)[1] = queue[1]
        BY <4>1, SubSeqProperties
      <4>3. \A q \in Seq(Item \cup {Sentinel}) : Len(q) = 1 => q = <<q[1]>>
        OBVIOUS
      <4> QED BY <4>2, <4>3
    <3> QED BY <3>1, <3>2, <3>3
  <2>4. gate' \in [closed : BOOLEAN, stop : BOOLEAN] /\ gate'.closed = gate.closed
    BY <1>2
  <2>5. CASE Head(queue) = Sentinel
    <3>1. PICK n, m : n = 0 /\ m = 2
      OBVIOUS
    <3>2. c = <<>> /\ queue' = SubSeq(queue, m, Len(queue))
      BY <2>1, <2>3, <2>5, <3>1
    <3>3. /\ n \in Nat /\ m \in Nat /\ n < m /\ m <= Len(queue) + 1 /\ n <= Len(queue)
          /\ \A i \in 1..n : queue[i] # Sentinel
      BY <2>3, <3>1
    <3> QED BY <3>2, <3>3, <1>2, <2>2, <2>4, RoundKeeps
  <2>6. CASE Head(queue) # Sentinel
    <3>1. PICK n, m : n = 1 /\ m = 2
      OBVIOUS
    <3>2. c = Calls(SubSeq(queue, 1, n)) /\ queue' = SubSeq(queue, m, Len(queue))
      BY <2>1, <2>3, <2>6, <3>1
    <3>3. /\ n \in Nat /\ m \in Nat /\ n < m /\ m <= Len(queue) + 1 /\ n <= Len(queue)
          /\ \A i \in 1..n : queue[i] # Sentinel
      BY <2>3, <2>6, <3>1
    <3> QED BY <3>2, <3>3, <1>2, <2>2, <2>4, RoundKeeps
  <2> QED BY <2>5, <2>6
<1> QED BY <1>3, <1>4

\* A transaction of the writer ends: the commits it answered have no item left.
LEMMA ArmKeeps ==
  ASSUME CommitInv, writer.calls # <<>>,
         NEW c \in Seq(CallOf), writer' = [writer EXCEPT !.calls = c],
         Sliced(c), OnceCalled(c),
         NEW answered \in SUBSET Sub,
         \A s \in answered : \E j \in DOMAIN Items : Items[j].by = s,
         \A k \in DOMAIN c : \A i \in DOMAIN c[k].items :
           /\ c[k].items[i].by \notin answered
           /\ \E l \in DOMAIN writer.calls : \E j \in DOMAIN writer.calls[l].items :
                c[k].items[i] = writer.calls[l].items[j],
         sub' \in [Sub -> Statuses],
         \A s \in Sub : s \notin answered => sub'[s] = sub[s],
         lease' \in [Exec -> LeaseStates], request' \in [Exec -> RequestStates],
         Truth(sub', lease'),
         UNCHANGED <<reports, queue, gate>>,
         plan' = [plan EXCEPT ![Writer] = None]
  PROVE  CommitInv'
<1>1. CommitTyped /\ Arms
  BY DEF CommitInv
<1>2. /\ writer \in [at : {"loop", "get", "drain", "dead"}, calls : Seq(CallOf)]
      /\ queue \in Seq(Item \cup {Sentinel}) /\ plan = [t \in Tx |-> plan[t]]
      /\ writer.at # "get"
  BY <1>1 DEF CommitTyped, Arms
<1>3. /\ writer' \in [at : {"loop", "get", "drain", "dead"}, calls : Seq(CallOf)]
      /\ writer'.calls = c /\ writer'.at # "get"
  BY <1>2
<1>4. /\ plan' = [u \in Tx |-> plan'[u]] /\ plan'[Writer] = None
      /\ \A s \in Sub : plan'[s] = plan[s]
  <2>1. \E x : x = None /\ plan' = [plan EXCEPT ![Writer] = x]
    OBVIOUS
  <2>2. plan' = [u \in Tx |-> plan'[u]] /\ plan'[Writer] = None /\ \A u \in Tx : u # Writer => plan'[u] = plan[u]
    BY <1>2, <2>1, PlanSet, TxFacts
  <2> QED BY <2>2, TxFacts
<1>5. 1 \in DOMAIN writer.calls /\ Items = writer.calls[1].items
  <2>1. DOMAIN writer.calls = 1..Len(writer.calls) /\ Len(writer.calls) \in Nat /\ Len(writer.calls) # 0
    BY <1>2, EmptySeq
  <2>2. Head(writer.calls) = writer.calls[1]
    BY <1>2
  <2> QED BY <2>1, <2>2 DEF Items
<1>6. \A s \in answered : plan[s] = None /\ \A i \in DOMAIN queue : queue[i].by # s
  BY <1>5 DEF CommitInv, Called, Waits, Apart
<1>7. CommitTyped'
  BY <1>1, <1>3, <1>4 DEF CommitTyped
<1>8. Arms'
  <2>1. \A s \in Sub : plan'[s] # None => sub'[s] \in Parked
    BY <1>1, <1>4, <1>6 DEF Arms
  <2>2. (\E i \in DOMAIN queue' : queue'[i] = Sentinel) => gate'.closed
    BY <1>1 DEF Arms
  <2>3. Sentinel' = Sentinel
    BY DEF Sentinel
  <2> QED BY <1>3, <1>4, <2>1, <2>2, <2>3 DEF Arms
<1>9. Queued(queue', sub', plan')
  <2> SUFFICES ASSUME NEW i \in DOMAIN queue, queue[i] # Sentinel PROVE Waits(sub', plan', queue[i])
    BY DEF Queued
  <2>1. queue[i] \in Item /\ queue[i].by \in Sub /\ queue[i].by \notin answered
    <3>1. queue[i] \in Item
      BY <1>2
    <3>2. queue[i].by \in Sub
      BY <3>1 DEF Item
    <3> QED BY <3>1, <3>2, <1>6
  <2>2. Waits(sub, plan, queue[i])
    BY DEF CommitInv, Queued
  <2> QED BY <1>4, <2>1, <2>2 DEF Waits
<1>10. Called(c, sub', plan') /\ Apart(queue', c)
  <2> SUFFICES ASSUME NEW k \in DOMAIN c, NEW i \in DOMAIN c[k].items
               PROVE  /\ Waits(sub', plan', c[k].items[i])
                      /\ \A p \in DOMAIN queue : queue[p].by # c[k].items[i].by
    BY ZenonT(60) DEF Called, Apart
  <2>0. PICK l \in DOMAIN writer.calls :
          \E j \in DOMAIN writer.calls[l].items : c[k].items[i] = writer.calls[l].items[j]
    OBVIOUS
  <2>1. PICK j \in DOMAIN writer.calls[l].items : c[k].items[i] = writer.calls[l].items[j]
    BY <2>0
  <2>2. Waits(sub, plan, c[k].items[i]) /\ \A p \in DOMAIN queue : queue[p].by # c[k].items[i].by
    BY <2>1 DEF CommitInv, Called, Apart
  <2>3. c[k].items[i].by \in Sub /\ c[k].items[i].by \notin answered
    BY CallParts DEF Item
  <2> QED BY <1>4, <2>2, <2>3 DEF Waits
<1>11. OnceQueued(queue')
  BY DEF CommitInv
<1>12. OnceCalled(writer'.calls) /\ Sliced(writer'.calls) /\ Called(writer'.calls, sub', plan') /\ Apart(queue', writer'.calls)
  BY <1>3, <1>10
<1>13. Truth(sub, lease)'
  BY DEF Truth
<1> QED BY <1>7, <1>8, <1>9, <1>11, <1>12, <1>13
    DEF CommitInv, Queued, Called, OnceQueued, OnceCalled, Apart, Sliced

\* A commit's own transaction ends.
LEMMA DirectKeeps ==
  ASSUME CommitInv, NEW s \in Sub, plan[s] # None,
         sub' \in [Sub -> Statuses], \A t \in Sub : t # s => sub'[t] = sub[t],
         lease' \in [Exec -> LeaseStates], request' \in [Exec -> RequestStates],
         Truth(sub', lease'),
         UNCHANGED <<reports, queue, gate, writer>>,
         plan' = [plan EXCEPT ![s] = None]
  PROVE  CommitInv'
<1>1. CommitTyped /\ Arms
  BY DEF CommitInv
<1>2. /\ queue \in Seq(Item \cup {Sentinel}) /\ writer.calls \in Seq(CallOf)
      /\ plan = [t \in Tx |-> plan[t]] /\ s \in Tx /\ s # Writer
  BY <1>1, TxFacts DEF CommitTyped
<1>3. plan' = [u \in Tx |-> plan'[u]] /\ plan'[s] = None /\ \A u \in Tx : u # s => plan'[u] = plan[u]
  <2>1. \E x : x = None /\ plan' = [plan EXCEPT ![s] = x]
    OBVIOUS
  <2> QED BY <1>2, <2>1, PlanSet
<1>4. CommitTyped'
  BY <1>1, <1>3 DEF CommitTyped
<1>5. Queued(queue, sub', plan') /\ Called(writer.calls, sub', plan')
  <2>1. \A t \in Sub : plan[t] = None /\ sub[t] \in Parked => plan'[t] = None /\ sub'[t] = sub[t]
    BY <1>3, TxFacts
  <2>2. Queued(queue, sub, plan) /\ Called(writer.calls, sub, plan)
    BY DEF CommitInv
  <2> HIDE DEF Tx
  <2> QED BY ONLY <1>2, <2>1, <2>2, ItemsKept
<1>6. Arms'
  <2>1. \A t \in Sub : plan'[t] # None => sub'[t] \in Parked
    BY <1>1, <1>3, TxFacts DEF Arms
  <2>2. plan'[Writer] = plan[Writer]
    BY <1>2, <1>3, TxFacts
  <2>3. /\ plan'[Writer] # None => writer'.calls # <<>>
        /\ writer'.at = "get" => writer'.calls = <<>>
        /\ (\E i \in DOMAIN queue' : queue'[i] = Sentinel) => gate'.closed
    BY <1>1, <2>2 DEF Arms
  <2>4. Sentinel' = Sentinel
    BY DEF Sentinel
  <2> QED BY <2>1, <2>3, <2>4 DEF Arms
<1>7. OnceQueued(queue') /\ OnceCalled(writer'.calls) /\ Apart(queue', writer'.calls) /\ Sliced(writer'.calls)
  BY DEF CommitInv
<1>8. Queued(queue', sub', plan') /\ Called(writer'.calls, sub', plan')
  BY <1>5
<1>9. Truth(sub, lease)'
  BY DEF Truth
<1> QED BY <1>4, <1>6, <1>7, <1>8, <1>9
    DEF CommitInv, Queued, Called, OnceQueued, OnceCalled, Apart, Sliced

\* The calls of the writer, and the first of them.
LEMMA FirstCall ==
  ASSUME CommitInv, writer.calls # <<>>
  PROVE  /\ 1 \in DOMAIN writer.calls /\ Items = writer.calls[1].items
         /\ Head(writer.calls) = writer.calls[1]
         /\ Items \in Seq(Item) /\ Items # <<>> /\ OnceQueued(Items)
         /\ \A i \in DOMAIN Items :
              /\ Items[i].kind = Items[1].kind
              /\ sub[Items[i].by] = IF Items[i].kind = "finish" THEN "finishing" ELSE "closing"
<1>1. writer.calls \in Seq(CallOf)
  BY DEF CommitInv, CommitTyped
<1>2. DOMAIN writer.calls = 1..Len(writer.calls) /\ Len(writer.calls) \in Nat /\ Len(writer.calls) # 0
  BY <1>1, EmptySeq
<1>3. 1 \in DOMAIN writer.calls /\ Head(writer.calls) = writer.calls[1]
  BY <1>1, <1>2
<1>4. Items = writer.calls[1].items
  BY <1>3 DEF Items
<1>5. Items \in Seq(Item)
  BY <1>1, <1>3, <1>4, CallParts
<1>6. Items # <<>> /\ \A i \in DOMAIN Items : Items[i].kind = Items[1].kind
  BY <1>3, <1>4 DEF CommitInv, Sliced
<1>7. \A i \in DOMAIN Items : sub[Items[i].by] = IF Items[i].kind = "finish" THEN "finishing" ELSE "closing"
  BY <1>3, <1>4 DEF CommitInv, Called, Waits
<1>8. OnceQueued(Items)
  BY <1>3, <1>4 DEF CommitInv, OnceCalled, OnceQueued
<1> QED BY <1>3, <1>4, <1>5, <1>6, <1>7, <1>8

\* The calls after the first.
LEMMA OtherCalls ==
  ASSUME CommitInv, writer.calls # <<>>, NEW c, c = Tail(writer.calls)
  PROVE  /\ c \in Seq(CallOf) /\ Len(c) = Len(writer.calls) - 1 /\ Len(writer.calls) \in Nat
         /\ DOMAIN c = 1..Len(c)
         /\ \A k \in DOMAIN c : k + 1 \in DOMAIN writer.calls /\ k + 1 # 1 /\ c[k] = writer.calls[k + 1]
         /\ Sliced(c) /\ OnceCalled(c)
         /\ \A k \in DOMAIN c : \A i \in DOMAIN c[k].items :
              /\ \E l \in DOMAIN writer.calls : \E j \in DOMAIN writer.calls[l].items :
                   c[k].items[i] = writer.calls[l].items[j]
              /\ \A j \in DOMAIN Items : c[k].items[i].by # Items[j].by
<1>1. writer.calls \in Seq(CallOf)
  BY DEF CommitInv, CommitTyped
<1>2. /\ DOMAIN writer.calls = 1..Len(writer.calls) /\ Len(writer.calls) \in Nat
      /\ 1 \in DOMAIN writer.calls /\ Items = writer.calls[1].items
  BY <1>1, FirstCall
<1>3. /\ c \in Seq(CallOf) /\ Len(c) = Len(writer.calls) - 1 /\ DOMAIN c = 1..Len(c)
      /\ \A k \in 1..Len(c) : c[k] = writer.calls[k + 1]
  BY <1>1, HeadTailProperties
<1>4. \A k \in DOMAIN c : k + 1 \in DOMAIN writer.calls /\ k + 1 # 1 /\ c[k] = writer.calls[k + 1]
  BY <1>2, <1>3
<1>5. Sliced(c)
  BY <1>4 DEF CommitInv, Sliced
<1>6. OnceCalled(c)
  <2>1. \A k, l \in DOMAIN c : k + 1 = l + 1 => k = l
    BY <1>2, <1>3
  <2> QED BY <1>4, <2>1 DEF CommitInv, OnceCalled
<1>7. ASSUME NEW k \in DOMAIN c, NEW i \in DOMAIN c[k].items
      PROVE  /\ \E l \in DOMAIN writer.calls : \E j \in DOMAIN writer.calls[l].items :
                   c[k].items[i] = writer.calls[l].items[j]
             /\ \A j \in DOMAIN Items : c[k].items[i].by # Items[j].by
  BY <1>2, <1>4 DEF CommitInv, OnceCalled
<1> QED BY <1>2, <1>3, <1>4, <1>5, <1>6, <1>7

\* A transaction of the writer that has begun has a call.
LEMMA WriterBegun == CommitInv /\ ~ Idle(Writer) => writer.calls # <<>>
  BY DEF CommitInv, Arms, Idle

LEMMA CommitArmKeeps == CommitInv /\ CommitArm => CommitInv'
<1> SUFFICES ASSUME CommitInv, CommitArm PROVE CommitInv'
  OBVIOUS
<1>1. writer.calls # <<>>
  BY WriterBegun, EmptyPlan DEF CommitArm, Ready, Idle
<1>2. /\ Write(Items) /\ writer' = [writer EXCEPT !.calls = Tail(@)]
      /\ plan' = [plan EXCEPT ![Writer] = None] /\ UNCHANGED <<queue, gate>>
  BY DEF CommitArm, End
<1>3. /\ UNCHANGED reports /\ lease' \in [Exec -> LeaseStates]
      /\ request' \in [Exec -> RequestStates] /\ sub' \in [Sub -> Statuses]
      /\ Truth(sub', lease')
      /\ \A s \in Sub : (\A i \in DOMAIN Items : Items[i].by # s) => sub'[s] = sub[s]
  <2>1. CommitTyped /\ Truth(sub, lease)
    BY DEF CommitInv
  <2> HIDE DEF Items
  <2> QED BY <1>1, <1>2, <2>1, FirstCall, WriteTrue
<1>4. PICK c : c = Tail(writer.calls)
  OBVIOUS
<1>5. PICK answered : answered = {s \in Sub : \E j \in DOMAIN Items : Items[j].by = s}
  OBVIOUS
<1>6. writer' = [writer EXCEPT !.calls = c]
  BY <1>2, <1>4
<1>7. /\ c \in Seq(CallOf) /\ Sliced(c) /\ OnceCalled(c)
      /\ \A k \in DOMAIN c : \A i \in DOMAIN c[k].items :
           /\ c[k].items[i].by \notin answered
           /\ \E l \in DOMAIN writer.calls : \E j \in DOMAIN writer.calls[l].items :
                c[k].items[i] = writer.calls[l].items[j]
  <2>1. c \in Seq(CallOf) /\ Sliced(c) /\ OnceCalled(c)
    BY <1>1, <1>4, OtherCalls
  <2>2. ASSUME NEW k \in DOMAIN c, NEW i \in DOMAIN c[k].items
        PROVE  /\ \E l \in DOMAIN writer.calls : \E j \in DOMAIN writer.calls[l].items :
                    c[k].items[i] = writer.calls[l].items[j]
               /\ \A j \in DOMAIN Items : c[k].items[i].by # Items[j].by
    BY <1>1, <1>4, OtherCalls
  <2>3. \A k \in DOMAIN c : \A i \in DOMAIN c[k].items : c[k].items[i].by \notin answered
    BY <1>5, <2>2
  <2> QED BY <2>1, <2>2, <2>3
<1>8. /\ answered \in SUBSET Sub
      /\ \A s \in answered : \E j \in DOMAIN Items : Items[j].by = s
      /\ \A s \in Sub : s \notin answered => sub'[s] = sub[s]
  BY <1>3, <1>5
<1>9. plan' = [plan EXCEPT ![Writer] = None] /\ UNCHANGED <<reports, queue, gate>>
  BY <1>2, <1>3
<1>10. /\ lease' \in [Exec -> LeaseStates] /\ request' \in [Exec -> RequestStates]
       /\ sub' \in [Sub -> Statuses] /\ Truth(sub', lease')
  BY <1>3
<1> QED BY <1>1, <1>6, <1>7, <1>8, <1>9, <1>10, ArmKeeps, ZenonT(60)

\* Every item of these calls is one of the writer's.
Kept(c) ==
  \A k \in DOMAIN c : \A i \in DOMAIN c[k].items :
    \E l \in DOMAIN writer.calls : \E j \in DOMAIN writer.calls[l].items :
      c[k].items[i] = writer.calls[l].items[j]

\* The calls a failed shared transaction is run again as.
LEMMA SinglesFacts ==
  ASSUME CommitInv, writer.calls # <<>>, NEW c,
         c = [i \in DOMAIN Items |-> Call(<<Items[i]>>, FALSE)] \o Tail(writer.calls)
  PROVE  c \in Seq(CallOf) /\ Sliced(c) /\ OnceCalled(c) /\ Kept(c)
<1>1. PICK rest : rest = Tail(writer.calls)
  OBVIOUS
<1>2. /\ rest \in Seq(CallOf) /\ DOMAIN rest = 1..Len(rest) /\ Len(rest) \in Nat
      /\ \A k \in DOMAIN rest : /\ k + 1 \in DOMAIN writer.calls /\ k + 1 # 1
                                /\ rest[k] = writer.calls[k + 1]
      /\ Sliced(rest)
  <2>1. rest \in Seq(CallOf) => Len(rest) \in Nat
    OBVIOUS
  <2> QED BY <1>1, <2>1, OtherCalls
<1>3. PICK items : items = Items
  OBVIOUS
<1>4. /\ items \in Seq(Item) /\ 1 \in DOMAIN writer.calls /\ items = writer.calls[1].items
  BY <1>3, FirstCall
<1>5. PICK n : n = Len(items) /\ n \in Nat /\ DOMAIN items = 1..n
  BY <1>4
<1>6. PICK single : single = [i \in 1..n |-> Call(<<items[i]>>, FALSE)]
  OBVIOUS
<1>7. ASSUME NEW k \in 1..n
      PROVE  /\ single[k] \in CallOf /\ single[k].items = <<items[k]>> /\ ~ single[k].grouped
             /\ DOMAIN single[k].items = {1} /\ single[k].items[1] = items[k]
             /\ Len(single[k].items) = 1 /\ single[k].items # <<>>
  <2>1. items[k] \in Item
    BY <1>4, <1>5
  <2>2. PICK one : one = <<items[k]>>
    OBVIOUS
  <2>3. one \in Seq(Item) /\ DOMAIN one = {1} /\ one[1] = items[k] /\ Len(one) = 1 /\ one # <<>>
    BY <2>1, <2>2
  <2>4. single[k] = [items |-> one, grouped |-> FALSE]
    BY <1>6, <2>2 DEF Call
  <2>5. single[k].items = one /\ single[k].grouped = FALSE /\ single[k] \in CallOf
    BY <2>3, <2>4 DEF CallOf
  <2> QED BY <2>2, <2>3, <2>5
<1>8. single \in Seq(CallOf) /\ Len(single) = n
  <2>1. single = [k \in 1..n |-> single[k]] /\ \A k \in 1..n : single[k] \in CallOf
    BY <1>6, <1>7
  <2> QED BY <1>5, <2>1
<1>9. /\ c \in Seq(CallOf) /\ Len(c) = n + Len(rest) /\ DOMAIN c = 1..(n + Len(rest))
      /\ \A k \in 1..n : c[k] = single[k]
      /\ \A k \in (n + 1)..(n + Len(rest)) : c[k] = rest[k - n]
  <2>1. c = single \o rest
    BY <1>1, <1>3, <1>5, <1>6
  <2>2. c \in Seq(CallOf) /\ Len(c) = Len(single) + Len(rest)
    BY ONLY <1>2, <1>8, <2>1, ConcatProperties
  <2>3. \A k \in 1..Len(c) : c[k] = IF k <= Len(single) THEN single[k] ELSE rest[k - Len(single)]
    BY ONLY <1>2, <1>8, <2>1, <2>2
  <2>4. DOMAIN c = 1..(n + Len(rest))
    BY <1>8, <2>2
  <2>5. \A k \in 1..n : c[k] = single[k]
    <3>1. \A k \in 1..n : k \in 1..Len(c) /\ k <= Len(single)
      BY <1>2, <1>5, <1>8, <2>2
    <3> QED BY <2>3, <3>1
  <2>6. \A k \in (n + 1)..(n + Len(rest)) : c[k] = rest[k - n]
    <3>1. \A k \in (n + 1)..(n + Len(rest)) : k \in 1..Len(c) /\ ~ (k <= Len(single))
      BY <1>2, <1>5, <1>8, <2>2
    <3> QED BY <1>8, <2>3, <3>1
  <2> QED BY <1>8, <2>2, <2>4, <2>5, <2>6
<1>10. \A k \in DOMAIN c : \/ k \in 1..n /\ c[k] = single[k]
                           \/ k - n \in DOMAIN rest /\ k - n + 1 # 1 /\ c[k] = rest[k - n]
  <2>1. \A k \in DOMAIN c : k \in 1..n \/ (k \in (n + 1)..(n + Len(rest)) /\ k - n \in 1..Len(rest) /\ k - n + 1 # 1)
    BY <1>2, <1>5, <1>9
  <2> QED BY <1>2, <1>9, <2>1
\* Where an item of the new calls is in the old ones.
<1> DEFINE L(k) == IF k \in 1..n THEN 1 ELSE k - n + 1
           J(k, i) == IF k \in 1..n THEN k ELSE i
<1>11. ASSUME NEW k \in DOMAIN c, NEW i \in DOMAIN c[k].items
       PROVE  /\ L(k) \in DOMAIN writer.calls /\ J(k, i) \in DOMAIN writer.calls[L(k)].items
              /\ c[k].items[i] = writer.calls[L(k)].items[J(k, i)]
              /\ k \in 1..n => i = 1
              /\ k \notin 1..n => L(k) # 1
  <2>1. CASE k \in 1..n
    <3>1. i = 1 /\ c[k].items[i] = items[k]
      BY <1>7, <1>9, <2>1
    <3> QED BY <3>1, <2>1, <1>4, <1>5
  <2>2. CASE k \notin 1..n
    BY <1>2, <1>10, <2>2
  <2> QED BY <2>1, <2>2
<1>12. Sliced(c)
  <2> SUFFICES ASSUME NEW k \in DOMAIN c
               PROVE  /\ c[k].items # <<>>
                      /\ \A i \in DOMAIN c[k].items : c[k].items[i].kind = c[k].items[1].kind
                      /\ ~ c[k].grouped => Len(c[k].items) = 1
    BY DEF Sliced
  <2>1. CASE k \in 1..n
    BY <1>7, <1>9, <2>1
  <2>2. CASE k \notin 1..n
    <3>1. PICK m \in DOMAIN rest : c[k] = rest[m]
      BY <1>10, <2>2
    <3>2. /\ rest[m].items # <<>>
          /\ \A i \in DOMAIN rest[m].items : rest[m].items[i].kind = rest[m].items[1].kind
          /\ ~ rest[m].grouped => Len(rest[m].items) = 1
      BY <1>2 DEF Sliced
    <3> QED BY <3>1, <3>2
  <2> QED BY <2>1, <2>2
<1>13. OnceCalled(c)
  <2> SUFFICES ASSUME NEW k \in DOMAIN c, NEW h \in DOMAIN c,
                      NEW i \in DOMAIN c[k].items, NEW j \in DOMAIN c[h].items,
                      c[k].items[i].by = c[h].items[j].by
               PROVE  k = h /\ i = j
    BY DEF OnceCalled
  <2>1. /\ L(k) \in DOMAIN writer.calls /\ J(k, i) \in DOMAIN writer.calls[L(k)].items
        /\ L(h) \in DOMAIN writer.calls /\ J(h, j) \in DOMAIN writer.calls[L(h)].items
        /\ writer.calls[L(k)].items[J(k, i)].by = writer.calls[L(h)].items[J(h, j)].by
    BY <1>11
  <2> HIDE DEF L, J
  <2>2. L(k) = L(h) /\ J(k, i) = J(h, j)
    <3>1. OnceCalled(writer.calls)
      BY DEF CommitInv
    <3> QED BY ONLY <2>1, <3>1 DEF OnceCalled
  <2>3. k \in Int /\ h \in Int /\ n \in Int
    BY ONLY <1>5, <1>9, k \in DOMAIN c, h \in DOMAIN c
  <2> USE DEF L, J
  <2>4. /\ k \in 1..n => i = 1 /\ L(k) = 1
        /\ k \notin 1..n => L(k) # 1
        /\ h \in 1..n => j = 1 /\ L(h) = 1
        /\ h \notin 1..n => L(h) # 1
    BY <1>11
  <2>5. CASE k \in 1..n
    BY <2>2, <2>3, <2>4, <2>5
  <2>6. CASE k \notin 1..n
    BY ONLY <2>2, <2>3, <2>4, <2>6
  <2> QED BY <2>5, <2>6
<1>14. Kept(c)
  <2> HIDE DEF L, J
  <2> QED BY <1>11 DEF Kept
<1> QED BY <1>9, <1>12, <1>13, <1>14

\* A transaction of the writer fails: shared, its items are run alone; alone,
\* its commit gets the exception.
LEMMA RaiseArmKeeps == CommitInv /\ RaiseArm => CommitInv'
<1> SUFFICES ASSUME CommitInv, RaiseArm PROVE CommitInv'
  OBVIOUS
<1>1. writer.calls # <<>>
  BY WriterBegun DEF RaiseArm
<1>2. CommitTyped /\ Truth(sub, lease)
  BY DEF CommitInv
<1>3. /\ UNCHANGED <<reports, lease, request, queue, gate>>
      /\ plan' = [plan EXCEPT ![Writer] = None] /\ FailedCall
  BY DEF RaiseArm, End, rows
<1>4. lease' \in [Exec -> LeaseStates] /\ request' \in [Exec -> RequestStates]
  BY <1>2, <1>3 DEF CommitTyped
<1>5. CASE Head(writer.calls).grouped
  <2>1. UNCHANGED sub /\ \E c : /\ c = [i \in DOMAIN Items |-> Call(<<Items[i]>>, FALSE)] \o Tail(writer.calls)
                                /\ writer' = [writer EXCEPT !.calls = c]
    BY <1>3, <1>5 DEF FailedCall
  <2>2. PICK c : /\ c = [i \in DOMAIN Items |-> Call(<<Items[i]>>, FALSE)] \o Tail(writer.calls)
                 /\ writer' = [writer EXCEPT !.calls = c]
    BY <2>1
  <2>3. c \in Seq(CallOf) /\ Sliced(c) /\ OnceCalled(c)
    BY <1>1, <2>2, SinglesFacts
  <2>4. PICK answered \in SUBSET Sub : answered = {}
    OBVIOUS
  <2>5. \A k \in DOMAIN c : \A i \in DOMAIN c[k].items :
           /\ c[k].items[i].by \notin answered
           /\ \E l \in DOMAIN writer.calls : \E j \in DOMAIN writer.calls[l].items :
                c[k].items[i] = writer.calls[l].items[j]
    <3>1. Kept(c)
      BY <1>1, <2>2, SinglesFacts
    <3> QED BY <3>1, <2>4 DEF Kept
  <2>6. \A s \in answered : \E j \in DOMAIN Items : Items[j].by = s
    BY <2>4
  <2>7. /\ sub' \in [Sub -> Statuses] /\ Truth(sub', lease')
        /\ \A s \in Sub : s \notin answered => sub'[s] = sub[s]
    BY <1>2, <1>3, <2>1 DEF CommitTyped, Truth
  <2> QED BY <1>1, <1>3, <1>4, <2>2, <2>3, <2>5, <2>6, <2>7, ArmKeeps, ZenonT(60)
<1>6. CASE ~ Head(writer.calls).grouped
  <2>1. /\ writer' = [writer EXCEPT !.calls = Tail(@)]
        /\ sub' = [sub EXCEPT ![Items[1].by] = "error"]
    BY <1>3, <1>6 DEF FailedCall
  <2>2. PICK c : c = Tail(writer.calls)
    OBVIOUS
  <2>3. writer' = [writer EXCEPT !.calls = c]
    BY <2>1, <2>2
  <2>4. 1 \in DOMAIN Items /\ Items[1].by \in Sub
    BY <1>1, FirstCall, ItemsFacts
  <2>5. PICK answered \in SUBSET Sub : answered = {Items[1].by}
    BY <2>4
  <2>6. c \in Seq(CallOf) /\ Sliced(c) /\ OnceCalled(c)
    BY <1>1, <2>2, OtherCalls
  <2>7. \A k \in DOMAIN c : \A i \in DOMAIN c[k].items :
           /\ c[k].items[i].by \notin answered
           /\ \E l \in DOMAIN writer.calls : \E j \in DOMAIN writer.calls[l].items :
                c[k].items[i] = writer.calls[l].items[j]
    <3>1. ASSUME NEW k \in DOMAIN c, NEW i \in DOMAIN c[k].items
          PROVE  /\ \E l \in DOMAIN writer.calls : \E j \in DOMAIN writer.calls[l].items :
                      c[k].items[i] = writer.calls[l].items[j]
                 /\ \A j \in DOMAIN Items : c[k].items[i].by # Items[j].by
      BY <1>1, <2>2, OtherCalls, SMTT(60)
    <3> QED BY <3>1, <2>4, <2>5
  <2>8. \A s \in answered : \E j \in DOMAIN Items : Items[j].by = s
    BY <2>4, <2>5
  <2>9. /\ sub' \in [Sub -> Statuses] /\ sub'[Items[1].by] = "error"
        /\ \A s \in Sub : s # Items[1].by => sub'[s] = sub[s]
    BY <1>2, <2>1, <2>4 DEF CommitTyped, Statuses
  <2>10. \A s \in Sub : s \notin answered => sub'[s] = sub[s]
    BY <2>5, <2>9
  <2>11. Truth(sub', lease')
    BY <1>2, <1>3, <2>9 DEF Truth, Settled
  <2> QED BY <1>1, <1>3, <1>4, <2>3, <2>6, <2>7, <2>8, <2>9, <2>10, <2>11, ArmKeeps
<1> QED BY <1>5, <1>6

LEMMA CommitDirectKeeps ==
  ASSUME CommitInv, NEW s \in Sub, CommitDirect(s)
  PROVE  CommitInv'
<1>1. CommitTyped /\ Arms /\ Truth(sub, lease)
  BY DEF CommitInv
<1>2. plan[s] # None
  BY EmptyPlan DEF CommitDirect, Ready
<1>3. sub[s] \in Parked
  BY <1>1, <1>2 DEF Arms
<1>4. PICK it : it = ItemOf(s)
  OBVIOUS
<1>5. /\ it \in Item /\ it.by = s
      /\ sub[s] = IF it.kind = "finish" THEN "finishing" ELSE "closing"
  BY <1>3, <1>4 DEF ItemOf, Item, Parked
<1>6. PICK items : items = <<it>>
  OBVIOUS
<1>7. items \in Seq(Item) /\ items # <<>> /\ DOMAIN items = {1} /\ items[1] = it
  BY <1>5, <1>6
<1>8. Write(items) /\ UNCHANGED <<queue, gate, writer>> /\ plan' = [plan EXCEPT ![s] = None]
  BY <1>4, <1>6 DEF CommitDirect, End
<1>9. /\ OnceQueued(items)
      /\ \A i \in DOMAIN items :
           /\ items[i].kind = items[1].kind
           /\ sub[items[i].by] = IF items[i].kind = "finish" THEN "finishing" ELSE "closing"
  BY <1>5, <1>7 DEF OnceQueued
<1>10. /\ UNCHANGED reports /\ lease' \in [Exec -> LeaseStates]
       /\ request' \in [Exec -> RequestStates] /\ sub' \in [Sub -> Statuses]
       /\ Truth(sub', lease')
       /\ \A t \in Sub : (\A i \in DOMAIN items : items[i].by # t) => sub'[t] = sub[t]
  BY <1>1, <1>7, <1>8, <1>9, WriteTrue
<1>11. \A t \in Sub : t # s => sub'[t] = sub[t]
  BY <1>5, <1>7, <1>10
<1> QED BY <1>2, <1>8, <1>10, <1>11, DirectKeeps

LEMMA RaiseDirectKeeps ==
  ASSUME CommitInv, NEW s \in Sub, RaiseDirect(s)
  PROVE  CommitInv'
<1>1. CommitTyped /\ Truth(sub, lease)
  BY DEF CommitInv
<1>2. /\ plan[s] # None /\ UNCHANGED <<reports, lease, request, queue, gate, writer>>
      /\ plan' = [plan EXCEPT ![s] = None] /\ sub' = [sub EXCEPT ![s] = "error"]
  BY DEF RaiseDirect, End, rows, Idle
<1>3. /\ sub' \in [Sub -> Statuses] /\ sub'[s] = "error"
      /\ \A t \in Sub : t # s => sub'[t] = sub[t]
  BY <1>1, <1>2 DEF CommitTyped, Statuses
<1>4. lease' \in [Exec -> LeaseStates] /\ request' \in [Exec -> RequestStates]
  BY <1>1, <1>2 DEF CommitTyped
<1>5. Truth(sub', lease')
  BY <1>1, <1>2, <1>3 DEF Truth, Settled
<1> QED BY <1>2, <1>3, <1>4, <1>5, DirectKeeps

\* The end of a transaction in a cycle: it has begun, and is retried or raises.
LEMMA BreakCycleKeeps ==
  ASSUME CommitInv, NEW t \in Tx, BreakCycle(t)
  PROVE  CommitInv'
<1>1. plan[t] # None
  BY DEF BreakCycle, Cycles, Waiting, Blocker, Working, Idle
<1>2. CASE MayRetry(t)
  <2>1. /\ UNCHANGED <<rows, sub, queue, gate, writer>>
        /\ \E x : /\ plan' = [plan EXCEPT ![t] = x]
                  /\ t = Writer => x = None
    BY <1>2 DEF BreakCycle
  <2>2. PICK x : plan' = [plan EXCEPT ![t] = x] /\ (t = Writer => x = None)
    BY <2>1
  <2>3. /\ UNCHANGED <<reports, sub, queue, gate, writer>>
        /\ lease' \in [Exec -> LeaseStates] /\ request' \in [Exec -> RequestStates]
        /\ \A e \in Exec : lease[e] = "released" => lease'[e] = "released"
    BY <2>1 DEF CommitInv, CommitTyped, rows
  <2> QED BY <1>1, <2>2, <2>3, PlanKeeps
<1>3. CASE ~ MayRetry(t)
  <2>1. \/ t = Writer /\ RaiseArm
        \/ t \in Sub /\ RaiseDirect(t)
        \/ t \in Background /\ End(t) /\ UNCHANGED <<rows, batcher>>
    BY <1>3 DEF BreakCycle
  <2> QED BY <2>1, RaiseArmKeeps, RaiseDirectKeeps, OthersKeep
<1> QED BY <1>2, <1>3

-----------------------------------------------------------------------------
(* The theorem.                                                            *)

LEMMA CommitInvInit == Init => CommitInv
<1> SUFFICES ASSUME Init PROVE CommitInv
  OBVIOUS
<1>1. /\ reports \in [Sub -> Exec] /\ lease = [e \in Exec |-> "active"]
      /\ request = [e \in Exec |-> "claimed"] /\ sub = [s \in Sub |-> "ready"]
      /\ queue = <<>> /\ gate = [closed |-> FALSE, stop |-> FALSE]
      /\ writer = [at |-> "loop", calls |-> <<>>] /\ plan = [t \in Tx |-> None]
  BY DEF Init, BatcherInit, LocksInit
<1>2. CommitTyped
  BY <1>1 DEF CommitTyped, Statuses, LeaseStates, RequestStates
<1>3. DOMAIN queue = {} /\ DOMAIN writer.calls = {}
  BY <1>1
<1>4. Arms
  BY <1>1, <1>3, TxFacts DEF Arms
<1>5. Truth(sub, lease)
  BY <1>1 DEF Truth, Settled
<1> QED BY <1>2, <1>3, <1>4, <1>5 DEF CommitInv, Queued, Called, OnceQueued, OnceCalled, Apart, Sliced

LEMMA CommitInvStep == CommitInv /\ [Next]_vars => CommitInv'
<1> SUFFICES ASSUME CommitInv, [Next]_vars PROVE CommitInv'
  OBVIOUS
<1>1. CASE UNCHANGED vars
  <2>1. UNCHANGED <<reports, lease, request, sub, queue, gate, writer, plan>>
    BY <1>1 DEF vars, lockVars, rows, batcher
  <2>2. CommitTyped /\ Arms
    BY DEF CommitInv
  <2>3. /\ writer' \in [at : {"loop", "get", "drain", "dead"}, calls : Seq(CallOf)]
        /\ writer'.calls = writer.calls
        /\ writer'.at = "get" => writer.calls = <<>>
    BY <2>1, <2>2 DEF CommitTyped, Arms
  <2>4. /\ lease' \in [Exec -> LeaseStates] /\ request' \in [Exec -> RequestStates]
        /\ plan' = [t \in Tx |-> plan'[t]]
        /\ plan'[Writer] # None => writer.calls # <<>>
    BY <2>1, <2>2 DEF CommitTyped, Arms
  <2>5. /\ \A e \in Exec : lease[e] = "released" => lease'[e] = "released"
        /\ \A s \in Sub : plan[s] = None => plan'[s] = None
    BY <2>1
  <2> QED BY <2>1, <2>3, <2>4, <2>5, LocksKeep
<1>2. CASE WriterLoop
  BY <1>2, LoopTestKeeps, TakeBatchKeeps, DrainKeeps, OthersKeep DEF WriterLoop
<1>3. CASE RaiseArm
  BY <1>3, RaiseArmKeeps
<1>4. CASE BeginHeartbeat \/ BeginSweep \/ BeginClaim
  BY <1>4, OthersKeep
<1>5. ASSUME NEW s \in Sub, Submit(s) \/ RaiseDirect(s) PROVE CommitInv'
  BY <1>5, SubmitKeeps, RaiseDirectKeeps
<1>6. CASE Stop
  BY <1>6, StopKeeps
<1>7. ASSUME NEW t \in Tx, Progress(t) PROVE CommitInv'
  BY <1>7, OthersKeep, CommitArmKeeps, CommitDirectKeeps DEF Progress
<1>8. ASSUME NEW t \in Tx, BreakCycle(t) PROVE CommitInv'
  BY <1>8, BreakCycleKeeps
<1> QED BY <1>1, <1>2, <1>3, <1>4, <1>5, <1>6, <1>7, <1>8 DEF Next

LEMMA CommitInvHolds == Spec => []CommitInv
<1>1. Init => CommitInv
  BY CommitInvInit
<1>2. CommitInv /\ [Next]_vars => CommitInv'
  BY CommitInvStep
<1> QED BY <1>1, <1>2, PTL DEF Spec

\* Group commit, isolation: whatever the batch a result is written in, at most
\* one commit of an execution is told that it finished it, and then the lease
\* is released.
THEOREM VerdictsAreTrueHolds == Spec => []VerdictsAreTrue
<1>1. CommitInv => VerdictsAreTrue
  <2> SUFFICES ASSUME CommitInv, NEW e \in Exec, NEW told,
                      told = {s \in Sub : ExecOf(s) = e /\ sub[s] \in {"finished", "closing", "closed"}}
               PROVE  Cardinality(told) <= 1 /\ (told # {} => lease[e] = "released")
    BY DEF VerdictsAreTrue
  <2>1. Truth(sub, lease)
    BY DEF CommitInv
  <2>2. \A s \in told : s \in Sub /\ sub[s] \in Settled /\ reports[s] = e
    BY DEF ExecOf, Settled
  <2>3. told # {} => lease[e] = "released"
    BY <2>1, <2>2 DEF Truth
  <2>4. CASE told = {}
    BY <2>3, <2>4, FS_EmptySet
  <2>5. CASE told # {}
    <3>1. PICK s \in told : TRUE
      BY <2>5
    <3>2. told = {s}
      BY <3>1, <2>1, <2>2 DEF Truth
    <3>3. Cardinality(told) = 1
      BY <3>2, FS_Singleton
    <3> QED BY <3>3, <2>3
  <2> QED BY <2>4, <2>5
<1>2. Spec => []CommitInv
  BY CommitInvHolds
<1> QED BY <1>1, <1>2, PTL

-----------------------------------------------------------------------------
(* The order of the locks.  Each transaction takes its job and lease locks *)
(* by rising rank.  The sweep takes leases by lock key and not by          *)
(* execution, but nobody waits for it there: who takes a lease has its     *)
(* guards before, the job lock or the request row.                         *)

Rank(t, l) == IF l[1] = "job" THEN l[2] ELSE IF t = Sweep THEN HashSpace ELSE HashSpace + l[2]
Guards(t, e) ==
  (IF t = Heartbeat THEN {} ELSE {Job(e)}) \cup (IF t \in {Heartbeat, Sweep} THEN {Request(e)} ELSE {})

RisingPlan(t, p) ==
  \A i, j \in DOMAIN p : i < j /\ p[i][1] # "request" /\ p[j][1] # "request" => Rank(t, p[i]) <= Rank(t, p[j])
HeldBelow(t, p, H) ==
  \A l \in H, j \in DOMAIN p : l[1] # "request" /\ p[j][1] # "request" => Rank(t, l) <= Rank(t, p[j])
GuardsPlanned(t, p, H) ==
  \A i \in DOMAIN p : p[i][1] = "lease" =>
    \A g \in Guards(t, p[i][2]) :
      g \in H \/ \E j \in DOMAIN p : j < i /\ p[j] = g /\ (t = Heartbeat => j = i - 1)
GuardsHeld(t, H) == \A l \in H : l[1] = "lease" => Guards(t, l[2]) \subseteq H
RowPairs(t, p) ==
  /\ t = Sweep => \A i \in DOMAIN p : p[i][1] # "request"
  /\ t = Heartbeat => \A i \in DOMAIN p : p[i][1] = "request" => i + 1 \in DOMAIN p /\ p[i + 1][1] = "lease"
Orderly(t, p, H) ==
  /\ p \in Seq(Lock) /\ RisingPlan(t, p) /\ HeldBelow(t, p, H)
  /\ GuardsPlanned(t, p, H) /\ GuardsHeld(t, H) /\ RowPairs(t, p)
Disciplined(t, p, H) == IF p = None THEN H = {} ELSE Orderly(t, p, H)
Held(ho, t) == {l \in Lock : ho[l] = t}
OrderInv ==
  /\ holder \in [Lock -> Tx \cup {None}]
  /\ \A t \in Tx : Disciplined(t, plan[t], Held(holder, t))

\* The kinds of locks.
LEMMA LockFacts ==
  /\ \A l \in Lock :
       /\ l[1] \in {"job", "request", "lease"}
       /\ l[1] = "job" => l[2] \in Int /\ l[2] < HashSpace /\ l = <<"job", l[2]>>
       /\ l[1] = "request" => l[2] \in Exec /\ l = Request(l[2])
       /\ l[1] = "lease" => l[2] \in Exec /\ l = Lease(l[2])
  /\ \A j \in 1..Jobs : Job(j) \in Lock /\ Job(j)[1] = "job" /\ Job(j)[2] = JobKey(j)
  /\ \A e \in Exec : /\ e \in 1..Jobs /\ e \in Int /\ e > 0 /\ Request(e) \in Lock /\ Lease(e) \in Lock
                     /\ Request(e)[1] = "request" /\ Lease(e)[1] = "lease"
                     /\ Request(e)[2] = e /\ Lease(e)[2] = e
  /\ HashSpace \in Int /\ HashSpace > 0
<1>1. HashSpace \in Nat /\ HashSpace > 0 /\ Execs \in Nat /\ Jobs \in Nat /\ Execs <= Jobs
  BY LockAssumption
<1>2. \A j \in 1..Jobs : JobKey(j) \in Int /\ JobKey(j) < HashSpace
  BY <1>1 DEF JobKey
<1>3. ASSUME NEW l \in Lock
      PROVE  \/ \E j \in 1..Jobs : l = <<"job", JobKey(j)>>
             \/ \E e \in Exec : l = <<"request", e>>
             \/ \E e \in Exec : l = <<"lease", e>>
  BY DEF Lock, Job, Request, Lease
<1>4. ASSUME NEW l \in Lock
      PROVE  /\ l[1] \in {"job", "request", "lease"}
             /\ l[1] = "job" => l[2] \in Int /\ l[2] < HashSpace /\ l = <<"job", l[2]>>
             /\ l[1] = "request" => l[2] \in Exec /\ l = Request(l[2])
             /\ l[1] = "lease" => l[2] \in Exec /\ l = Lease(l[2])
  <2>1. CASE \E j \in 1..Jobs : l = <<"job", JobKey(j)>>
    BY <2>1, <1>2
  <2>2. CASE \E e \in Exec : l = <<"request", e>>
    BY <2>2 DEF Request
  <2>3. CASE \E e \in Exec : l = <<"lease", e>>
    BY <2>3 DEF Lease
  <2> QED BY <1>3, <2>1, <2>2, <2>3
<1>5. ASSUME NEW j \in 1..Jobs PROVE Job(j) \in Lock /\ Job(j)[1] = "job" /\ Job(j)[2] = JobKey(j)
  BY DEF Job, Lock
<1>6. ASSUME NEW e \in Exec
      PROVE  /\ e \in 1..Jobs /\ e \in Int /\ e > 0 /\ Request(e) \in Lock /\ Lease(e) \in Lock
             /\ Request(e)[1] = "request" /\ Lease(e)[1] = "lease"
             /\ Request(e)[2] = e /\ Lease(e)[2] = e
  <2>1. e \in 1..Jobs /\ e \in Int /\ e > 0
    BY <1>1 DEF Exec
  <2> QED BY <2>1 DEF Request, Lease, Lock
<1> QED BY <1>1, <1>4, <1>5, <1>6

\* What is left of a plan.
LEMMA TailFacts ==
  ASSUME NEW p \in Seq(Lock), p # <<>>, NEW q, q = Tail(p)
  PROVE  /\ q \in Seq(Lock) /\ Head(p) = p[1] /\ 1 \in DOMAIN p /\ p[1] \in Lock
         /\ \A i \in DOMAIN p : i \in Int /\ i >= 1
         /\ \A i \in DOMAIN q : i \in Int /\ i >= 1 /\ i + 1 \in DOMAIN p /\ q[i] = p[i + 1]
         /\ \A i \in DOMAIN p : i # 1 => i - 1 \in DOMAIN q
<1>1. Len(p) \in Nat /\ Len(p) # 0 /\ DOMAIN p = 1..Len(p) /\ \A i \in DOMAIN p : p[i] \in Lock
  BY EmptySeq
<1>2. q \in Seq(Lock) /\ Len(q) = Len(p) - 1 /\ \A i \in 1..Len(q) : q[i] = p[i + 1]
  BY HeadTailProperties
<1>3. DOMAIN q = 1..(Len(p) - 1)
  BY <1>2
<1>4. Head(p) = p[1]
  OBVIOUS
<1> QED BY <1>1, <1>2, <1>3, <1>4

\* A plan loses its head: either the lock is held now, or it is a row that
\* the statement does not match.
LEMMA HeadGone ==
  ASSUME NEW t \in Tx, NEW p, NEW H \in SUBSET Lock, Orderly(t, p, H), p # <<>>,
         NEW q, q = Tail(p), NEW G,
         \/ G = H \cup {Head(p)}
         \/ G = H /\ Head(p)[1] = "lease"
         \/ G = H /\ Head(p)[1] = "request" /\ t # Heartbeat
  PROVE  Orderly(t, q, G)
<1>1. /\ p \in Seq(Lock) /\ RisingPlan(t, p) /\ HeldBelow(t, p, H)
      /\ GuardsPlanned(t, p, H) /\ GuardsHeld(t, H) /\ RowPairs(t, p)
  BY DEF Orderly
<1>2. /\ q \in Seq(Lock) /\ Head(p) = p[1] /\ 1 \in DOMAIN p /\ p[1] \in Lock
      /\ \A i \in DOMAIN p : i \in Int /\ i >= 1
      /\ \A i \in DOMAIN q : i \in Int /\ i >= 1 /\ i + 1 \in DOMAIN p /\ q[i] = p[i + 1]
      /\ \A i \in DOMAIN p : i # 1 => i - 1 \in DOMAIN q
  BY <1>1, TailFacts
<1>3. H \subseteq G /\ \A l \in G : l \in H \/ l = p[1]
  BY <1>2
<1>4. RisingPlan(t, q)
  BY <1>1, <1>2 DEF RisingPlan
<1>5. HeldBelow(t, q, G)
  <2> SUFFICES ASSUME NEW l \in G, NEW j \in DOMAIN q, l[1] # "request", q[j][1] # "request"
               PROVE  Rank(t, l) <= Rank(t, q[j])
    BY DEF HeldBelow
  <2>1. j + 1 \in DOMAIN p /\ q[j] = p[j + 1] /\ 1 < j + 1
    BY <1>2
  <2>2. CASE l \in H
    BY <2>1, <2>2, <1>1 DEF HeldBelow
  <2>3. CASE l = p[1]
    BY <2>1, <2>3, <1>1, <1>2 DEF RisingPlan
  <2> QED BY <1>3, <2>2, <2>3
<1>6. GuardsPlanned(t, q, G)
  <2> SUFFICES ASSUME NEW i \in DOMAIN q, q[i][1] = "lease", NEW g \in Guards(t, q[i][2]), g \notin G
               PROVE  \E j \in DOMAIN q : j < i /\ q[j] = g /\ (t = Heartbeat => j = i - 1)
    BY DEF GuardsPlanned
  <2>1. i \in Int /\ i >= 1 /\ i + 1 \in DOMAIN p /\ q[i] = p[i + 1]
    BY <1>2
  <2>2. PICK j \in DOMAIN p : j < i + 1 /\ p[j] = g /\ (t = Heartbeat => j = i + 1 - 1)
    BY <2>1, <1>1, <1>3 DEF GuardsPlanned
  <2>3. g[1] \in {"job", "request"} /\ (g[1] = "request" => t \in {Heartbeat, Sweep})
    BY DEF Guards, Job, Request
  <2>4. j # 1
    <3> SUFFICES ASSUME j = 1 PROVE FALSE
      OBVIOUS
    <3>1. G = H /\ p[1] = g
      BY <2>2, <1>2
    <3>2. p[1][1] = "request" /\ t = Sweep
      BY <2>3, <3>1, <1>2
    <3> QED BY <3>2, <1>1, <1>2 DEF RowPairs
  <2>5. j - 1 \in DOMAIN q /\ q[j - 1] = p[j - 1 + 1] /\ j - 1 + 1 = j /\ j - 1 < i
    <3>1. j \in Int /\ j - 1 \in DOMAIN q
      BY <1>2, <2>4
    <3>2. j - 1 + 1 = j /\ j - 1 < i
      BY <2>1, <2>2, <3>1
    <3> QED BY <1>2, <3>1, <3>2
  <2>6. t = Heartbeat => j - 1 = i - 1
    BY <1>2, <2>1, <2>2
  <2> QED BY <2>2, <2>5, <2>6
<1>7. GuardsHeld(t, G)
  <2> SUFFICES ASSUME NEW l \in G, l[1] = "lease", NEW g \in Guards(t, l[2]) PROVE g \in H
    BY <1>3 DEF GuardsHeld
  <2>1. CASE l \in H
    BY <2>1, <1>1 DEF GuardsHeld
  <2>2. CASE l = p[1]
    <3>1. g \in H \/ \E j \in DOMAIN p : j < 1
      BY <2>2, <1>1, <1>2 DEF GuardsPlanned
    <3> QED BY <3>1, <1>2
  <2> QED BY <1>3, <2>1, <2>2
<1>8. RowPairs(t, q)
  <2>1. ASSUME t = Heartbeat, NEW i \in DOMAIN q, q[i][1] = "request"
        PROVE  i + 1 \in DOMAIN q /\ q[i + 1][1] = "lease"
    <3>1. i \in Int /\ i >= 1 /\ i + 1 \in DOMAIN p /\ p[i + 1][1] = "request"
      BY <2>1, <1>2
    <3>2. i + 1 + 1 \in DOMAIN p /\ p[i + 1 + 1][1] = "lease"
      BY <2>1, <3>1, <1>1 DEF RowPairs
    <3>3. i + 1 + 1 - 1 \in DOMAIN q /\ i + 1 + 1 - 1 = i + 1
      BY <3>1, <3>2, <1>2, SMTT(60)
    <3> QED BY <3>2, <3>3, <1>2
  <2> QED BY <2>1, <1>1, <1>2 DEF RowPairs
<1> QED BY <1>2, <1>4, <1>5, <1>6, <1>7, <1>8 DEF Orderly

\* A heartbeat skips an execution whose request is no more claimed.
LEMMA PairGone ==
  ASSUME NEW p, NEW H \in SUBSET Lock, Orderly(Heartbeat, p, H), p # <<>>, Head(p)[1] = "request",
         NEW q, q = Tail(Tail(p))
  PROVE  Orderly(Heartbeat, q, H)
<1>1. /\ p \in Seq(Lock) /\ RisingPlan(Heartbeat, p) /\ HeldBelow(Heartbeat, p, H)
      /\ GuardsPlanned(Heartbeat, p, H) /\ GuardsHeld(Heartbeat, H) /\ RowPairs(Heartbeat, p)
  BY DEF Orderly
<1>2. PICK r : r = Tail(p)
  OBVIOUS
<1>3. /\ r \in Seq(Lock) /\ Head(p) = p[1] /\ 1 \in DOMAIN p /\ p[1] \in Lock
      /\ \A i \in DOMAIN p : i \in Int /\ i >= 1
      /\ \A i \in DOMAIN r : i \in Int /\ i >= 1 /\ i + 1 \in DOMAIN p /\ r[i] = p[i + 1]
      /\ \A i \in DOMAIN p : i # 1 => i - 1 \in DOMAIN r
  BY <1>1, <1>2, TailFacts
<1>4. 1 + 1 \in DOMAIN p /\ p[1 + 1][1] = "lease"
  BY <1>1, <1>3 DEF RowPairs
<1>5. r # <<>>
  <2>1. 1 + 1 - 1 \in DOMAIN r
    BY <1>3, <1>4
  <2> QED BY <2>1
<1>6. /\ q \in Seq(Lock)
      /\ \A i \in DOMAIN q : i \in Int /\ i >= 1 /\ i + 1 \in DOMAIN r /\ q[i] = r[i + 1]
      /\ \A i \in DOMAIN r : i # 1 => i - 1 \in DOMAIN q
  BY <1>2, <1>3, <1>5, TailFacts
<1>7. \A i \in DOMAIN q : i \in Int /\ i >= 1 /\ i + 2 \in DOMAIN p /\ q[i] = p[i + 2]
  <2> SUFFICES ASSUME NEW i \in DOMAIN q PROVE i \in Int /\ i >= 1 /\ i + 2 \in DOMAIN p /\ q[i] = p[i + 2]
    OBVIOUS
  <2>1. i \in Int /\ i >= 1 /\ i + 1 \in DOMAIN r /\ q[i] = r[i + 1]
    BY <1>6
  <2>2. i + 1 + 1 = i + 2
    BY <2>1
  <2> QED BY <1>3, <2>1, <2>2
<1>8. \A i \in DOMAIN p : i # 1 /\ i # 2 => i - 2 \in DOMAIN q
  <2> SUFFICES ASSUME NEW i \in DOMAIN p, i # 1, i # 2 PROVE i - 2 \in DOMAIN q
    OBVIOUS
  <2>1. i \in Int /\ i - 1 \in DOMAIN r
    BY <1>3
  <2>2. i - 1 # 1 /\ i - 1 - 1 = i - 2
    BY <2>1
  <2> QED BY <1>6, <2>1, <2>2
<1>9. RisingPlan(Heartbeat, q) /\ HeldBelow(Heartbeat, q, H)
  <2>1. RisingPlan(Heartbeat, q)
    <3>1. \A i, j \in DOMAIN q : i < j => i + 2 < j + 2
      BY <1>7
    <3> QED BY <3>1, <1>1, <1>7 DEF RisingPlan
  <2>2. HeldBelow(Heartbeat, q, H)
    BY <1>1, <1>7 DEF HeldBelow
  <2> QED BY <2>1, <2>2
<1>10. GuardsPlanned(Heartbeat, q, H)
  <2> SUFFICES ASSUME NEW i \in DOMAIN q, q[i][1] = "lease", NEW g \in Guards(Heartbeat, q[i][2]), g \notin H
               PROVE  \E j \in DOMAIN q : j < i /\ q[j] = g /\ j = i - 1
    BY DEF GuardsPlanned
  <2>1. i \in Int /\ i >= 1 /\ i + 2 \in DOMAIN p /\ q[i] = p[i + 2]
    BY <1>7
  <2>2. PICK j \in DOMAIN p : p[j] = g /\ j = i + 2 - 1
    BY <2>1, <1>1 DEF GuardsPlanned
  <2>3. g[1] = "request"
    BY DEF Guards, Request
  <2>4. j # 1 /\ j # 2
    BY <2>1, <2>2, <2>3, <1>4
  <2>5. j - 2 \in DOMAIN q
    BY <1>8, <2>4
  <2>6. j - 2 = i - 1 /\ i - 1 < i /\ j - 2 + 2 = j
    BY <2>1, <2>2
  <2>7. q[i - 1] = g /\ i - 1 \in DOMAIN q
    BY <1>7, <2>2, <2>5, <2>6
  <2> QED BY <2>6, <2>7
<1>11. RowPairs(Heartbeat, q)
  <2>1. ASSUME NEW i \in DOMAIN q, q[i][1] = "request"
        PROVE  i + 1 \in DOMAIN q /\ q[i + 1][1] = "lease"
    <3>1. i \in Int /\ i >= 1 /\ i + 2 \in DOMAIN p /\ p[i + 2][1] = "request"
      BY <2>1, <1>7
    <3>2. i + 2 + 1 \in DOMAIN p /\ p[i + 2 + 1][1] = "lease"
      BY <3>1, <1>1 DEF RowPairs
    <3>3. i + 2 + 1 # 1 /\ i + 2 + 1 # 2 /\ i + 2 + 1 - 2 = i + 1 /\ i + 1 + 2 = i + 2 + 1
      BY <3>1
    <3>4. i + 1 \in DOMAIN q
      BY <1>8, <3>2, <3>3
    <3> QED BY <1>7, <3>2, <3>3, <3>4
  <2>2. Heartbeat # Sweep
    BY DEF Heartbeat, Sweep
  <2> QED BY <2>1, <2>2 DEF RowPairs
<1> QED BY <1>1, <1>6, <1>9, <1>10, <1>11 DEF Orderly

-----------------------------------------------------------------------------
(* The plans transactions begin with.                                      *)

\* Requests only, as many and in whatever order.
LEMMA RequestsOrderly ==
  ASSUME NEW t \in Tx, t \notin {Sweep, Heartbeat}, NEW p \in Seq(Lock),
         \A i \in DOMAIN p : p[i][1] = "request"
  PROVE  Orderly(t, p, {})
BY DEF Orderly, RisingPlan, HeldBelow, GuardsPlanned, GuardsHeld, RowPairs

\* A heartbeat takes request and lease of one execution after another.
LEMMA HeartbeatOrderly ==
  ASSUME NEW p, p = [i \in 1..(2 * Execs) |-> IF i % 2 = 1 THEN Request((i + 1) \div 2) ELSE Lease(i \div 2)]
  PROVE  Orderly(Heartbeat, p, {})
<1>1. Execs \in Nat /\ DOMAIN p = 1..(2 * Execs)
  BY LockAssumption
<1>2. ASSUME NEW i \in 1..(2 * Execs)
      PROVE  /\ i % 2 = 1 => /\ (i + 1) \div 2 \in Exec /\ i + 1 \in 1..(2 * Execs) /\ (i + 1) % 2 # 1
             /\ i % 2 # 1 => /\ i \div 2 \in Exec /\ i - 1 \in 1..(2 * Execs) /\ (i - 1) % 2 = 1
                             /\ (i - 1 + 1) \div 2 = i \div 2
  BY <1>1 DEF Exec
<1>3. ASSUME NEW i \in 1..(2 * Execs)
      PROVE  /\ p[i] \in Lock
             /\ i % 2 = 1 => p[i] = Request((i + 1) \div 2) /\ p[i][1] = "request"
             /\ i % 2 # 1 => p[i] = Lease(i \div 2) /\ p[i][1] = "lease" /\ p[i][2] = i \div 2
  <2>1. p[i] = IF i % 2 = 1 THEN Request((i + 1) \div 2) ELSE Lease(i \div 2)
    OBVIOUS
  <2> QED BY <2>1, <1>2, LockFacts
<1>4. p \in Seq(Lock)
  <2>1. 2 * Execs \in Nat /\ p = [i \in 1..(2 * Execs) |-> p[i]]
    BY <1>1
  <2> QED BY <2>1, <1>3
<1>5. RisingPlan(Heartbeat, p)
  <2> SUFFICES ASSUME NEW i \in 1..(2 * Execs), NEW j \in 1..(2 * Execs), i < j,
                      p[i][1] # "request", p[j][1] # "request"
               PROVE  Rank(Heartbeat, p[i]) <= Rank(Heartbeat, p[j])
    BY <1>1 DEF RisingPlan
  <2>1. i % 2 # 1 /\ j % 2 # 1
    BY <1>3
  <2>2. p[i][1] = "lease" /\ p[i][2] = i \div 2 /\ p[j][1] = "lease" /\ p[j][2] = j \div 2
    BY <2>1, <1>3
  <2>3. i \div 2 <= j \div 2 /\ i \div 2 \in Int /\ j \div 2 \in Int
    BY <1>1
  <2> QED BY <2>2, <2>3, LockFacts DEF Rank, Heartbeat, Sweep
<1>6. GuardsPlanned(Heartbeat, p, {})
  <2> SUFFICES ASSUME NEW i \in DOMAIN p, p[i][1] = "lease", NEW g \in Guards(Heartbeat, p[i][2])
               PROVE  g \in {} \/ \E j \in DOMAIN p : j < i /\ p[j] = g /\ (Heartbeat = Heartbeat => j = i - 1)
    BY DEF GuardsPlanned
  <2>1. i \in 1..(2 * Execs) /\ i % 2 # 1
    BY <1>1, <1>3
  <2>2. p[i][2] = i \div 2 /\ g = Request(p[i][2])
    BY <2>1, <1>3 DEF Guards
  <2>3. i - 1 \in 1..(2 * Execs) /\ (i - 1) % 2 = 1 /\ (i - 1 + 1) \div 2 = i \div 2
    BY <2>1, <1>2
  <2>4. p[i - 1] = Request(i \div 2)
    BY <2>3, <1>3
  <2>5. i - 1 < i
    BY <2>1, <1>1
  <2> QED BY <1>1, <2>2, <2>3, <2>4, <2>5
<1>7. RowPairs(Heartbeat, p)
  <2>1. ASSUME NEW i \in 1..(2 * Execs), p[i][1] = "request"
        PROVE  i + 1 \in DOMAIN p /\ p[i + 1][1] = "lease"
    <3>1. i % 2 = 1
      BY <2>1, <1>3
    <3> QED BY <3>1, <1>1, <1>2, <1>3
  <2>2. Heartbeat # Sweep
    BY DEF Heartbeat, Sweep
  <2> QED BY <2>1, <2>2, <1>1 DEF RowPairs
<1> QED BY <1>4, <1>5, <1>6, <1>7 DEF Orderly, HeldBelow, GuardsHeld

\* job_mutation_lock_keys: jobs by lock key.
LEMMA LockOrderFacts ==
  ASSUME NEW S \in SUBSET (1..Jobs), NEW q, q = InLockOrder(S)
  PROVE  /\ q \in Seq(S) /\ Len(q) \in Nat /\ DOMAIN q = 1..Len(q)
         /\ \A i \in DOMAIN q : q[i] \in S
         /\ \A a \in S : \E i \in DOMAIN q : q[i] = a
         /\ \A i, j \in DOMAIN q : i < j => JobKey(q[i]) <= JobKey(q[j])
<1>1. Jobs \in Nat /\ HashSpace \in Nat /\ HashSpace > 0
  BY LockAssumption
<1>2. IsFiniteSet(S)
  <2>1. IsFiniteSet(1..Jobs)
    BY <1>1, FS_Interval
  <2> QED BY <2>1, FS_Subset
<1>3. \A a \in S : a \in Int /\ JobKey(a) \in Int
  BY <1>1 DEF JobKey
<1> DEFINE R == {e \in S \X S : \/ JobKey(e[1]) < JobKey(e[2])
                                \/ JobKey(e[1]) = JobKey(e[2]) /\ e[1] < e[2]}
<1>4. q = Ordered(S, R)
  BY DEF InLockOrder
<1>5. \A a, b \in S : <<a, b>> \in R <=> \/ JobKey(a) < JobKey(b)
                                         \/ JobKey(a) = JobKey(b) /\ a < b
  OBVIOUS
<1> HIDE DEF R
<1>6. /\ \A a \in S : <<a, a>> \notin R
      /\ \A a, b \in S : a = b \/ <<a, b>> \in R \/ <<b, a>> \in R
      /\ \A a, b, c \in S : <<a, b>> \in R /\ <<b, c>> \in R => <<a, c>> \in R
  BY <1>3, <1>5
<1>7. /\ Cardinality(S) \in Nat /\ q \in Seq(S)
      /\ DOMAIN q = 1..Cardinality(S) /\ Len(q) = Cardinality(S)
      /\ \A p \in DOMAIN q : q[p] \in S
      /\ \A a \in S : \E p \in DOMAIN q : q[p] = a
      /\ \A p, r \in DOMAIN q : p < r => <<q[p], q[r]>> \in R
      /\ \A p, r \in DOMAIN q : q[p] = q[r] => p = r
  BY <1>2, <1>4, <1>6, OrderedFacts
<1>8. \A i, j \in DOMAIN q : i < j => JobKey(q[i]) <= JobKey(q[j])
  <2>1. \A a, b \in S : <<a, b>> \in R => JobKey(a) <= JobKey(b)
    BY <1>3, <1>5
  <2> QED BY <1>7, <2>1
<1> QED BY <1>7, <1>8

\* A batch of claims takes job locks only.
LEMMA ClaimOrderly ==
  ASSUME NEW p, p = Each(Job, InLockOrder(Claimed))
  PROVE  Orderly(Claim, p, {})
<1>1. PICK q : q = InLockOrder(Claimed)
  OBVIOUS
<1>2. /\ Len(q) \in Nat /\ DOMAIN q = 1..Len(q) /\ \A i \in DOMAIN q : q[i] \in 1..Jobs
      /\ \A i, j \in DOMAIN q : i < j => JobKey(q[i]) <= JobKey(q[j])
  <2>1. Claimed \in SUBSET (1..Jobs)
    BY BatcherAssumption
  <2>2. /\ Len(q) \in Nat /\ DOMAIN q = 1..Len(q) /\ \A i \in DOMAIN q : q[i] \in Claimed
        /\ \A i, j \in DOMAIN q : i < j => JobKey(q[i]) <= JobKey(q[j])
    BY <1>1, <2>1, LockOrderFacts
  <2> QED BY <2>1, <2>2
<1>3. p = [i \in 1..Len(q) |-> Job(q[i])]
  BY <1>1 DEF Each
<1>4. \A i \in 1..Len(q) : p[i] \in Lock /\ p[i][1] = "job" /\ p[i][2] = JobKey(q[i])
  BY <1>2, <1>3, LockFacts
<1>5. p \in Seq(Lock) /\ DOMAIN p = 1..Len(q)
  <2>1. p = [i \in 1..Len(q) |-> p[i]]
    BY <1>3
  <2> QED BY <1>2, <1>4, <2>1
<1>6. RisingPlan(Claim, p)
  BY <1>2, <1>4, <1>5 DEF RisingPlan, Rank
<1>7. GuardsPlanned(Claim, p, {}) /\ RowPairs(Claim, p)
  BY <1>4, <1>5 DEF GuardsPlanned, RowPairs
<1> QED BY <1>5, <1>6, <1>7 DEF Orderly, HeldBelow, GuardsHeld

\* The finish of one commit: its job, then its lease.
LEMMA DirectOrderly ==
  ASSUME NEW t \in Tx, t \notin {Sweep, Heartbeat}, NEW e \in Exec, NEW p, p = <<Job(e), Lease(e)>>
  PROVE  Orderly(t, p, {})
<1>1. /\ Job(e) \in Lock /\ Lease(e) \in Lock /\ Job(e)[1] = "job" /\ Lease(e)[1] = "lease"
      /\ Job(e)[2] \in Int /\ Job(e)[2] < HashSpace /\ Lease(e)[2] = e /\ e \in Int /\ e > 0
      /\ HashSpace \in Int
  BY LockFacts
<1>2. p \in Seq(Lock) /\ DOMAIN p = {1, 2} /\ p[1] = Job(e) /\ p[2] = Lease(e)
  BY <1>1
<1>3. RisingPlan(t, p)
  BY <1>1, <1>2 DEF RisingPlan, Rank
<1>4. GuardsPlanned(t, p, {})
  <2> SUFFICES ASSUME NEW g \in Guards(t, e) PROVE g = p[1]
    BY <1>1, <1>2 DEF GuardsPlanned
  <2> QED BY <1>2 DEF Guards
<1>5. RowPairs(t, p)
  BY <1>1, <1>2 DEF RowPairs
<1> QED BY <1>2, <1>3, <1>4, <1>5 DEF Orderly, HeldBelow, GuardsHeld

\* finish_many and the sweep: the jobs by lock key, then the leases; by
\* execution, or by whoever holds the request rows.
LEMMA JobsThenLeases ==
  ASSUME NEW t \in Tx, t # Heartbeat, NEW S \in SUBSET Exec, NEW q \in Seq(S),
         t # Sweep => \A i, j \in DOMAIN q : i < j => q[i] < q[j],
         NEW H \in SUBSET Lock, \A l \in H : l[1] = "request",
         t = Sweep => \A e \in S : Request(e) \in H,
         NEW p, p = Each(Job, InLockOrder(S)) \o Each(Lease, q)
  PROVE  Orderly(t, p, H)
<1>1. S \in SUBSET (1..Jobs) /\ \A e \in S : e \in Exec /\ e \in 1..Jobs
  BY LockFacts
<1>2. PICK o : o = InLockOrder(S)
  OBVIOUS
<1>3. /\ Len(o) \in Nat /\ DOMAIN o = 1..Len(o) /\ \A i \in DOMAIN o : o[i] \in S
      /\ \A a \in S : \E i \in DOMAIN o : o[i] = a
      /\ \A i, j \in DOMAIN o : i < j => JobKey(o[i]) <= JobKey(o[j])
  BY <1>1, <1>2, LockOrderFacts
<1>4. Len(q) \in Nat /\ DOMAIN q = 1..Len(q) /\ \A i \in DOMAIN q : q[i] \in S
  OBVIOUS
<1>5. PICK a, b : a = [i \in 1..Len(o) |-> Job(o[i])] /\ b = [i \in 1..Len(q) |-> Lease(q[i])]
  OBVIOUS
<1>6. p = a \o b
  BY <1>2, <1>5 DEF Each
<1>7. a \in Seq(Lock) /\ Len(a) = Len(o) /\ b \in Seq(Lock) /\ Len(b) = Len(q)
  <2>1. \A i \in 1..Len(o) : Job(o[i]) \in Lock
    BY <1>1, <1>3, LockFacts
  <2>2. \A i \in 1..Len(q) : Lease(q[i]) \in Lock
    BY <1>1, <1>4, LockFacts
  <2> QED BY <1>3, <1>4, <1>5, <2>1, <2>2
<1>8. p \in Seq(Lock) /\ Len(p) = Len(o) + Len(q) /\ DOMAIN p = 1..(Len(o) + Len(q))
  <2>1. p \in Seq(Lock) /\ Len(p) = Len(a) + Len(b)
    BY <1>6, <1>7, ConcatProperties
  <2> QED BY <1>7, <2>1
<1>9. \A i \in DOMAIN p : p[i] = IF i <= Len(o) THEN a[i] ELSE b[i - Len(o)]
  BY ONLY <1>3, <1>4, <1>6, <1>7, <1>8
<1>10. ASSUME NEW i \in DOMAIN p
       PROVE  /\ i \in Int /\ i >= 1
              /\ i <= Len(o) => /\ i \in DOMAIN o /\ p[i] = Job(o[i]) /\ o[i] \in 1..Jobs
                                /\ p[i][1] = "job" /\ p[i][2] = JobKey(o[i])
              /\ ~ (i <= Len(o)) => /\ i - Len(o) \in DOMAIN q /\ q[i - Len(o)] \in S
                                    /\ p[i][1] = "lease" /\ p[i][2] = q[i - Len(o)]
  <2>1. i \in Int /\ i >= 1 /\ i <= Len(o) + Len(q)
    BY <1>3, <1>4, <1>8
  <2>2. CASE i <= Len(o)
    <3>0. i \in 1..Len(o) /\ p[i] = a[i]
      BY <1>3, <1>9, <2>1, <2>2
    <3>1. i \in DOMAIN o /\ p[i] = Job(o[i]) /\ o[i] \in 1..Jobs
      <4>1. i \in DOMAIN o /\ o[i] \in S
        BY <1>3, <3>0
      <4>2. a[i] = Job(o[i])
        BY <1>5, <3>0
      <4> QED BY <1>1, <3>0, <4>1, <4>2
    <3> QED BY <3>1, <2>1, <2>2, LockFacts
  <2>3. CASE ~ (i <= Len(o))
    <3>1. i - Len(o) \in DOMAIN q /\ p[i] = b[i - Len(o)]
      BY <1>3, <1>4, <1>9, <2>1, <2>3
    <3>2. p[i] = Lease(q[i - Len(o)]) /\ q[i - Len(o)] \in Exec /\ q[i - Len(o)] \in S
      BY <1>1, <1>4, <1>5, <3>1
    <3> QED BY <3>1, <3>2, <2>1, <2>3, LockFacts
  <2> QED BY <2>2, <2>3
<1>11. RisingPlan(t, p)
  <2> SUFFICES ASSUME NEW i \in DOMAIN p, NEW j \in DOMAIN p, i < j PROVE Rank(t, p[i]) <= Rank(t, p[j])
    BY DEF RisingPlan
  <2>1. i \in Int /\ j \in Int /\ Len(o) \in Int
    BY <1>3, <1>10
  <2>2. CASE j <= Len(o)
    <3>1. i <= Len(o)
      BY <2>1, <2>2
    <3>2. JobKey(o[i]) <= JobKey(o[j])
      BY <2>2, <3>1, <1>3, <1>10
    <3> QED BY <2>2, <3>1, <3>2, <1>10 DEF Rank
  <2>3. CASE i <= Len(o) /\ ~ (j <= Len(o))
    <3>1. p[i][2] \in Int /\ p[i][2] < HashSpace /\ p[i][1] = "job"
      <4>1. p[i] \in Lock
        BY <1>8
      <4>2. p[i][1] = "job"
        BY <2>3, <1>10
      <4> QED BY <4>1, <4>2, LockFacts
    <3>2. p[j][1] = "lease" /\ p[j][2] \in Exec
      BY <2>3, <1>1, <1>10
    <3>3. Rank(t, p[i]) = p[i][2]
      BY <3>1 DEF Rank
    <3>4. Rank(t, p[j]) \in Int /\ HashSpace <= Rank(t, p[j]) /\ HashSpace \in Int
      <4>1. p[j][2] \in Int /\ p[j][2] > 0 /\ HashSpace \in Int
        BY <3>2, LockFacts
      <4>2. Rank(t, p[j]) = IF t = Sweep THEN HashSpace ELSE HashSpace + p[j][2]
        BY <3>2 DEF Rank
      <4> QED BY <4>1, <4>2
    <3> QED BY <3>1, <3>3, <3>4
  <2>4. CASE ~ (i <= Len(o))
    <3>1. ~ (j <= Len(o)) /\ i - Len(o) < j - Len(o)
      BY <2>1, <2>4
    <3>2. /\ p[i][1] = "lease" /\ p[i][2] = q[i - Len(o)] /\ i - Len(o) \in DOMAIN q /\ p[i][2] \in Exec
          /\ p[j][1] = "lease" /\ p[j][2] = q[j - Len(o)] /\ j - Len(o) \in DOMAIN q /\ p[j][2] \in Exec
      BY <2>4, <3>1, <1>1, <1>10
    <3>3. t # Sweep => p[i][2] < p[j][2]
      BY <3>1, <3>2
    <3> QED BY <3>2, <3>3, LockFacts DEF Rank
  <2> QED BY <2>1, <2>2, <2>3, <2>4
<1>12. GuardsPlanned(t, p, H)
  <2> SUFFICES ASSUME NEW i \in DOMAIN p, p[i][1] = "lease", NEW g \in Guards(t, p[i][2]), g \notin H
               PROVE  \E j \in DOMAIN p : j < i /\ p[j] = g
    BY DEF GuardsPlanned
  <2>1. ~ (i <= Len(o)) /\ p[i][2] \in S /\ i \in Int
    BY <1>10
  <2>2. g = Job(p[i][2])
    BY <2>1 DEF Guards
  <2>3. PICK j \in DOMAIN o : o[j] = p[i][2]
    BY <2>1, <1>3
  <2>4. j \in DOMAIN p /\ j <= Len(o) /\ j < i
    BY <1>3, <1>4, <1>8, <2>1, <2>3
  <2>5. p[j] = g
    BY <1>10, <2>2, <2>3, <2>4, ZenonT(60)
  <2> QED BY <2>4, <2>5
<1>13. RowPairs(t, p)
  BY <1>10 DEF RowPairs
<1>14. HeldBelow(t, p, H) /\ GuardsHeld(t, H)
  BY DEF HeldBelow, GuardsHeld
<1> QED BY <1>8, <1>11, <1>12, <1>13, <1>14 DEF Orderly

-----------------------------------------------------------------------------
(* The steps, as the locks see them.                                       *)

LEMMA OrderlyIsPlan ==
  ASSUME NEW t, NEW p, NEW H, Orderly(t, p, H) PROVE p # None /\ Disciplined(t, p, H)
BY NoneIsNoPlan DEF Orderly, Disciplined

LEMMA NoneIsNoTx == None \notin Tx /\ \A e \in Exec : Request(e) \in Lock
<1>1. Tx \subseteq Int
  BY LockAssumption DEF Tx, Background, Sub, Writer, Heartbeat, Sweep, Claim
<1> QED BY <1>1, LockAssumption, LockFacts

\* A step of one transaction.
LEMMA OneSteps ==
  ASSUME OrderInv, NEW t \in Tx, holder' \in [Lock -> Tx \cup {None}],
         \A u \in Tx : u # t => plan'[u] = plan[u] /\ Held(holder', u) = Held(holder, u),
         Disciplined(t, plan'[t], Held(holder', t))
  PROVE  OrderInv'
<1>1. \A u \in Tx : Disciplined(u, plan'[u], Held(holder', u))
  BY DEF OrderInv
<1> QED BY <1>1 DEF OrderInv, Disciplined, Orderly, RisingPlan, HeldBelow, GuardsPlanned, GuardsHeld, RowPairs,
            Held, Rank, Guards

\* Locks end with their transaction.
LEMMA ReleaseFacts ==
  ASSUME holder \in [Lock -> Tx \cup {None}], NEW t \in Tx, holder' = Released(t)
  PROVE  /\ holder' \in [Lock -> Tx \cup {None}] /\ Held(holder', t) = {}
         /\ \A u \in Tx : u # t => Held(holder', u) = Held(holder, u)
<1>1. \A l \in Lock : holder'[l] = IF holder[l] = t THEN None ELSE holder[l]
  BY DEF Released
<1>2. holder' \in [Lock -> Tx \cup {None}]
  BY DEF Released
<1>3. Held(holder', t) = {}
  BY <1>1, NoneIsNoTx DEF Held
<1>4. ASSUME NEW u \in Tx, u # t PROVE Held(holder', u) = Held(holder, u)
  BY <1>1, <1>4, NoneIsNoTx DEF Held
<1> QED BY <1>2, <1>3, <1>4

\* A transaction releases its locks, and is over or starts again.
LEMMA EndOrders ==
  ASSUME CommitTyped, OrderInv, NEW t \in Tx, holder' = Released(t),
         NEW x, plan' = [plan EXCEPT ![t] = x], x = None \/ Orderly(t, x, {})
  PROVE  OrderInv'
<1>1. /\ holder' \in [Lock -> Tx \cup {None}] /\ Held(holder', t) = {}
      /\ \A u \in Tx : u # t => Held(holder', u) = Held(holder, u)
  BY ReleaseFacts DEF OrderInv
<1>2. plan'[t] = x /\ \A u \in Tx : u # t => plan'[u] = plan[u]
  BY PlanSet DEF CommitTyped
<1>3. Disciplined(t, plan'[t], Held(holder', t))
  <2>1. CASE x = None
    BY <1>1, <1>2, <2>1 DEF Disciplined
  <2>2. CASE Orderly(t, x, {})
    BY <1>1, <1>2, <2>2, OrderlyIsPlan
  <2> QED BY <2>1, <2>2
<1> QED BY <1>1, <1>2, <1>3, OneSteps

\* A transaction begins.
LEMMA BeginOrders ==
  ASSUME CommitTyped, OrderInv, NEW t \in Tx, UNCHANGED holder, plan[t] = None,
         NEW x, plan' = [plan EXCEPT ![t] = x], Orderly(t, x, {})
  PROVE  OrderInv'
<1>1. Held(holder, t) = {} /\ holder \in [Lock -> Tx \cup {None}]
  BY DEF OrderInv, Disciplined
<1>2. plan'[t] = x /\ \A u \in Tx : u # t => plan'[u] = plan[u]
  BY PlanSet DEF CommitTyped
<1>3. \A u \in Tx : Held(holder', u) = Held(holder, u)
  BY DEF Held
<1>4. Disciplined(t, plan'[t], Held(holder', t))
  <2>1. Disciplined(t, x, {})
    BY OrderlyIsPlan
  <2> QED BY <1>1, <1>2, <1>3, <2>1
<1> QED BY <1>1, <1>2, <1>3, <1>4, OneSteps

LEMMA StutterOrders == OrderInv /\ UNCHANGED <<holder, plan>> => OrderInv'
<1> SUFFICES ASSUME OrderInv, UNCHANGED <<holder, plan>> PROVE OrderInv'
  OBVIOUS
<1>1. \A u \in Tx : plan'[u] = plan[u] /\ Held(holder', u) = Held(holder, u)
  BY DEF Held
<1>2. Writer \in Tx /\ holder' \in [Lock -> Tx \cup {None}]
  BY TxFacts DEF OrderInv
<1>3. Disciplined(Writer, plan'[Writer], Held(holder', Writer))
  BY <1>1, <1>2 DEF OrderInv
<1> QED BY <1>1, <1>2, <1>3, OneSteps

LEMMA AcquireOrders ==
  ASSUME CommitTyped, OrderInv, NEW t \in Tx, Acquire(t)
  PROVE  OrderInv'
<1>1. PICK p : p = plan[t]
  OBVIOUS
<1>2. /\ p # None /\ p # <<>> /\ holder[Head(p)] \in {None, t}
      /\ holder' = [holder EXCEPT ![Head(p)] = t] /\ plan' = [plan EXCEPT ![t] = Tail(p)]
  <2>1. plan' = [plan EXCEPT ![t] = Tail(plan[t])]
    BY DEF Acquire, TakeLock, CommitTyped
  <2> QED BY <1>1, <2>1 DEF Acquire, TakeLock, Working, Idle, Ready
<1>3. /\ holder \in [Lock -> Tx \cup {None}] /\ Orderly(t, p, Held(holder, t))
      /\ Held(holder, t) \in SUBSET Lock
  BY <1>1, <1>2 DEF OrderInv, Disciplined, Held
<1>4. PICK l, q : l = Head(p) /\ q = Tail(p)
  OBVIOUS
<1>5. l \in Lock
  BY <1>2, <1>3, <1>4, HeadTailProperties DEF Orderly
<1>6. holder' = [holder EXCEPT ![l] = t] /\ holder[l] \in {None, t} /\ plan' = [plan EXCEPT ![t] = q]
  BY <1>2, <1>4
<1>7. holder' \in [Lock -> Tx \cup {None}] /\ \A m \in Lock : holder'[m] = IF m = l THEN t ELSE holder[m]
  BY <1>3, <1>6
<1>8. /\ Held(holder', t) = Held(holder, t) \cup {l}
      /\ \A u \in Tx : u # t => Held(holder', u) = Held(holder, u)
  BY <1>5, <1>6, <1>7, NoneIsNoTx DEF Held
<1>9. plan'[t] = q /\ \A u \in Tx : u # t => plan'[u] = plan[u]
  BY <1>6, PlanSet DEF CommitTyped
<1>10. PICK H, G : H = Held(holder, t) /\ G = Held(holder', t)
  OBVIOUS
<1>11. Orderly(t, q, G)
  BY <1>2, <1>3, <1>4, <1>8, <1>10, HeadGone
<1> QED BY <1>7, <1>8, <1>9, <1>10, <1>11, OrderlyIsPlan, OneSteps

LEMMA SkipRowOrders ==
  ASSUME CommitTyped, OrderInv, NEW t \in Tx, SkipRow(t)
  PROVE  OrderInv'
<1>1. PICK p : p = plan[t]
  OBVIOUS
<1>2. /\ p # None /\ p # <<>> /\ UNCHANGED holder /\ Head(p)[1] \in {"request", "lease"}
      /\ plan' = [plan EXCEPT ![t] = IF t = Heartbeat /\ Head(p)[1] = "request" THEN Tail(Tail(p)) ELSE Tail(p)]
  <2>1. plan' = [plan EXCEPT ![t] = IF t = Heartbeat /\ Head(plan[t])[1] = "request"
                                    THEN Tail(Tail(plan[t])) ELSE Tail(plan[t])]
    BY DEF SkipRow, CommitTyped
  <2> QED BY <1>1, <2>1 DEF SkipRow, Missing, Working, Idle, Ready
<1>3. PICK H : H = Held(holder, t)
  OBVIOUS
<1>4. /\ holder \in [Lock -> Tx \cup {None}] /\ Orderly(t, p, H) /\ H \in SUBSET Lock
  BY <1>1, <1>2, <1>3 DEF OrderInv, Disciplined, Held
<1>5. PICK q : q = IF t = Heartbeat /\ Head(p)[1] = "request" THEN Tail(Tail(p)) ELSE Tail(p)
  OBVIOUS
<1>6. plan' = [plan EXCEPT ![t] = q]
  BY <1>2, <1>5
<1>7. Orderly(t, q, H)
  <2>1. CASE t = Heartbeat /\ Head(p)[1] = "request"
    <3>1. q = Tail(Tail(p)) /\ Orderly(Heartbeat, p, H)
      BY <2>1, <1>4, <1>5
    <3>2. Orderly(Heartbeat, q, H)
      BY <3>1, <2>1, <1>2, <1>4, PairGone
    <3> QED BY <3>2, <2>1
  <2>2. CASE ~ (t = Heartbeat /\ Head(p)[1] = "request")
    BY <2>2, <1>2, <1>4, <1>5, HeadGone
  <2> QED BY <2>1, <2>2
<1>8. \A u \in Tx : Held(holder', u) = Held(holder, u)
  BY <1>2
<1>9. plan'[t] = q /\ \A u \in Tx : u # t => plan'[u] = plan[u]
  BY <1>6, PlanSet DEF CommitTyped
<1>10. Disciplined(t, plan'[t], Held(holder', t))
  BY <1>3, <1>7, <1>8, <1>9, OrderlyIsPlan
<1>11. holder' \in [Lock -> Tx \cup {None}]
  BY <1>2, <1>4
<1> QED BY <1>8, <1>9, <1>10, <1>11, OneSteps

\* The sweep begins with the request rows of what it sweeps.
LEMMA BeginSweepOrders ==
  ASSUME CommitTyped, OrderInv, BeginSweep
  PROVE  OrderInv'
<1>1. PICK expired \in SUBSET {e \in Exec : /\ request[e] = "claimed" /\ lease[e] # "gone"
                                            /\ holder[Request(e)] = None} :
        /\ holder' = [l \in Lock |-> IF \E e \in expired : l = Request(e) THEN Sweep ELSE holder[l]]
        /\ Begin(Sweep, Each(Job, InLockOrder(expired)) \o Each(Lease, InLockOrder(expired)))
  BY DEF BeginSweep
<1>2. expired \in SUBSET Exec /\ \A e \in expired : holder[Request(e)] = None /\ Request(e) \in Lock
  BY <1>1, LockFacts
<1>3. PICK q, x : /\ q = InLockOrder(expired)
                  /\ x = Each(Job, InLockOrder(expired)) \o Each(Lease, q)
  OBVIOUS
<1>4. plan[Sweep] = None /\ plan' = [plan EXCEPT ![Sweep] = x]
  BY <1>1, <1>3 DEF Begin, Idle
<1>5. Sweep \in Tx /\ Sweep # Heartbeat /\ Sweep # None
  <2>1. Sweep \in Tx
    BY DEF Tx, Background
  <2> QED BY <2>1, NoneIsNoTx DEF Sweep, Heartbeat
<1>6. holder \in [Lock -> Tx \cup {None}] /\ Held(holder, Sweep) = {}
  BY <1>4, <1>5 DEF OrderInv, Disciplined
<1>7. PICK H : H = {l \in Lock : \E e \in expired : l = Request(e)}
  OBVIOUS
<1>8. \A l \in Lock : holder'[l] = IF l \in H THEN Sweep ELSE holder[l]
  BY <1>1, <1>7
<1>9. holder' \in [Lock -> Tx \cup {None}]
  BY <1>1, <1>5, <1>6
<1>10. Held(holder', Sweep) = H
  BY <1>6, <1>7, <1>8 DEF Held
<1>11. ASSUME NEW u \in Tx, u # Sweep PROVE Held(holder', u) = Held(holder, u)
  <2>1. \A l \in H : holder[l] = None
    BY <1>2, <1>7
  <2> QED BY <1>8, <1>11, <2>1, NoneIsNoTx DEF Held
<1>12. plan'[Sweep] = x /\ \A u \in Tx : u # Sweep => plan'[u] = plan[u]
  BY <1>4, <1>5, PlanSet DEF CommitTyped
<1>13. q \in Seq(expired)
  <2>1. expired \in SUBSET (1..Jobs)
    BY <1>2, LockFacts
  <2> QED BY <2>1, <1>3, LockOrderFacts
<1>14. Orderly(Sweep, x, H)
  <2>1. H \in SUBSET Lock /\ (\A l \in H : l[1] = "request") /\ \A e \in expired : Request(e) \in H
    BY <1>2, <1>7, LockFacts
  <2> QED BY <2>1, <1>2, <1>3, <1>5, <1>13, JobsThenLeases
<1>15. Disciplined(Sweep, plan'[Sweep], Held(holder', Sweep))
  BY <1>10, <1>12, <1>14, OrderlyIsPlan
<1> QED BY <1>5, <1>9, <1>11, <1>12, <1>15, OneSteps

\* A heartbeat or a batch of claims begins.
LEMMA BeginOtherOrders ==
  ASSUME CommitTyped, OrderInv, BeginHeartbeat \/ BeginClaim
  PROVE  OrderInv'
<1>1. Heartbeat \in Tx /\ Claim \in Tx
  BY DEF Tx, Background
<1>2. CASE BeginHeartbeat
  <2>1. PICK x : x = [i \in 1..(2 * Execs) |-> IF i % 2 = 1 THEN Request((i + 1) \div 2) ELSE Lease(i \div 2)]
    OBVIOUS
  <2>2. UNCHANGED holder /\ plan[Heartbeat] = None /\ plan' = [plan EXCEPT ![Heartbeat] = x]
    BY <1>2, <2>1 DEF BeginHeartbeat, Begin, Idle
  <2> QED BY <1>1, <2>1, <2>2, HeartbeatOrderly, BeginOrders
<1>3. CASE BeginClaim
  <2>1. PICK x : x = Each(Job, InLockOrder(Claimed))
    OBVIOUS
  <2>2. UNCHANGED holder /\ plan[Claim] = None /\ plan' = [plan EXCEPT ![Claim] = x]
    BY <1>3, <2>1 DEF BeginClaim, Begin, Idle
  <2> QED BY <1>1, <2>1, <2>2, ClaimOrderly, BeginOrders
<1> QED BY <1>2, <1>3

LEMMA OwnTx == \A t \in Sub \cup {Writer} : t \in Tx /\ t \notin {Sweep, Heartbeat}
<1>1. \A s \in Sub : s \in Int /\ s >= 1
  BY LockAssumption DEF Sub
<1> QED BY <1>1 DEF Tx, Writer, Sweep, Heartbeat

\* The writer begins the shared transaction of a call.
LEMMA BeginArmOrders ==
  ASSUME CommitInv, OrderInv, BeginArm
  PROVE  OrderInv'
<1>1. /\ writer.calls # <<>> /\ plan[Writer] = None /\ UNCHANGED holder
      /\ plan' = [plan EXCEPT ![Writer] = IF Items[1].kind = "finish" THEN FinishMany(Items)
                                          ELSE MarkDoneMany(Items)]
  BY DEF BeginArm, Idle
<1>2. CommitTyped
  BY DEF CommitInv
<1>3. PICK items : items = Items
  OBVIOUS
<1>4. items \in Seq(Item) /\ items # <<>>
  BY <1>1, <1>3, FirstCall
<1>5. \A i \in DOMAIN items : ExecOf(items[i].by) \in Exec
  BY <1>2, <1>4, ItemsFacts DEF CommitTyped, ExecOf
<1>6. Writer \in Tx /\ Writer \notin {Sweep, Heartbeat}
  BY OwnTx
<1>7. CASE items[1].kind = "finish"
  <2>1. PICK S : S = {e \in ExecsOf(items) : lease[e] # "gone"}
    OBVIOUS
  <2>2. PICK q, x : q = InExecutionOrder(S) /\ x = Each(Job, InLockOrder(S)) \o Each(Lease, q)
    OBVIOUS
  <2>3. x = FinishMany(items)
    BY <2>1, <2>2 DEF FinishMany
  <2>4. S \in SUBSET Exec /\ S \in SUBSET Int /\ IsFiniteSet(S)
    <3>1. S \in SUBSET Exec
      BY <2>1, <1>5 DEF ExecsOf
    <3>2. IsFiniteSet(Exec)
      BY LockAssumption, FS_Interval DEF Exec
    <3>3. S \in SUBSET Int
      BY <3>1, LockFacts
    <3> QED BY <3>1, <3>2, <3>3, FS_Subset
  <2>5. q \in Seq(S) /\ \A i, j \in DOMAIN q : i < j => q[i] < q[j]
    BY <2>2, <2>4, AscendingFacts DEF InExecutionOrder
  <2>6. Orderly(Writer, x, {})
    <3>1. PICK H \in SUBSET Lock : H = {}
      OBVIOUS
    <3>2. Orderly(Writer, x, H)
      BY <2>2, <2>4, <2>5, <1>6, <3>1, JobsThenLeases
    <3> QED BY <3>1, <3>2
  <2>7. plan' = [plan EXCEPT ![Writer] = x]
    BY <1>1, <1>3, <1>7, <2>3
  <2> QED BY <1>1, <1>2, <1>6, <2>6, <2>7, BeginOrders
<1>8. CASE items[1].kind # "finish"
  <2>1. PICK x : x = MarkDoneMany(items)
    OBVIOUS
  <2>2. x = [i \in DOMAIN items |-> Request(ExecOf(items[i].by))]
    BY <2>1 DEF MarkDoneMany
  <2>3. DOMAIN items = 1..Len(items) /\ Len(items) \in Nat
    BY <1>4, ItemsFacts
  <2>4. x \in Seq(Lock) /\ \A i \in DOMAIN x : x[i][1] = "request"
    <3>1. \A i \in DOMAIN items : x[i] \in Lock /\ x[i][1] = "request"
      BY <1>5, <2>2, LockFacts
    <3>2. x = [i \in 1..Len(items) |-> x[i]] /\ DOMAIN x = DOMAIN items
      BY <2>2, <2>3
    <3> QED BY <2>3, <3>1, <3>2
  <2>5. Orderly(Writer, x, {})
    BY <2>4, <1>6, RequestsOrderly
  <2>6. plan' = [plan EXCEPT ![Writer] = x]
    BY <1>1, <1>3, <1>8, <2>1
  <2> QED BY <1>1, <1>2, <1>6, <2>5, <2>6, BeginOrders
<1> QED BY <1>7, <1>8

\* A commit that writes for itself.
LEMMA SubmitOrders ==
  ASSUME CommitInv, OrderInv, NEW s \in Sub, Submit(s)
  PROVE  OrderInv'
<1>1. CommitTyped /\ Arms
  BY DEF CommitInv
<1>2. s \in Tx /\ s \notin {Sweep, Heartbeat} /\ ExecOf(s) \in Exec
  BY <1>1, OwnTx DEF CommitTyped, ExecOf
<1>3. PICK kind : UNCHANGED holder /\ Enqueue(s, kind) /\ sub[s] \in {"ready", "finished"}
  BY DEF Submit
<1>4. plan[s] = None
  BY <1>1, <1>3 DEF Arms, Parked
<1>5. CASE UNCHANGED plan
  BY <1>3, <1>5, StutterOrders
<1>6. CASE ~ UNCHANGED plan
  <2>1. PICK x : /\ x = IF kind = "mark_done" THEN <<Request(ExecOf(s))>>
                        ELSE <<Job(ExecOf(s)), Lease(ExecOf(s))>>
                 /\ plan' = [plan EXCEPT ![s] = x]
    BY <1>3, <1>6 DEF Enqueue
  <2>2. Orderly(s, x, {})
    <3>1. CASE kind = "mark_done"
      <4>1. Request(ExecOf(s)) \in Lock /\ Request(ExecOf(s))[1] = "request"
        BY <1>2, LockFacts
      <4>2. x \in Seq(Lock) /\ \A i \in DOMAIN x : x[i][1] = "request"
        BY <2>1, <3>1, <4>1
      <4> QED BY <1>2, <4>2, RequestsOrderly
    <3>2. CASE kind # "mark_done"
      BY <1>2, <2>1, <3>2, DirectOrderly
    <3> QED BY <3>1, <3>2
  <2> QED BY <1>1, <1>2, <1>3, <1>4, <2>1, <2>2, BeginOrders
<1> QED BY <1>5, <1>6

\* A transaction commits or raises.
LEMMA OverOrders ==
  ASSUME CommitTyped, OrderInv, NEW t \in Tx, End(t)
  PROVE  OrderInv'
BY EndOrders DEF End

LEMMA BreakCycleOrders ==
  ASSUME CommitTyped, OrderInv, NEW t \in Tx, BreakCycle(t)
  PROVE  OrderInv'
<1>1. CASE MayRetry(t)
  <2>1. PICK x : /\ x = IF t = Writer THEN None ELSE <<Job(ExecOf(t)), Lease(ExecOf(t))>>
                 /\ holder' = Released(t) /\ plan' = [plan EXCEPT ![t] = x]
    BY <1>1 DEF BreakCycle
  <2>2. x = None \/ Orderly(t, x, {})
    <3>1. CASE t = Writer
      BY <2>1, <3>1
    <3>2. CASE t # Writer
      <4>1. t \in Sub
        BY <1>1, <3>2 DEF MayRetry, Retried
      <4>2. ExecOf(t) \in Exec /\ t \notin {Sweep, Heartbeat}
        BY <4>1, OwnTx DEF CommitTyped, ExecOf
      <4> QED BY <2>1, <3>2, <4>2, DirectOrderly
    <3> QED BY <3>1, <3>2
  <2> QED BY <2>1, <2>2, EndOrders
<1>2. CASE ~ MayRetry(t)
  <2>1. End(t)
    BY <1>2 DEF BreakCycle, RaiseArm, RaiseDirect
  <2> QED BY <2>1, OverOrders
<1> QED BY <1>1, <1>2

LEMMA OrderInvInit == Init => OrderInv
<1> SUFFICES ASSUME Init PROVE OrderInv
  OBVIOUS
<1>1. holder = [l \in Lock |-> None] /\ plan = [t \in Tx |-> None]
  BY DEF Init, LocksInit
<1>2. \A t \in Tx : Held(holder, t) = {} /\ plan[t] = None
  BY <1>1, NoneIsNoTx DEF Held
<1>3. holder \in [Lock -> Tx \cup {None}]
  BY <1>1
<1> QED BY <1>2, <1>3 DEF OrderInv, Disciplined

LEMMA OrderInvStep == CommitInv /\ OrderInv /\ [Next]_vars => OrderInv'
<1> SUFFICES ASSUME CommitInv, OrderInv, [Next]_vars PROVE OrderInv'
  OBVIOUS
<1>0. CommitTyped
  BY DEF CommitInv
<1>1. CASE UNCHANGED vars
  BY <1>1, StutterOrders DEF vars, lockVars
<1>2. CASE WriterLoop
  <2>1. CASE LoopTest \/ TakeBatch \/ Drain
    BY <2>1, StutterOrders DEF LoopTest, TakeBatch, Drain, lockVars
  <2>2. CASE BeginArm
    BY <2>2, BeginArmOrders
  <2> QED BY <1>2, <2>1, <2>2 DEF WriterLoop
<1>3. CASE RaiseArm
  BY <1>0, <1>3, OwnTx, OverOrders DEF RaiseArm
<1>4. CASE BeginHeartbeat \/ BeginSweep \/ BeginClaim
  BY <1>0, <1>4, BeginSweepOrders, BeginOtherOrders
<1>5. ASSUME NEW s \in Sub, Submit(s) \/ RaiseDirect(s) PROVE OrderInv'
  <2>1. CASE Submit(s)
    BY <2>1, SubmitOrders
  <2>2. CASE RaiseDirect(s)
    BY <1>0, <2>2, OwnTx, OverOrders DEF RaiseDirect
  <2> QED BY <1>5, <2>1, <2>2
<1>6. CASE Stop
  BY <1>6, StutterOrders DEF Stop, lockVars
<1>7. ASSUME NEW t \in Tx, Progress(t) PROVE OrderInv'
  <2>1. CASE Acquire(t) \/ SkipRow(t)
    BY <1>0, <2>1, AcquireOrders, SkipRowOrders
  <2>2. CASE ~ (Acquire(t) \/ SkipRow(t))
    <3>1. End(t)
      BY <1>7, <2>2 DEF Progress, CommitArm, CommitHeartbeat, CommitSweep, CommitClaim, CommitDirect
    <3> QED BY <1>0, <3>1, OverOrders
  <2> QED BY <2>1, <2>2
<1>8. ASSUME NEW t \in Tx, BreakCycle(t) PROVE OrderInv'
  BY <1>0, <1>8, BreakCycleOrders
<1> QED BY <1>1, <1>2, <1>3, <1>4, <1>5, <1>6, <1>7, <1>8 DEF Next

LEMMA OrderInvHolds == Spec => []OrderInv
<1>1. Init => OrderInv
  BY OrderInvInit
<1>2. CommitInv /\ OrderInv /\ [Next]_vars => OrderInv'
  BY OrderInvStep
<1>3. Spec => []CommitInv
  BY CommitInvHolds
<1> QED BY <1>1, <1>2, <1>3, PTL DEF Spec

-----------------------------------------------------------------------------
(* No circle of waits over job and lease locks.                            *)

\* A set of numbers up to N has a greatest member.
LEMMA GreatestInInterval ==
  ASSUME NEW N \in Nat, NEW B \in SUBSET (0..N), B # {}
  PROVE  \E m \in B : \A y \in B : y <= m
<1> DEFINE I == 0..N
           T == {k..N : k \in B}
           R == StrictSubsetOrdering(I)
<1>1. IsWellFoundedOn(R, SUBSET I)
  <2>1. IsFiniteSet(I)
    BY FS_Interval
  <2> QED BY <2>1, FS_FiniteSubsetsOfFinite, FS_StrictSubsetOrderingWellFounded
<1>2. \A k \in B : k \in Nat /\ k <= N /\ k..N \subseteq I
  OBVIOUS
<1>3. T \subseteq SUBSET I /\ T # {}
  BY <1>2
<1> HIDE DEF I, R
<1>4. PICK t \in T : \A u \in T : ~ (<<u, t>> \in R)
  <2> HIDE DEF T
  <2> QED BY <1>1, <1>3, WFMin
<1>5. PICK m \in B : t = m..N
  BY <1>4
<1>6. ASSUME NEW y \in B, m < y PROVE FALSE
  <2>1. y..N \in T
    OBVIOUS
  <2>2. y..N \subseteq m..N /\ y..N # m..N
    <3>1. m \in m..N /\ m \notin y..N
      BY <1>2, <1>6
    <3> QED BY <3>1, <1>2, <1>6
  <2>3. <<y..N, t>> \in R
    BY <2>1, <2>2, <1>3, <1>4, <1>5 DEF R, StrictSubsetOrdering
  <2> QED BY <2>1, <2>3, <1>4
<1> QED BY <1>2, <1>6

\* Who waits for whom.
Weight(l) == IF l[1] = "job" THEN l[2] ELSE HashSpace + l[2]
WaitsFor(t, u, l) ==
  /\ t \in Tx /\ u \in Tx /\ t # u
  /\ plan[t] # None /\ plan[t] # <<>> /\ l = Head(plan[t]) /\ holder[l] = u

LEMMA WaitFacts ==
  ASSUME OrderInv, NEW t, NEW u, NEW l, WaitsFor(t, u, l), NEW p, p = plan[t]
  PROVE  /\ Orderly(t, p, Held(holder, t)) /\ l \in Lock /\ l \in Held(holder, u)
         /\ 1 \in DOMAIN p /\ p[1] = l
         /\ \A i \in DOMAIN p : i \in Int /\ i >= 1
         /\ plan[u] # None => Orderly(u, plan[u], Held(holder, u))
<1>1. Orderly(t, p, Held(holder, t))
  BY DEF OrderInv, Disciplined, WaitsFor
<1>2. p \in Seq(Lock) /\ p # <<>> /\ l = Head(p)
  BY <1>1 DEF Orderly, WaitsFor
<1>3. PICK q : q = Tail(p)
  OBVIOUS
<1>4. Head(p) = p[1] /\ 1 \in DOMAIN p /\ p[1] \in Lock /\ \A i \in DOMAIN p : i \in Int /\ i >= 1
  BY <1>2, <1>3, TailFacts
<1>5. l \in Lock /\ l \in Held(holder, u)
  BY <1>2, <1>4 DEF WaitsFor, Held
<1>6. plan[u] # None => Orderly(u, plan[u], Held(holder, u))
  BY DEF OrderInv, Disciplined, WaitsFor
<1> QED BY <1>1, <1>2, <1>4, <1>5, <1>6

\* The sweep neither waits for a lease of another nor lets another wait for
\* its own: both hold the guard they share.
LEMMA LeaseWait ==
  ASSUME OrderInv, NEW t, NEW u, NEW l, WaitsFor(t, u, l), l[1] = "lease", plan[u] # None
  PROVE  t # Sweep /\ u # Sweep
<1>1. PICK p : p = plan[t]
  OBVIOUS
<1>2. /\ Orderly(t, p, Held(holder, t)) /\ l \in Lock /\ l \in Held(holder, u)
      /\ 1 \in DOMAIN p /\ p[1] = l
      /\ \A i \in DOMAIN p : i \in Int /\ i >= 1
      /\ Orderly(u, plan[u], Held(holder, u))
  BY <1>1, WaitFacts
<1>3. \A g \in Guards(t, l[2]) : g \in Held(holder, t)
  BY <1>2 DEF Orderly, GuardsPlanned
<1>4. \A g \in Guards(u, l[2]) : g \in Held(holder, u)
  BY <1>2 DEF Orderly, GuardsHeld
<1>5. \A g : ~ (g \in Held(holder, t) /\ g \in Held(holder, u))
  BY DEF Held, WaitsFor
<1>6. Guards(t, l[2]) \cap Guards(u, l[2]) = {}
  BY <1>3, <1>4, <1>5
<1>7. t = Sweep \/ u = Sweep => \E g : g \in Guards(t, l[2]) \cap Guards(u, l[2])
  <2>1. t # u /\ Sweep # Heartbeat
    <3>1. Sweep # Heartbeat
      BY DEF Sweep, Heartbeat
    <3> QED BY <3>1 DEF WaitsFor
  <2>2. CASE Heartbeat \in {t, u}
    <3>1. t = Sweep \/ u = Sweep => /\ Request(l[2]) \in Guards(t, l[2])
                                   /\ Request(l[2]) \in Guards(u, l[2])
      BY <2>1, <2>2 DEF Guards
    <3> QED BY <3>1
  <2>3. CASE Heartbeat \notin {t, u}
    <3>1. Job(l[2]) \in Guards(t, l[2]) /\ Job(l[2]) \in Guards(u, l[2])
      BY <2>3 DEF Guards
    <3> QED BY <3>1
  <2> QED BY <2>2, <2>3
<1> QED BY <1>6, <1>7

\* Who is waited for waits for a later lock.
LEMMA WaitRises ==
  ASSUME OrderInv, NEW t, NEW u, NEW v, NEW l, NEW m, WaitsFor(t, u, l), WaitsFor(u, v, m),
         plan[v] # None, l[1] # "request", m[1] # "request"
  PROVE  Weight(l) < Weight(m)
<1>1. PICK p : p = plan[u]
  OBVIOUS
<1>2. l \in Lock /\ l \in Held(holder, u) /\ plan[u] # None
  BY WaitFacts DEF WaitsFor
<1>3. /\ Orderly(u, p, Held(holder, u)) /\ m \in Lock /\ 1 \in DOMAIN p /\ p[1] = m
  BY <1>1, WaitFacts
<1>4. Rank(u, l) <= Rank(u, m)
  BY <1>2, <1>3 DEF Orderly, HeldBelow
<1>5. l # m
  BY DEF WaitsFor
<1>6. l[1] = "lease" \/ m[1] = "lease" => u # Sweep
  BY <1>2, LeaseWait
<1>7. /\ l[1] \in {"job", "lease"} /\ m[1] \in {"job", "lease"}
      /\ l[1] = "job" => l[2] \in Int /\ l[2] < HashSpace /\ l = <<"job", l[2]>>
      /\ l[1] = "lease" => l[2] \in Int /\ l[2] > 0 /\ l = Lease(l[2])
      /\ m[1] = "job" => m[2] \in Int /\ m[2] < HashSpace /\ m = <<"job", m[2]>>
      /\ m[1] = "lease" => m[2] \in Int /\ m[2] > 0 /\ m = Lease(m[2])
      /\ HashSpace \in Int
  BY <1>2, <1>3, LockFacts
<1>8. Weight(l) = Rank(u, l) /\ Weight(m) = Rank(u, m)
  BY <1>6, <1>7 DEF Weight, Rank
<1>9. Weight(l) \in Int /\ Weight(m) \in Int /\ Weight(l) # Weight(m)
  <2>1. CASE l[1] = m[1]
    <3>1. l[2] # m[2]
      BY <1>5, <1>7, <2>1
    <3> QED BY <3>1, <1>7, <2>1 DEF Weight
  <2>2. CASE l[1] # m[1]
    BY <1>7, <2>2 DEF Weight
  <2> QED BY <2>1, <2>2
<1> QED BY <1>4, <1>8, <1>9

LEMMA WeightBound ==
  ASSUME NEW l \in Lock, l[1] # "request"
  PROVE  Weight(l) \in 0..(HashSpace + Execs)
<1>1. HashSpace \in Nat /\ Execs \in Nat
  BY LockAssumption
<1>2. l[1] = "lease" => l[2] \in Exec
  BY LockFacts
<1>3. l[1] = "job" => l[2] \in Int /\ l[2] >= 0 /\ l[2] < HashSpace
  <2>1. ASSUME NEW j \in 1..Jobs PROVE JobKey(j) >= 0 /\ JobKey(j) \in Int /\ JobKey(j) < HashSpace
    BY LockAssumption DEF JobKey
  <2>2. l[1] = "job" => \E j \in 1..Jobs : l = <<"job", JobKey(j)>>
    BY DEF Lock, Job, Request, Lease
  <2> QED BY <2>1, <2>2
<1>4. l[1] = "job" \/ l[1] = "lease"
  BY LockFacts
<1> QED BY <1>1, <1>2, <1>3, <1>4 DEF Weight, Exec

\* execution-generation.md 2.5: claims, finishes, heartbeats and sweeps never
\* wait for one another in a circle over job locks and lease rows.
THEOREM OrderedLocksAcyclicHolds == Spec => []OrderedLocksAcyclic
<1>1. OrderInv => OrderedLocksAcyclic
  <2> SUFFICES ASSUME OrderInv, NEW S \in Cycles, \A t \in S : Head(plan[t])[1] # "request"
               PROVE  FALSE
    BY DEF OrderedLocksAcyclic
  <2>1. S \in SUBSET Waiting /\ S # {} /\ {Blocker(t) : t \in S} = S
    BY DEF Cycles
  <2>2. ASSUME NEW t \in S PROVE Blocker(t) \in S /\ t \in Tx /\ WaitsFor(t, Blocker(t), Head(plan[t]))
    <3>1. t \in Tx /\ Blocker(t) \notin {None, t} /\ Blocker(t) \in S /\ Blocker(t) \in Tx
      BY <2>1 DEF Waiting
    <3>2. plan[t] # None /\ plan[t] # <<>> /\ Blocker(t) = holder[Head(plan[t])]
      BY <3>1 DEF Blocker, Working, Idle, Ready
    <3> QED BY <3>1, <3>2 DEF WaitsFor
  <2>3. ASSUME NEW t \in S
        PROVE  Weight(Head(plan[t])) < Weight(Head(plan[Blocker(t)]))
    <3>1. PICK u \in S : u = Blocker(t)
      BY <2>2
    <3>2. PICK v \in S : v = Blocker(u)
      BY <2>2
    <3>3. WaitsFor(t, u, Head(plan[t])) /\ WaitsFor(u, v, Head(plan[u])) /\ plan[v] # None
      BY <2>2, <3>1, <3>2 DEF WaitsFor
    <3> QED BY <3>1, <3>3, WaitRises
  <2>4. PICK B : B = {Weight(Head(plan[t])) : t \in S}
    OBVIOUS
  <2>5. ASSUME NEW t \in S PROVE Weight(Head(plan[t])) \in 0..(HashSpace + Execs)
    <3>1. Head(plan[t]) \in Lock
      BY <2>2, WaitFacts
    <3> QED BY <3>1, WeightBound
  <2>6. PICK m \in B : \A y \in B : y <= m
    <3>1. HashSpace + Execs \in Nat
      BY LockAssumption
    <3>2. B \in SUBSET (0..(HashSpace + Execs)) /\ B # {}
      BY <2>1, <2>4, <2>5
    <3>3. PICK n \in Nat : n = HashSpace + Execs
      BY <3>1
    <3> QED BY <3>2, <3>3, GreatestInInterval
  <2>7. PICK t \in S : m = Weight(Head(plan[t]))
    BY <2>4, <2>6
  <2>8. PICK u \in S : u = Blocker(t)
    BY <2>2
  <2>9. Weight(Head(plan[u])) <= m /\ m < Weight(Head(plan[u]))
    BY <2>3, <2>4, <2>6, <2>7, <2>8
  <2>10. m \in Int /\ Weight(Head(plan[u])) \in Int
    BY <2>5, <2>7
  <2> QED BY <2>9, <2>10
<1>2. Spec => []OrderInv
  BY OrderInvHolds
<1> QED BY <1>1, <1>2, PTL
=============================================================================
