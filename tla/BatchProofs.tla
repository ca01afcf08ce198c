---------------------------- MODULE BatchProofs -----------------------------
(***************************************************************************)
(* What a batch operation promises, for any number of jobs, any size of    *)
(* page and chunk and any number of crashes: no position is left without a *)
(* verdict, every repeated or skipped job is paid for by a crash or by a   *)
(* job that flipped into the filter or left it, the cursor stays in its    *)
(* buffer, and the operator's decision stands.                             *)
(***************************************************************************)
EXTENDS BatchOperations, FiniteSetTheorems, SequenceTheorems, TLAPS

-----------------------------------------------------------------------------
(* Jobs in the order of the keyset.                                        *)

Below(S, j) == {i \in S : i < j}

\* A set of numbers up to N has a least member.
LEMMA LeastMember ==
  ASSUME NEW N \in Nat, NEW B \in SUBSET (0..N), B # {}
  PROVE  \E m \in B : \A y \in B : y >= m
<1> DEFINE I == 0..N
           T == {0..k : k \in B}
           R == StrictSubsetOrdering(I)
<1>1. IsWellFoundedOn(R, SUBSET I)
  <2>1. IsFiniteSet(I)
    BY FS_Interval
  <2> QED BY <2>1, FS_FiniteSubsetsOfFinite, FS_StrictSubsetOrderingWellFounded
<1>2. T \subseteq SUBSET I /\ T # {}
  <2>1. \A k \in B : 0..k \subseteq I
    OBVIOUS
  <2>2. PICK k \in B : TRUE
    OBVIOUS
  <2>3. 0..k \in T
    OBVIOUS
  <2>4. ASSUME NEW u \in T PROVE u \in SUBSET I
    <3>1. PICK j \in B : u = 0..j
      OBVIOUS
    <3> QED BY <3>1, <2>1
  <2> QED BY <2>3, <2>4
<1> HIDE DEF I, R
<1>3. PICK t \in T : \A u \in T : ~ (<<u, t>> \in R)
  <2> HIDE DEF T
  <2> QED BY <1>1, <1>2, WFMin
<1>4. PICK m \in B : t = 0..m
  BY <1>3
<1>5. ASSUME NEW y \in B, y < m PROVE FALSE
  <2>1. 0..y \in T
    OBVIOUS
  <2>2. m \in 0..m /\ m \notin 0..y /\ 0..y \subseteq 0..m
    BY <1>5
  <2>3. <<0..y, t>> \in R
    BY <2>1, <2>2, <1>2, <1>4, <1>3 DEF R, StrictSubsetOrdering
  <2> QED BY <2>1, <2>3, <1>3
<1> QED BY <1>5

\* Jobs, pages and chunks are numbers.
LEMMA Numbers ==
  /\ Jobs \in Nat /\ Jobs # 0 /\ Chunk \in Nat /\ Chunk # 0
  /\ \A j \in Job : j \in Int /\ 1 <= j /\ j <= Jobs
  /\ \A first \in Firsts : first \in Nat /\ first # 0
  /\ None \notin Job
<1>1. Jobs \in Nat /\ Jobs # 0 /\ Chunk \in Nat /\ Chunk # 0
  BY BatchAssumption
<1>2. \A first \in Firsts : first \in Nat /\ first # 0
  BY BatchAssumption
<1>3. \A j \in Job : j \in Int /\ 1 <= j /\ j <= Jobs
  BY <1>1 DEF Job
<1>4. None \notin Job
  BY <1>3, BatchAssumption
<1> QED BY <1>1, <1>2, <1>3, <1>4

\* Finitely many jobs.
LEMMA JobsFinite ==
  ASSUME NEW S \in SUBSET Job
  PROVE  IsFiniteSet(S) /\ Cardinality(S) \in Nat /\ Cardinality(S) <= Jobs
<1>1. Jobs \in Nat
  BY BatchAssumption
<1>2. IsFiniteSet(1..Jobs) /\ Cardinality(1..Jobs) = Jobs
  BY <1>1, FS_Interval
<1> QED BY <1>2, FS_Subset, FS_CardinalityType DEF Job

\* Jobs above a bound take at least as many numbers.
LEMMA AboveBound ==
  ASSUME NEW lo \in Nat, NEW hi \in Nat, lo <= hi, NEW S \in SUBSET ((lo+1)..hi)
  PROVE  IsFiniteSet(S) /\ Cardinality(S) \in Nat /\ Cardinality(S) <= hi - lo
<1>1. IsFiniteSet((lo+1)..hi) /\ Cardinality((lo+1)..hi) = hi - lo
  <2>1. lo + 1 \in Int /\ hi \in Int
    OBVIOUS
  <2>2. /\ IsFiniteSet((lo+1)..hi)
        /\ Cardinality((lo+1)..hi) = IF lo + 1 > hi THEN 0 ELSE hi - (lo + 1) + 1
    BY <2>1, FS_Interval
  <2>3. (IF lo + 1 > hi THEN 0 ELSE hi - (lo + 1) + 1) = hi - lo
    OBVIOUS
  <2> QED BY <2>2, <2>3
<1> QED BY <1>1, FS_Subset, FS_CardinalityType

\* Each rank below the number of jobs is the rank of one.
LEMMA RankExists ==
  ASSUME NEW S \in SUBSET Job, NEW r \in Nat, r < Cardinality(S)
  PROVE  \E j \in S : Cardinality(Below(S, j)) = r
<1>1. Jobs \in Nat /\ \A T \in SUBSET S : IsFiniteSet(T) /\ Cardinality(T) \in Nat
  BY JobsFinite, BatchAssumption
<1>2. \A i \in S : i \in Int /\ 1 <= i /\ i <= Jobs
  BY <1>1 DEF Job
<1> DEFINE Upto(m) == {i \in S : i <= m}
           B == {m \in 0..Jobs : Cardinality(Upto(m)) > r}
<1>3. Upto(Jobs) = S /\ Upto(0) = {}
  <2>1. \A i \in S : i <= Jobs /\ ~ (i <= 0)
    BY <1>2, <1>1
  <2> QED BY <2>1
<1>4. Jobs \in B
  BY <1>1, <1>3
<1>5. \A m \in B : m \in Int /\ 0 <= m /\ m <= Jobs
  BY <1>1
<1>6. PICK m \in B : \A y \in B : y >= m
  BY <1>1, <1>4, LeastMember
<1>7. m # 0
  BY <1>3, <1>6, FS_EmptySet
<1>8. Cardinality(Upto(m-1)) <= r
  <2>1. m-1 \in 0..Jobs /\ m-1 \notin B
    BY <1>1, <1>6, <1>7
  <2>2. Cardinality(Upto(m-1)) \in Nat
    BY <1>1
  <2> QED BY <2>1, <2>2
<1>9. Upto(m-1) = Below(S, m)
  <2>1. \A i \in S : i <= m - 1 <=> i < m
    BY <1>2, <1>5
  <2> QED BY <2>1 DEF Below
<1>10. m \in S
  <2>1. ASSUME m \notin S PROVE Upto(m) = Upto(m-1)
    <3>1. \A i \in S : i <= m - 1 <=> i <= m
      BY <2>1, <1>2, <1>5
    <3> QED BY <3>1
  <2> QED BY <2>1, <1>6, <1>8, <1>1
<1>11. Cardinality(Upto(m)) = Cardinality(Upto(m-1)) + 1
  <2>1. Upto(m) = Upto(m-1) \cup {m} /\ m \notin Upto(m-1)
    <3>1. \A i \in S : i <= m <=> (i <= m - 1 \/ i = m)
      BY <1>2, <1>5
    <3>2. ~ (m <= m - 1)
      BY <1>5
    <3> QED BY <3>1, <3>2, <1>10
  <2> QED BY <2>1, <1>1, FS_AddElement
<1>12. Cardinality(Upto(m)) > r /\ Cardinality(Upto(m)) \in Nat /\ Cardinality(Upto(m-1)) \in Nat
  BY <1>1, <1>6
<1>13. Cardinality(Upto(m-1)) = r
  BY <1>8, <1>11, <1>12
<1> QED BY <1>9, <1>10, <1>13

\* A later job of a set has more of them below.
LEMMA RankGrows ==
  ASSUME NEW S \in SUBSET Job, NEW i \in S, NEW j \in S, i < j
  PROVE  Cardinality(Below(S, i)) < Cardinality(Below(S, j))
<1>1. \A k \in S : k \in Int
  BY BatchAssumption DEF Job
<1>2. Below(S, i) \cup {i} \subseteq Below(S, j) /\ i \notin Below(S, i)
  <2>1. \A k \in S : k < i => k < j
    BY <1>1
  <2>2. ~ (i < i)
    BY <1>1
  <2> QED BY <2>1, <2>2 DEF Below
<1>3. /\ IsFiniteSet(Below(S, i)) /\ Cardinality(Below(S, i)) \in Nat
      /\ IsFiniteSet(Below(S, j)) /\ Cardinality(Below(S, j)) \in Nat
  BY JobsFinite DEF Below
<1>4. Cardinality(Below(S, i) \cup {i}) = Cardinality(Below(S, i)) + 1
  BY <1>2, <1>3, FS_AddElement
<1>5. Cardinality(Below(S, i) \cup {i}) <= Cardinality(Below(S, j))
  BY <1>2, <1>3, FS_Subset
<1> QED BY <1>3, <1>4, <1>5

\* InOrder lists jobs of the set, each above the ones before.
LEMMA InOrderSorts ==
  ASSUME NEW S \in SUBSET Job
  PROVE  /\ InOrder(S) \in [1..Cardinality(S) -> S]
         /\ \A p \in 1..Cardinality(S) : Cardinality(Below(S, InOrder(S)[p])) = p - 1
         /\ \A p, q \in 1..Cardinality(S) : p < q => InOrder(S)[p] < InOrder(S)[q]
<1> DEFINE n == Cardinality(S)
           at(p) == CHOOSE j \in S : Cardinality(Below(S, j)) = p - 1
<1>1. n \in Nat /\ S \subseteq Int
  <2>1. n \in Nat
    BY JobsFinite
  <2>2. Job \subseteq Int
    BY DEF Job
  <2> QED BY <2>1, <2>2
<1>2. InOrder(S) = [p \in 1..n |-> at(p)]
  BY DEF InOrder, Below
<1> HIDE DEF n
<1>3. ASSUME NEW p \in 1..n PROVE at(p) \in S /\ Cardinality(Below(S, at(p))) = p - 1
  <2>1. p - 1 \in Nat /\ p - 1 < n
    BY <1>1
  <2>2. \E j \in S : Cardinality(Below(S, j)) = p - 1
    BY <2>1, RankExists DEF n
  <2> QED BY <2>2
<1> HIDE DEF at
<1>4. ASSUME NEW p \in 1..n, NEW q \in 1..n, p < q PROVE at(p) < at(q)
  <2>1. at(p) \in Int /\ at(q) \in Int
    BY <1>1, <1>3
  <2>2. ASSUME at(q) <= at(p) PROVE FALSE
    <3>1. Below(S, at(q)) \subseteq Below(S, at(p)) /\ Below(S, at(p)) \in SUBSET Job
      <4>1. \A i \in S : i < at(q) => i < at(p)
        BY <2>1, <2>2, <1>1
      <4> QED BY <4>1 DEF Below
    <3>2. IsFiniteSet(Below(S, at(p)))
      BY <3>1, JobsFinite
    <3>3. Cardinality(Below(S, at(q))) <= Cardinality(Below(S, at(p)))
      BY <3>1, <3>2, FS_Subset
    <3>4. q - 1 <= p - 1
      BY <1>3, <3>3
    <3> QED BY <3>4, <1>4, <1>1
  <2> QED BY <2>1, <2>2
<1> QED BY <1>2, <1>3, <1>4 DEF n

\* InOrder leaves no job of the set out.
LEMMA InOrderCovers ==
  ASSUME NEW S \in SUBSET Job, NEW j \in S
  PROVE  \E p \in 1..Cardinality(S) : InOrder(S)[p] = j
<1> DEFINE p == Cardinality(Below(S, j)) + 1
<1>1. Below(S, j) \subseteq S \ {j} /\ Jobs \in Int
  <2>1. ~ (j < j)
    BY BatchAssumption DEF Job
  <2> QED BY <2>1, BatchAssumption DEF Below
<1>2. /\ IsFiniteSet(S) /\ Cardinality(S) \in Nat /\ Cardinality(Below(S, j)) \in Nat
      /\ Cardinality(S \ {j}) = Cardinality(S) - 1 /\ IsFiniteSet(S \ {j})
  BY <1>1, JobsFinite, FS_RemoveElement
<1>3. Cardinality(Below(S, j)) <= Cardinality(S) - 1
  BY <1>1, <1>2, FS_Subset
<1>4. p \in 1..Cardinality(S)
  BY <1>2, <1>3
<1> HIDE DEF p
<1>5. InOrder(S)[p] \in S /\ Cardinality(Below(S, InOrder(S)[p])) = p - 1
  BY <1>4, InOrderSorts
<1>6. Cardinality(Below(S, j)) = p - 1
  BY <1>2 DEF p
<1>7. \A i, k \in S : i < k => Cardinality(Below(S, i)) < Cardinality(Below(S, k))
  BY RankGrows
<1>8. j \in Int /\ InOrder(S)[p] \in Int
  BY <1>5, Numbers
<1>9. CASE InOrder(S)[p] = j
  BY <1>9, <1>4
<1>10. CASE InOrder(S)[p] < j
  BY <1>10, <1>5, <1>6, <1>7, <1>2
<1>11. CASE j < InOrder(S)[p]
  BY <1>11, <1>5, <1>6, <1>7, <1>2
<1> QED BY <1>8, <1>9, <1>10, <1>11

\* An increasing list has as many members as positions.
LEMMA IncreasingCount ==
  ASSUME NEW k \in Nat, NEW f \in [1..k -> Int], \A p, q \in 1..k : p < q => f[p] < f[q]
  PROVE  IsFiniteSet({f[p] : p \in 1..k}) /\ Cardinality({f[p] : p \in 1..k}) = k
<1> DEFINE K == {f[p] : p \in 1..k}
<1>1. f \in Bijection(1..k, K)
  <2>1. f \in [1..k -> K] /\ \A y \in K : \E p \in 1..k : f[p] = y
    OBVIOUS
  <2>2. \A p, q \in 1..k : f[p] = f[q] => p = q
    <3>1. \A p, q \in 1..k : p < q \/ q < p \/ p = q
      OBVIOUS
    <3> QED BY <3>1
  <2> QED BY <2>1, <2>2 DEF Bijection, Injection, Surjection, IsInjective
<1>2. Cardinality(1..k) = k /\ IsFiniteSet(1..k)
  <2>1. /\ IsFiniteSet(1..k)
        /\ Cardinality(1..k) = IF 1 > k THEN 0 ELSE k - 1 + 1
    BY FS_Interval
  <2> QED BY <2>1
<1>3. IsFiniteSet(K) /\ Cardinality(K) = Cardinality(1..k)
  <2> HIDE DEF K
  <2> QED BY <1>1, <1>2, FS_Bijection DEF ExistsBijection
<1> QED BY <1>2, <1>3

-----------------------------------------------------------------------------
(* Pages of the stream.                                                    *)

\* A page of the jobs M, and what is left of the stream before it.
PageIn(M, after, limit) ==
  LET rest == InOrder({j \in M : j > after})
  IN [ids    |-> SubSeq(rest, 1, IF limit < Len(rest) THEN limit ELSE Len(rest)),
      cursor |-> IF limit < Len(rest) THEN rest[limit] ELSE None]

\* Its jobs are in the order of the keyset.
Sorted(ids) == \A p, q \in 1..Len(ids) : p < q => ids[p] < ids[q]

\* The jobs a page reaches up to.
Reach(page) == IF page.cursor = None THEN Jobs ELSE page.cursor

\* A page in terms of the jobs behind the cursor.
LEMMA PageParts ==
  ASSUME NEW M \in SUBSET Job, NEW after \in Nat, NEW limit \in Nat, limit # 0
  PROVE  LET S == {j \in M : j > after}
             n == Cardinality(S)
             k == IF limit < n THEN limit ELSE n
             page == PageIn(M, after, limit)
         IN /\ S \in SUBSET Job /\ n \in Nat /\ k \in Nat /\ k <= n
            /\ InOrder(S) \in [1..n -> S]
            /\ page.ids \in Seq(Job) /\ Len(page.ids) = k
            /\ \A p \in 1..k : page.ids[p] = InOrder(S)[p]
            /\ page.cursor = IF limit < n THEN InOrder(S)[limit] ELSE None
            /\ page = [ids |-> page.ids, cursor |-> page.cursor]
<1> DEFINE S == {j \in M : j > after}
           n == Cardinality(S)
           k == IF limit < n THEN limit ELSE n
           page == PageIn(M, after, limit)
<1>1. S \in SUBSET Job
  OBVIOUS
<1>2. n \in Nat
  BY <1>1, JobsFinite
<1>3. k \in Nat /\ k <= n
  BY <1>2
<1>4. InOrder(S) \in [1..n -> S]
  BY <1>1, InOrderSorts
<1> DEFINE rest == InOrder(S)
<1>5. page = [ids    |-> SubSeq(rest, 1, IF limit < Len(rest) THEN limit ELSE Len(rest)),
              cursor |-> IF limit < Len(rest) THEN rest[limit] ELSE None]
  BY DEF PageIn
<1> HIDE DEF page, rest, S
<1>6. rest \in [1..n -> Job]
  BY <1>1, <1>4 DEF rest
<1> HIDE DEF n
<1>7. rest \in Seq(Job)
  BY <1>2, <1>6
<1>8. Len(rest) = n
  BY <1>2, <1>6, <1>7
<1>9. page.ids = SubSeq(rest, 1, k) /\ page.cursor = IF limit < n THEN rest[limit] ELSE None
  BY <1>5, <1>8
<1>10. \A i \in 1..k : rest[i] \in Job
  BY <1>2, <1>3, <1>6
<1> HIDE DEF k
<1>11. /\ SubSeq(rest, 1, k) \in Seq(Job)
       /\ Len(SubSeq(rest, 1, k)) = IF 1 <= k THEN k - 1 + 1 ELSE 0
       /\ \A i \in 1..(k - 1 + 1) : SubSeq(rest, 1, k)[i] = rest[1 + i - 1]
  BY <1>3, <1>7, <1>8, <1>10, SubSeqProperties
<1>12. Len(SubSeq(rest, 1, k)) = k
  BY <1>3, <1>11
<1>13. \A i \in 1..k : SubSeq(rest, 1, k)[i] = rest[i]
  BY <1>3, <1>11
<1> QED BY <1>1, <1>2, <1>3, <1>4, <1>5, <1>9, <1>11, <1>12, <1>13 DEF rest, k, n, S, page

\* A page holds the next jobs behind the cursor, all up to where it reaches.
LEMMA PageFacts ==
  ASSUME NEW M \in SUBSET Job, NEW after \in 0..Jobs, NEW limit \in Nat, limit # 0
  PROVE  LET page == PageIn(M, after, limit)
         IN /\ page \in PageOfJobs /\ Sorted(page.ids)
            /\ Len(page.ids) <= limit
            /\ \A p \in 1..Len(page.ids) :
                 page.ids[p] \in M /\ after < page.ids[p] /\ page.ids[p] <= Reach(page)
            /\ page.cursor # None => Len(page.ids) = limit
            /\ page.cursor # None => after < page.cursor
            /\ after + Len(page.ids) <= Reach(page)
            /\ \A j \in M : after < j /\ j <= Reach(page) =>
                 \E p \in 1..Len(page.ids) : page.ids[p] = j
<1> DEFINE S == {j \in M : j > after}
           n == Cardinality(S)
           k == IF limit < n THEN limit ELSE n
           page == PageIn(M, after, limit)
<1>1. after \in Nat /\ after <= Jobs
  BY Numbers
<1>2. /\ S \in SUBSET Job /\ n \in Nat /\ k \in Nat /\ k <= n
      /\ InOrder(S) \in [1..n -> S]
      /\ page.ids \in Seq(Job) /\ Len(page.ids) = k
      /\ \A p \in 1..k : page.ids[p] = InOrder(S)[p]
      /\ page.cursor = IF limit < n THEN InOrder(S)[limit] ELSE None
      /\ page = [ids |-> page.ids, cursor |-> page.cursor]
  BY <1>1, PageParts
<1>3. \A p, q \in 1..n : p < q => InOrder(S)[p] < InOrder(S)[q]
  BY <1>2, InOrderSorts
<1>4. \A p \in 1..n : InOrder(S)[p] \in M /\ after < InOrder(S)[p]
  <2>1. \A j \in S : j \in M /\ after < j
    BY <1>1, Numbers
  <2> QED BY <1>2, <2>1
<1>5. \A j \in M : after < j => \E p \in 1..n : InOrder(S)[p] = j
  <2>1. \A j \in M : after < j => j \in S
    BY <1>1, Numbers
  <2> QED BY <2>1, <1>2, InOrderCovers
<1>6. \A p \in 1..n : InOrder(S)[p] \in Int /\ 1 <= InOrder(S)[p] /\ InOrder(S)[p] <= Jobs
  BY <1>2, Numbers
<1> HIDE DEF S, page
<1> USE Numbers
<1> HIDE DEF n
<1>7. limit < n => limit \in 1..n /\ k = limit
  BY <1>2
<1>8. page \in PageOfJobs
  <2>1. page.cursor \in Job \cup {None}
    BY <1>2, <1>7
  <2> QED BY <2>1, <1>2 DEF PageOfJobs
<1>9. page.cursor # None <=> limit < n
  BY <1>2, <1>7
<1>10. Reach(page) = IF limit < n THEN InOrder(S)[limit] ELSE Jobs
  BY <1>2, <1>9 DEF Reach
<1>11. Sorted(page.ids)
  BY <1>2, <1>3 DEF Sorted
<1>12. ASSUME NEW p \in 1..k
       PROVE  page.ids[p] \in M /\ after < page.ids[p] /\ page.ids[p] <= Reach(page)
  <2>1. p \in 1..n /\ page.ids[p] = InOrder(S)[p]
    BY <1>2
  <2>2. CASE limit < n
    <3>1. p = limit \/ p < limit
      BY <2>2, <1>7, <1>2
    <3>2. InOrder(S)[p] <= InOrder(S)[limit]
      BY <2>1, <3>1, <1>3, <1>6, <1>7, <2>2
    <3> QED BY <2>1, <2>2, <3>2, <1>4, <1>10
  <2>3. CASE ~ (limit < n)
    BY <2>1, <2>3, <1>4, <1>6, <1>10
  <2> QED BY <2>2, <2>3
<1>13. page.cursor # None => after < page.cursor
  BY <1>2, <1>4, <1>7, <1>9
<1>14. Reach(page) \in Nat /\ after <= Reach(page)
  BY <1>1, <1>4, <1>6, <1>7, <1>10
<1>15. after + k <= Reach(page)
  <2> HIDE DEF k
  <2> DEFINE K == {page.ids[p] : p \in 1..k}
  <2>1. K \in SUBSET ((after+1)..Reach(page))
    BY <1>12, <1>14, <1>1
  <2>2. Cardinality(K) \in Nat /\ Cardinality(K) <= Reach(page) - after /\ IsFiniteSet(K)
    BY <2>1, <1>1, <1>14, AboveBound
  <2> DEFINE g == [p \in 1..k |-> page.ids[p]]
  <2>3. g \in [1..k -> Int] /\ \A p, q \in 1..k : p < q => g[p] < g[q]
    BY <1>2, <1>3, <1>6, SMTT(60)
  <2>4. K = {g[p] : p \in 1..k}
    OBVIOUS
  <2> HIDE DEF g
  <2>5. Cardinality(K) = k
    BY <1>2, <2>3, <2>4, IncreasingCount
  <2> QED BY <2>2, <2>5, <1>1, <1>14, <1>2
<1>16. ASSUME NEW j \in M, after < j, j <= Reach(page)
       PROVE  \E p \in 1..k : page.ids[p] = j
  <2>1. PICK p \in 1..n : InOrder(S)[p] = j
    BY <1>5, <1>16
  <2>2. p \in 1..k
    <3>1. ASSUME limit < p PROVE FALSE
      <4>1. limit < n
        BY <3>1, <1>2
      <4>2. InOrder(S)[limit] < j
        BY <3>1, <4>1, <2>1, <1>3, <1>7
      <4> QED BY <4>1, <4>2, <1>16, <1>10, <1>6, <1>7, <2>1
    <3> QED BY <3>1, <1>2
  <2> QED BY <2>1, <2>2, <1>2
<1> QED BY <1>2, <1>7, <1>8, <1>9, <1>11, <1>12, <1>13, <1>15, <1>16 DEF page

-----------------------------------------------------------------------------
(***************************************************************************)
(* The inductive invariant, in three layers.  A buffer r, the stored one   *)
(* or the one in the feeder's hands, is read from a position on.           *)
(***************************************************************************)
Rows ==
  [status : Statuses, next : Nat, base : Nat, output : BOOLEAN, spec : PageOfJobs]

Typed ==
  /\ kind \in {"package", "rerun"}
  /\ op \in Rows /\ feeder \in Chunks \cup {None}
  /\ verdict \in [Seqs -> Job \cup {None}]
  /\ matching \in SUBSET Job /\ selected \in SUBSET Job
  /\ joins \in 0..MaxJoins
  /\ applied \in [Job -> Nat]
  /\ packages \in 0..MaxPacks /\ crashes \in 0..MaxCrash

AtSeq(r, s) == r.spec.ids[s - r.base + 1]
BoundOf(r) == Reach(r.spec)

\* The buffer holds its position, and leaves room for the stream behind it.
Buffered(r, start) ==
  /\ start \in Nat /\ r.base \in Nat /\ r.spec \in PageOfJobs
  /\ Sorted(r.spec.ids)
  /\ r.base <= start /\ start <= Total(r) /\ Total(r) <= BoundOf(r)
  /\ \A p \in 1..Len(r.spec.ids) : r.spec.ids[p] <= BoundOf(r)

\* Every position before the bound has its verdict.
Recorded(bound) == \A s \in 0..(bound - 1) : verdict[s] # None
Done(step) == step \notin {"claimed", "feeding"}

\* First layer: the chunk in the feeder's hands, and what it owes to the row.
ChunkHeld ==
  feeder # None =>
    /\ feeder.start = op.next
    /\ op.status # "completed"
    /\ Buffered(feeder, feeder.start)
    /\ ~ feeder.changed => feeder.spec = op.spec /\ feeder.base = op.base
    /\ feeder.at = "claimed" => ~ feeder.changed
    /\ feeder.at = "feeding" => feeder.todo = Undone(feeder) /\ feeder.left \subseteq feeder.todo
    /\ Done(feeder.at) => Recorded(EndOf(feeder))
    /\ feeder.at = "advancing" /\ kind = "package" /\ IsFinal(feeder) /\ ~ feeder.output =>
         op.status # "running"

Walk ==
  /\ Typed
  /\ Buffered(op, op.next) /\ Recorded(op.next)
  /\ CompletedIsRecorded
  /\ ChunkHeld

\* Second layer: the stream behind a buffer r while the jobs M match, and the
\* position of a job in it; with the results v, the jobs whose position has no
\* verdict are still due.
Stream(r, M) ==
  {r.spec.ids[p] : p \in 1..Len(r.spec.ids)}
    \cup {j \in M : r.spec.cursor # None /\ r.spec.cursor < j}
Position(r, M, j) == r.base + Cardinality(Below(Stream(r, M), j))
Blank(v, s) == s \in Seqs => v[s] = None
Due(v, M, r) == {j \in Stream(r, M) : Blank(v, Position(r, M, j))}

\* A recorded job that is due will be repeated; a selected job that is neither
\* recorded nor due will be skipped.
Named(v) == {j \in Job : \E s \in Seqs : v[s] = j}
RepeatsIn(v) == {s \in Seqs : v[s] # None /\ \E t \in Seqs : t < s /\ v[t] = v[s]}
Repeated(v, M, r) == Cardinality(RepeatsIn(v)) + Cardinality(Named(v) \cap Due(v, M, r))
Skipped(v, M, r, S) == Cardinality(S \ (Named(v) \cup Due(v, M, r)))
Accounted(v, M, r) == Repeated(v, M, r) <= joins /\ Skipped(v, M, r, selected) <= Leaves

\* The verdicts are without a gap; the accounts hold for the stored buffer
\* whether the chunk at hand is recorded or lost, and for the feeder's buffer
\* once it is recorded.
NoGap(v) == \A s, t \in Seqs : s < t /\ v[t] # None => v[s] # None
With(v, r, S) == [s \in Seqs |-> IF s \in S THEN AtSeq(r, s) ELSE v[s]]
Prospect == IF At("feeding") THEN With(verdict, feeder, feeder.todo) ELSE verdict
Todo(v, r, S) ==
  /\ Buffered(r, r.start) /\ \A s \in 0..(r.start - 1) : v[s] # None
  /\ S = {s \in r.start..(EndOf(r) - 1) : v[s] = None}
Books ==
  /\ NoGap(verdict)
  /\ Accounted(verdict, matching, op)
  /\ Accounted(Prospect, matching, op)
  /\ feeder # None => Accounted(Prospect, matching, feeder)

\* Third layer: each mutation of a job has its verdict, is of the chunk at hand,
\* or was lost in a crash.
SeqsOf(v, j) == {s \in Seqs : v[s] = j}
Times(v, j) == Cardinality(SeqsOf(v, j))
Performed == IF At("feeding") THEN With(verdict, feeder, feeder.todo \ feeder.left) ELSE verdict
Mutations ==
  /\ feeder # None \/ op.status \notin Terminal =>
       \A j \in Job : applied[j] <= crashes + Times(Performed, j)
  /\ \A j \in Job : applied[j] <= 1 + crashes + joins

-----------------------------------------------------------------------------
(* The first layer: types, the buffer, and the recorded positions.         *)

\* What a buffered chunk reads lies in its page, and in the list of results.
LEMMA ChunkFacts ==
  ASSUME NEW r, r.start \in Nat, Buffered(r, r.start)
  PROVE  /\ Total(r) \in Nat /\ Total(r) = r.base + Len(r.spec.ids)
         /\ Len(r.spec.ids) \in Nat
         /\ BoundOf(r) \in Nat /\ Total(r) <= BoundOf(r) /\ BoundOf(r) <= Jobs
         /\ EndOf(r) \in Nat /\ r.start <= EndOf(r) /\ EndOf(r) <= Total(r)
         /\ EndOf(r) <= r.start + Chunk
         /\ EndOf(r) = Total(r) \/ EndOf(r) = r.start + Chunk
<1>1. r.base \in Nat /\ r.spec.ids \in Seq(Job) /\ r.spec.cursor \in Job \cup {None}
  BY DEF Buffered, PageOfJobs
<1>2. Len(r.spec.ids) \in Nat
  BY <1>1
<1>3. Total(r) \in Nat
  BY <1>1, <1>2 DEF Total
<1>4. BoundOf(r) \in Nat /\ BoundOf(r) <= Jobs
  BY <1>1, Numbers DEF BoundOf, Reach
<1>5. r.start <= Total(r) /\ Total(r) <= BoundOf(r)
  BY DEF Buffered
<1>6. /\ EndOf(r) \in Nat /\ r.start <= EndOf(r) /\ EndOf(r) <= Total(r)
      /\ EndOf(r) <= r.start + Chunk
      /\ EndOf(r) = Total(r) \/ EndOf(r) = r.start + Chunk
  BY <1>3, <1>5, Numbers DEF EndOf
<1> QED BY <1>1, <1>2, <1>3, <1>4, <1>5, <1>6 DEF Total

LEMMA SeqFacts ==
  ASSUME NEW r, NEW start \in Nat, Buffered(r, start), NEW s \in start..(Total(r) - 1)
  PROVE  /\ s \in Seqs /\ s \in Nat
         /\ s - r.base + 1 \in 1..Len(r.spec.ids)
         /\ AtSeq(r, s) \in Job /\ AtSeq(r, s) <= BoundOf(r)
<1>1. r.base \in Nat /\ r.spec.ids \in Seq(Job) /\ r.spec.cursor \in Job \cup {None}
  BY DEF Buffered, PageOfJobs
<1>2. Len(r.spec.ids) \in Nat
  BY <1>1
<1>3. BoundOf(r) \in Nat /\ BoundOf(r) <= Jobs
  BY <1>1, Numbers DEF BoundOf, Reach
<1>4. r.base <= start /\ Total(r) <= BoundOf(r) /\ Total(r) = r.base + Len(r.spec.ids)
  BY DEF Buffered, Total
<1>5. s \in Nat /\ start <= s /\ s <= Total(r) - 1
  BY <1>1, <1>2, <1>4
<1>6. s - r.base + 1 \in 1..Len(r.spec.ids)
  BY <1>1, <1>2, <1>4, <1>5, SMTT(60)
<1>7. s \in Seqs
  BY <1>1, <1>2, <1>3, <1>4, <1>5, Numbers, SMTT(60) DEF Seqs
<1>8. AtSeq(r, s) \in Job
  BY <1>1, <1>6 DEF AtSeq
<1>9. AtSeq(r, s) <= BoundOf(r)
  BY <1>6 DEF AtSeq, Buffered
<1> QED BY <1>5, <1>6, <1>7, <1>8, <1>9

\* Different positions of a buffer hold different jobs.
LEMMA SeqsDiffer ==
  ASSUME NEW r, NEW start \in Nat, Buffered(r, start),
         NEW s \in start..(Total(r) - 1), NEW t \in start..(Total(r) - 1),
         AtSeq(r, s) = AtSeq(r, t)
  PROVE  s = t
<1>1. r.base \in Nat /\ Sorted(r.spec.ids)
  BY DEF Buffered
<1>2. /\ s - r.base + 1 \in 1..Len(r.spec.ids) /\ t - r.base + 1 \in 1..Len(r.spec.ids)
      /\ AtSeq(r, s) \in Job /\ s \in Nat /\ t \in Nat
  BY SeqFacts
<1>3. ~ (AtSeq(r, s) < AtSeq(r, s))
  BY <1>2, Numbers
<1>4. ~ (s < t)
  <2>1. s < t => s - r.base + 1 < t - r.base + 1
    BY <1>1, <1>2
  <2> QED BY <2>1, <1>1, <1>2, <1>3 DEF Sorted, AtSeq
<1>5. ~ (t < s)
  <2>1. t < s => t - r.base + 1 < s - r.base + 1
    BY <1>1, <1>2
  <2> QED BY <2>1, <1>1, <1>2, <1>3 DEF Sorted, AtSeq
<1> QED BY <1>2, <1>4, <1>5

\* The model's own page is the page of the jobs that match now.
LEMMA PageIsPageIn ==
  \A after, limit : Page(after, limit) = PageIn(matching, after, limit)
BY DEF Page, PageIn

\* load_chunk hands out the stored buffer, or the next page of the stream.
LEMMA LoadedFacts ==
  ASSUME Walk, At("claimed"), NEW chunk, chunk = Loaded(feeder.start)
  PROVE  /\ chunk \in Chunks /\ chunk.start = feeder.start /\ chunk.output = feeder.output
         /\ chunk.at = "claimed"
         /\ Buffered(chunk, chunk.start)
         /\ \/ chunk = feeder
            \/ LET page == PageIn(matching, op.spec.cursor, Chunk)
               IN /\ op.spec.cursor # None /\ op.spec.cursor \in Job
                  /\ feeder.start = Total(op) /\ feeder.start <= op.spec.cursor
                  /\ chunk.changed /\ chunk.base = feeder.start /\ chunk.spec = page
<1>1. feeder # None /\ feeder.at = "claimed" /\ feeder \in Chunks
  BY DEF At, Walk, Typed
<1>2. /\ feeder.start = op.next /\ feeder.spec = op.spec /\ feeder.base = op.base
      /\ Buffered(feeder, feeder.start) /\ feeder.start \in Nat
  BY <1>1 DEF Walk, ChunkHeld, Chunks
<1>3. CASE ~ (feeder.spec.cursor # None /\ feeder.start = Total(feeder))
  BY <1>1, <1>2, <1>3 DEF Loaded
<1>4. CASE feeder.spec.cursor # None /\ feeder.start = Total(feeder)
  <2> DEFINE page == PageIn(matching, op.spec.cursor, Chunk)
  <2>1. chunk = [feeder EXCEPT !.spec = page, !.base = feeder.start, !.changed = TRUE]
    BY <1>2, <1>4, PageIsPageIn DEF Loaded
  <2>2. op.spec.cursor \in Job /\ op.spec.cursor \in 0..Jobs /\ op.spec.cursor # None
    <3>1. op.spec.cursor \in Job \cup {None} /\ op.spec.cursor # None
      BY <1>2, <1>4 DEF Buffered, PageOfJobs
    <3> QED BY <3>1, Numbers
  <2>3. feeder.start = Total(op) /\ feeder.start <= op.spec.cursor
    <3>1. Total(feeder) = Total(op)
      BY <1>2 DEF Total
    <3>2. Total(feeder) <= Reach(op.spec)
      BY <1>2 DEF Buffered, BoundOf
    <3> QED BY <3>1, <3>2, <2>2, <1>4 DEF Reach
  <2>4. matching \in SUBSET Job
    BY DEF Walk, Typed
  <2>5. /\ page \in PageOfJobs /\ Sorted(page.ids)
        /\ \A p \in 1..Len(page.ids) : page.ids[p] <= Reach(page)
        /\ op.spec.cursor + Len(page.ids) <= Reach(page)
    BY <2>2, <2>4, Numbers, PageFacts
  <2> HIDE DEF page
  <2>6. /\ chunk \in Chunks /\ chunk.start = feeder.start /\ chunk.output = feeder.output
        /\ chunk.at = "claimed" /\ chunk.changed /\ chunk.base = feeder.start
        /\ chunk.spec = page
    BY <1>1, <1>2, <2>1, <2>5 DEF Chunks
  <2>7. Len(page.ids) \in Nat /\ Reach(page) \in Nat
    <3>1. page.ids \in Seq(Job) /\ page.cursor \in Job \cup {None}
      BY <2>5 DEF PageOfJobs
    <3> QED BY <3>1, Numbers DEF Reach
  <2>8. Total(chunk) = feeder.start + Len(page.ids)
    BY <2>6 DEF Total
  <2>9. feeder.start <= Total(chunk) /\ Total(chunk) <= Reach(page)
    BY <2>8, <2>7, <2>5, <2>3, <2>2, <1>2, Numbers
  <2>10. Buffered(chunk, chunk.start)
    BY <2>5, <2>6, <2>9, <1>2 DEF Buffered, BoundOf
  <2> QED BY <2>2, <2>3, <2>6, <2>10 DEF page
<1> QED BY <1>3, <1>4
\* A step that leaves the row and its results alone keeps what is said of them.
LEMMA RowKept ==
  ASSUME Walk, UNCHANGED <<kind, op, verdict>>
  PROVE  /\ kind' \in {"package", "rerun"} /\ op' \in Rows
         /\ verdict' \in [Seqs -> Job \cup {None}]
         /\ Buffered(op', op'.next) /\ Recorded(op.next)' /\ CompletedIsRecorded'
         /\ \A r : EndOf(r)' = EndOf(r) /\ IsFinal(r)' = IsFinal(r)
         /\ \A r : Undone(r)' = Undone(r) /\ \A b : Recorded(b)' = Recorded(b)
<1>1. /\ kind' \in {"package", "rerun"} /\ op' \in Rows
      /\ verdict' \in [Seqs -> Job \cup {None}]
      /\ Buffered(op', op'.next)
  BY DEF Walk, Typed
<1>2. Recorded(op.next)' /\ CompletedIsRecorded'
  BY DEF Walk, Recorded, CompletedIsRecorded, Total
<1>3. \A r : EndOf(r)' = EndOf(r) /\ IsFinal(r)' = IsFinal(r)
  BY DEF EndOf, IsFinal, Total
<1>4. \A r : Undone(r)' = Undone(r)
  BY DEF Undone, EndOf, Total
<1>5. \A b : Recorded(b)' = Recorded(b)
  BY DEF Recorded
<1> QED BY <1>1, <1>2, <1>3, <1>4, <1>5

LEMMA WalkInit == Init => Walk
<1> SUFFICES ASSUME Init PROVE Walk
  OBVIOUS
<1>1. PICK first \in Firsts :
        op = [status |-> "pending", next |-> 0, output |-> FALSE, base |-> 0,
              spec |-> PageIn(matching, 0, first)]
  BY PageIsPageIn DEF Init
<1> DEFINE page == PageIn(matching, 0, first)
<1>2. /\ first \in Nat /\ first # 0 /\ 0 \in 0..Jobs
      /\ matching \in SUBSET Job /\ selected \in SUBSET Job
  BY Numbers DEF Init
<1>3. /\ page \in PageOfJobs /\ Sorted(page.ids)
      /\ \A p \in 1..Len(page.ids) : page.ids[p] <= Reach(page)
      /\ 0 + Len(page.ids) <= Reach(page)
  BY <1>2, PageFacts
<1> HIDE DEF page
<1>4. Len(page.ids) \in Nat
  BY <1>3 DEF PageOfJobs
<1>5. op.next = 0 /\ op.base = 0 /\ op.spec = page /\ op.status = "pending" /\ op \in Rows
  BY <1>1, <1>3 DEF Rows, Statuses, page
<1>6. Total(op) = Len(page.ids)
  BY <1>4, <1>5 DEF Total
<1>7. 0 <= Len(page.ids) /\ Len(page.ids) <= Reach(page)
  <2>1. Reach(page) \in Nat
    BY <1>3, Numbers DEF Reach, PageOfJobs
  <2> QED BY <2>1, <1>3, <1>4
<1>8. Buffered(op, op.next)
  BY <1>3, <1>5, <1>6, <1>7 DEF Buffered, BoundOf
<1>9. Recorded(op.next) /\ CompletedIsRecorded
  BY <1>5 DEF Recorded, CompletedIsRecorded
<1>10. Typed
  <2>1. crashes \in 0..MaxCrash /\ packages \in 0..MaxPacks /\ joins \in 0..MaxJoins
    BY BatchAssumption DEF Init
  <2>2. kind \in {"package", "rerun"} /\ verdict \in [Seqs -> Job \cup {None}]
    BY DEF Init
  <2>3. applied \in [Job -> Nat] /\ feeder \in Chunks \cup {None}
    BY DEF Init
  <2> QED BY <2>1, <2>2, <2>3, <1>2, <1>5 DEF Typed
<1>11. ChunkHeld
  BY DEF Init, ChunkHeld
<1> QED BY <1>8, <1>9, <1>10, <1>11 DEF Walk

LEMMA ClaimWalks == Walk /\ Claim => Walk'
<1> SUFFICES ASSUME Walk, Claim PROVE Walk'
  OBVIOUS
<1>1. op \in Rows /\ Buffered(op, op.next) /\ op.next \in Nat
  BY DEF Walk, Typed, Rows
<1>2. /\ op' \in Rows /\ op'.status = "running" /\ op'.next = op.next /\ op'.base = op.base
      /\ op'.spec = op.spec
  BY <1>1 DEF Claim, Rows, Statuses
<1>3. /\ feeder' \in Chunks /\ feeder'.at = "claimed" /\ feeder'.start = op.next
      /\ feeder'.base = op.base /\ feeder'.spec = op.spec /\ ~ feeder'.changed
  BY <1>1 DEF Claim, Chunks, Rows
<1>4. Buffered(op', op'.next) /\ Buffered(feeder', feeder'.start)
  BY <1>1, <1>2, <1>3 DEF Buffered, Total, BoundOf
<1>5. Recorded(op.next)' /\ CompletedIsRecorded'
  BY <1>2 DEF Walk, Claim, Recorded, CompletedIsRecorded, tally
<1>6. Typed'
  BY <1>2, <1>3 DEF Walk, Typed, Claim, tally, filter
<1>7. ChunkHeld'
  BY <1>2, <1>3, <1>4 DEF ChunkHeld, Done
<1> QED BY <1>4, <1>5, <1>6, <1>7 DEF Walk

LEMMA LoadWalks == Walk /\ Load => Walk'
<1> SUFFICES ASSUME Walk, Load PROVE Walk'
  OBVIOUS
<1> DEFINE chunk == Loaded(feeder.start)
<1>1. /\ chunk \in Chunks /\ chunk.start = feeder.start
      /\ Buffered(chunk, chunk.start)
      /\ chunk = feeder \/ chunk.changed
  BY LoadedFacts DEF Load
<1>2. UNCHANGED <<kind, op, verdict>> /\ feeder # None
  BY DEF Load, tally, At
<1>3. Undone(chunk) \in SUBSET Seqs
  <2>1. \A s \in Undone(chunk) : s \in chunk.start..(Total(chunk) - 1)
    BY <1>1, ChunkFacts DEF Undone, Chunks
  <2> QED BY <2>1, <1>1, SeqFacts DEF Chunks
<1>4. feeder' = [chunk EXCEPT !.at = "feeding", !.todo = Undone(chunk), !.left = Undone(chunk)]
  BY DEF Load
<1> HIDE DEF chunk
<1>5. /\ feeder' \in Chunks /\ feeder'.at = "feeding" /\ feeder'.start = chunk.start
      /\ feeder'.base = chunk.base /\ feeder'.spec = chunk.spec
      /\ feeder'.changed = chunk.changed
      /\ feeder'.todo = Undone(chunk) /\ feeder'.left = Undone(chunk)
  BY <1>1, <1>3, <1>4 DEF Chunks
<1>6. Buffered(feeder', feeder'.start)
  BY <1>1, <1>5 DEF Buffered, Total, BoundOf
<1>7. Undone(feeder)' = Undone(chunk)
  <2>1. EndOf(feeder') = EndOf(chunk)
    BY <1>5 DEF EndOf, Total
  <2> QED BY <2>1, <1>2, <1>5 DEF Undone
<1>8. feeder.start = op.next /\ op.status # "completed"
      /\ (~ feeder.changed => feeder.spec = op.spec /\ feeder.base = op.base)
  BY <1>2 DEF Walk, ChunkHeld
<1>9. Typed'
  BY <1>5 DEF Walk, Typed, Load, tally, filter
<1>10. ChunkHeld'
  BY <1>1, <1>2, <1>5, <1>6, <1>7, <1>8 DEF ChunkHeld, Done
<1> QED BY <1>2, <1>9, <1>10, RowKept DEF Walk
LEMMA Held ==
  ASSUME Walk, feeder # None
  PROVE  /\ feeder \in Chunks /\ feeder.start \in Nat /\ feeder.start = op.next
         /\ op.status # "completed" /\ op \in Rows
         /\ Buffered(feeder, feeder.start)
         /\ ~ feeder.changed => feeder.spec = op.spec /\ feeder.base = op.base
         /\ feeder.at = "feeding" => feeder.todo = Undone(feeder) /\ feeder.left \subseteq feeder.todo
         /\ Done(feeder.at) => Recorded(EndOf(feeder))
         /\ feeder.todo \in SUBSET Seqs /\ feeder.left \in SUBSET Seqs
BY DEF Walk, Typed, ChunkHeld, Chunks

\* The steps of the feeder that leave the row and its results alone.
LEMMA StepWalks ==
  ASSUME Walk, UNCHANGED <<kind, op, verdict>>, Typed', feeder # None,
         feeder' # None =>
           /\ feeder'.start = feeder.start /\ feeder'.base = feeder.base
           /\ feeder'.spec = feeder.spec /\ feeder'.changed = feeder.changed
           /\ feeder'.at # "claimed"
           /\ feeder'.at = "feeding" => feeder.at = "feeding" /\ feeder'.todo = feeder.todo
                                        /\ feeder'.left \subseteq feeder.left
           /\ Done(feeder'.at) => Done(feeder.at)
           /\ feeder'.at = "advancing" /\ kind = "package" /\ IsFinal(feeder) /\ ~ feeder'.output =>
                op.status # "running"
  PROVE  Walk'
<1>1. CASE feeder' = None
  <2>1. ChunkHeld'
    BY <1>1 DEF ChunkHeld
  <2> QED BY <2>1, RowKept DEF Walk
<1>2. CASE feeder' # None
  <2>1. /\ feeder.start = op.next
        /\ op.status # "completed"
        /\ Buffered(feeder, feeder.start)
        /\ ~ feeder.changed => feeder.spec = op.spec /\ feeder.base = op.base
        /\ feeder.at = "feeding" => feeder.todo = Undone(feeder) /\ feeder.left \subseteq feeder.todo
        /\ Done(feeder.at) => Recorded(EndOf(feeder))
    BY Held
  <2>2. EndOf(feeder') = EndOf(feeder) /\ IsFinal(feeder') = IsFinal(feeder)
    BY <1>2 DEF EndOf, Total, IsFinal
  <2>3. Undone(feeder)' = Undone(feeder) /\ Recorded(EndOf(feeder))' = Recorded(EndOf(feeder))
    BY <1>2, <2>2 DEF Undone, Recorded
  <2>4. Buffered(feeder', feeder'.start)
    BY <1>2, <2>1 DEF Buffered, Total, BoundOf
  <2>5. ChunkHeld'
    BY <1>2, <2>1, <2>2, <2>3, <2>4 DEF ChunkHeld
  <2> QED BY <2>5, RowKept DEF Walk
<1> QED BY <1>1, <1>2

\* A position of the chunk at hand names a job.
LEMMA JobAtFacts ==
  ASSUME Walk, At("feeding"), NEW s \in feeder.todo
  PROVE  /\ s \in feeder.start..(Total(feeder) - 1) /\ s \in Seqs /\ s \in Nat
         /\ JobAt(s) = AtSeq(feeder, s) /\ JobAt(s) \in Job
         /\ verdict[s] = None /\ s < EndOf(feeder)
<1>1. feeder # None /\ feeder.at = "feeding"
  BY DEF At
<1>2. Buffered(feeder, feeder.start) /\ feeder.start \in Nat /\ s \in Undone(feeder)
  BY <1>1, Held
<1>3. /\ Total(feeder) \in Nat /\ EndOf(feeder) \in Nat /\ EndOf(feeder) <= Total(feeder)
  BY <1>2, ChunkFacts
<1>4. s \in feeder.start..(Total(feeder) - 1) /\ verdict[s] = None /\ s < EndOf(feeder)
  BY <1>2, <1>3 DEF Undone
<1>5. JobAt(s) = AtSeq(feeder, s)
  BY DEF JobAt, AtSeq
<1> QED BY <1>2, <1>4, <1>5, SeqFacts

\* The mutations of a chunk go by position.
LEMMA LeastLeft ==
  ASSUME Walk, RunJob
  PROVE  \E s \in feeder.left : /\ applied' = [applied EXCEPT ![JobAt(s)] = @ + 1]
                                /\ feeder' = [feeder EXCEPT !.left = @ \ {s}]
<1>1. feeder # None /\ feeder.left # {} /\ feeder.left \in SUBSET Seqs
  BY Held DEF RunJob, At
<1>2. feeder.left \in SUBSET (0..Jobs) /\ \A s \in feeder.left : s \in Int
  BY <1>1, Numbers DEF Seqs
<1>3. \E m \in feeder.left : \A y \in feeder.left : y >= m
  BY <1>1, <1>2, LeastMember, Numbers
<1>4. \E m \in feeder.left : \A y \in feeder.left : m <= y
  BY <1>2, <1>3
<1> DEFINE s == CHOOSE s \in feeder.left : \A t \in feeder.left : s <= t
<1>5. s \in feeder.left
  BY <1>4
<1> QED BY <1>5 DEF RunJob

LEMMA RunJobWalks == Walk /\ RunJob => Walk'
<1> SUFFICES ASSUME Walk, RunJob PROVE Walk'
  OBVIOUS
<1>1. feeder # None /\ feeder.at = "feeding" /\ feeder \in Chunks /\ UNCHANGED <<kind, op, verdict>>
  BY Held DEF RunJob, At
<1>2. PICK s \in feeder.left : /\ applied' = [applied EXCEPT ![JobAt(s)] = @ + 1]
                               /\ feeder' = [feeder EXCEPT !.left = @ \ {s}]
  BY LeastLeft DEF RunJob
<1>3. s \in feeder.todo
  BY <1>1, Held
<1>4. JobAt(s) \in Job
  BY <1>3, JobAtFacts DEF RunJob
<1>5. applied' \in [Job -> Nat]
  BY <1>2, <1>4 DEF Walk, Typed
<1>6. /\ feeder' \in Chunks /\ feeder'.at = "feeding" /\ feeder'.start = feeder.start
      /\ feeder'.base = feeder.base /\ feeder'.spec = feeder.spec
      /\ feeder'.changed = feeder.changed /\ feeder'.todo = feeder.todo
      /\ feeder'.left \subseteq feeder.left
  BY <1>1, <1>2 DEF Chunks
<1>7. Typed'
  BY <1>5, <1>6 DEF Walk, Typed, RunJob, filter
<1> QED BY <1>1, <1>6, <1>7, StepWalks DEF Done

LEMMA ChunkFailsWalks == Walk /\ ChunkFails => Walk'
<1> SUFFICES ASSUME Walk, ChunkFails PROVE Walk'
  OBVIOUS
<1>1. feeder # None /\ feeder.at = "feeding" /\ feeder \in Chunks /\ UNCHANGED <<kind, op, verdict>>
  BY Held DEF ChunkFails, At, tally
<1>2. /\ feeder' \in Chunks /\ feeder'.at = "feeding" /\ feeder'.start = feeder.start
      /\ feeder'.base = feeder.base /\ feeder'.spec = feeder.spec
      /\ feeder'.changed = feeder.changed /\ feeder'.todo = feeder.todo
      /\ feeder'.left \subseteq feeder.left
  BY <1>1 DEF Chunks, ChunkFails
<1>3. Typed'
  BY <1>2 DEF Walk, Typed, ChunkFails, tally, filter
<1> QED BY <1>1, <1>2, <1>3, StepWalks DEF Done

LEMMA ReadFreshWalks == Walk /\ ReadFresh => Walk'
<1> SUFFICES ASSUME Walk, ReadFresh PROVE Walk'
  OBVIOUS
<1>1. feeder # None /\ feeder.at = "recorded" /\ feeder \in Chunks /\ UNCHANGED <<kind, op, verdict>>
  BY Held DEF ReadFresh, At, tally
<1>2. op \in Rows /\ op.output \in BOOLEAN
  BY DEF Walk, Typed, Rows
<1>3. /\ feeder' \in Chunks /\ feeder'.start = feeder.start
      /\ feeder'.base = feeder.base /\ feeder'.spec = feeder.spec
      /\ feeder'.changed = feeder.changed
      /\ feeder'.at \in {"packing", "advancing"}
      /\ feeder'.at = "advancing" /\ kind = "package" /\ IsFinal(feeder) /\ ~ feeder'.output =>
           op.status # "running"
  <2>1. CASE kind = "package" /\ IsFinal(feeder) /\ ~ op.output /\ op.status = "running"
    BY <1>1, <2>1 DEF Chunks, ReadFresh
  <2>2. CASE ~ (kind = "package" /\ IsFinal(feeder) /\ ~ op.output /\ op.status = "running")
    <3> DEFINE out == kind = "package" /\ IsFinal(feeder) /\ op.output
    <3>1. feeder' = [feeder EXCEPT !.at = "advancing", !.output = out]
      BY <2>2 DEF ReadFresh
    <3>2. out \in BOOLEAN
      OBVIOUS
    <3>3. kind = "package" /\ IsFinal(feeder) /\ ~ out => op.status # "running"
      BY <2>2
    <3> HIDE DEF out
    <3> QED BY <1>1, <3>1, <3>2, <3>3 DEF Chunks
  <2> QED BY <2>1, <2>2
<1>4. Typed'
  BY <1>3 DEF Walk, Typed, ReadFresh, tally, filter
<1> QED BY <1>1, <1>3, <1>4, StepWalks DEF Done

LEMMA PackWalks == Walk /\ Pack => Walk'
<1> SUFFICES ASSUME Walk, Pack PROVE Walk'
  OBVIOUS
<1>1. feeder # None /\ feeder.at = "packing" /\ feeder \in Chunks /\ UNCHANGED <<kind, op, verdict>>
  BY Held DEF Pack, At
<1>2. /\ feeder' \in Chunks /\ feeder'.start = feeder.start
      /\ feeder'.base = feeder.base /\ feeder'.spec = feeder.spec
      /\ feeder'.changed = feeder.changed
      /\ feeder'.at = "advancing" /\ feeder'.output
  BY <1>1 DEF Chunks, Pack
<1>3. packages' \in 0..MaxPacks
  BY BatchAssumption DEF Walk, Typed, Pack
<1>4. Typed'
  BY <1>2, <1>3 DEF Walk, Typed, Pack, filter
<1> QED BY <1>1, <1>2, <1>4, StepWalks DEF Done

LEMMA ReadMissedWalks == Walk /\ ReadMissed => Walk'
<1> SUFFICES ASSUME Walk, ReadMissed PROVE Walk'
  OBVIOUS
<1>1. feeder # None /\ feeder.at = "missed" /\ feeder \in Chunks /\ UNCHANGED <<kind, op, verdict>>
  BY Held DEF ReadMissed, At, tally
<1>2. \/ feeder' = [feeder EXCEPT !.at = "interrupted"]
      \/ feeder' = [feeder EXCEPT !.at = "resumed"]
      \/ feeder' = None
  BY DEF ReadMissed
<1>3. feeder' # None =>
      /\ feeder' \in Chunks /\ feeder'.start = feeder.start
      /\ feeder'.base = feeder.base /\ feeder'.spec = feeder.spec
      /\ feeder'.changed = feeder.changed
      /\ feeder'.at \in {"interrupted", "resumed"}
  BY <1>1, <1>2 DEF Chunks
<1>4. Typed'
  BY <1>3 DEF Walk, Typed, ReadMissed, tally, filter
<1> QED BY <1>1, <1>3, <1>4, StepWalks DEF Done

LEMMA CrashWalks == Walk /\ Crash => Walk'
<1> SUFFICES ASSUME Walk, Crash PROVE Walk'
  OBVIOUS
<1>1. feeder # None /\ feeder' = None /\ UNCHANGED <<kind, op, verdict>>
  BY DEF Crash, tally
<1>2. crashes' \in 0..MaxCrash
  BY BatchAssumption DEF Walk, Typed, Crash
<1>3. Typed'
  BY <1>1, <1>2 DEF Walk, Typed, Crash, tally, filter
<1> QED BY <1>1, <1>3, StepWalks
LEMMA RecordWalks == Walk /\ Record => Walk'
<1> SUFFICES ASSUME Walk, Record PROVE Walk'
  OBVIOUS
<1>1. /\ feeder # None /\ feeder.at = "feeding" /\ feeder \in Chunks
      /\ UNCHANGED <<kind, op, applied, packages, filter, crashes>>
      /\ At("feeding") /\ feeder.start = op.next /\ feeder.start \in Nat
      /\ feeder.todo = Undone(feeder) /\ Buffered(feeder, feeder.start)
      /\ op.status # "completed"
      /\ ~ feeder.changed => feeder.spec = op.spec /\ feeder.base = op.base
  BY Held DEF Record, At
<1>2. /\ feeder' \in Chunks /\ feeder'.at = "recorded" /\ feeder'.start = feeder.start
      /\ feeder'.base = feeder.base /\ feeder'.spec = feeder.spec
      /\ feeder'.changed = feeder.changed
  BY <1>1 DEF Chunks, Record
<1>3. verdict \in [Seqs -> Job \cup {None}]
  BY DEF Walk, Typed
<1>4. \A s \in feeder.todo : JobAt(s) \in Job
  BY <1>1, JobAtFacts
<1>5. verdict' = [s \in Seqs |-> IF s \in feeder.todo THEN JobAt(s) ELSE verdict[s]]
  BY DEF Record
<1>6. verdict' \in [Seqs -> Job \cup {None}]
  BY <1>3, <1>4, <1>5
<1>7. \A s \in Seqs : verdict[s] # None \/ s \in feeder.todo => verdict'[s] # None
  BY <1>3, <1>4, <1>5, Numbers
<1>8. /\ EndOf(feeder) \in Nat /\ feeder.start <= EndOf(feeder) /\ EndOf(feeder) <= Jobs
  <2>1. /\ EndOf(feeder) \in Nat /\ feeder.start <= EndOf(feeder) /\ EndOf(feeder) <= Total(feeder)
        /\ Total(feeder) <= BoundOf(feeder) /\ BoundOf(feeder) <= Jobs
        /\ Total(feeder) \in Nat /\ BoundOf(feeder) \in Nat
    BY <1>1, ChunkFacts
  <2> QED BY <2>1, Numbers
<1>9. Recorded(EndOf(feeder))'
  <2>1. ASSUME NEW s \in 0..(EndOf(feeder) - 1) PROVE verdict'[s] # None
    <3>1. s \in Nat /\ s <= EndOf(feeder) - 1 /\ s \in Seqs
      BY <1>8, Numbers DEF Seqs
    <3>2. CASE s < feeder.start
      <4>1. s \in 0..(op.next - 1)
        BY <1>1, <3>1, <3>2
      <4>2. verdict[s] # None
        BY <4>1 DEF Walk, Recorded
      <4> QED BY <4>2, <3>1, <1>7
    <3>3. CASE ~ (s < feeder.start)
      <4>1. s \in feeder.start..(EndOf(feeder) - 1)
        BY <1>1, <1>8, <3>1, <3>3
      <4>2. verdict[s] # None \/ s \in feeder.todo
        BY <4>1, <1>1 DEF Undone
      <4> QED BY <4>2, <3>1, <1>7
    <3> QED BY <3>2, <3>3
  <2>2. EndOf(feeder') = EndOf(feeder)
    BY <1>2 DEF EndOf, Total
  <2> QED BY <2>1, <2>2 DEF Recorded
<1>10. Recorded(op.next)'
  <2>1. \A s \in 0..(op.next - 1) : s \in Seqs
    BY <1>1, <1>8, Numbers DEF Seqs
  <2>2. \A s \in 0..(op.next - 1) : verdict[s] # None
    BY DEF Walk, Recorded
  <2> QED BY <2>1, <2>2, <1>1, <1>7 DEF Recorded
<1>11. Typed'
  BY <1>1, <1>2, <1>6 DEF Walk, Typed, filter
<1>12. Buffered(feeder', feeder'.start)
  BY <1>1, <1>2 DEF Buffered, Total, BoundOf
<1>13. ChunkHeld'
  BY <1>1, <1>2, <1>9, <1>12 DEF ChunkHeld, Done
<1>14. Buffered(op', op'.next) /\ CompletedIsRecorded'
  BY <1>1 DEF Walk, CompletedIsRecorded
<1> QED BY <1>10, <1>11, <1>13, <1>14 DEF Walk

\* The columns of a chunk meet the row's invariant.
LEMMA ChunkStored ==
  ASSUME Walk, feeder # None, Done(feeder.at), NEW row \in Rows,
         row.spec = feeder.spec, row.base = feeder.base,
         row.next \in {EndOf(feeder), feeder.start}
  PROVE  Buffered(row, row.next) /\ Recorded(row.next)
<1>1. Buffered(feeder, feeder.start) /\ feeder.start \in Nat /\ feeder.start = op.next
  BY Held
<1>2. /\ EndOf(feeder) \in Nat /\ feeder.start <= EndOf(feeder) /\ EndOf(feeder) <= Total(feeder)
      /\ Total(feeder) \in Nat
  BY <1>1, ChunkFacts
<1>3. feeder.base \in Nat
  BY <1>1 DEF Buffered
<1>4. Total(row) = Total(feeder) /\ BoundOf(row) = BoundOf(feeder)
  BY DEF Total, BoundOf
<1>5. feeder.base <= feeder.start /\ feeder.start <= Total(feeder)
  BY <1>1 DEF Buffered
<1>6. row.next \in Nat /\ row.base <= row.next /\ row.next <= Total(row)
  BY <1>1, <1>2, <1>3, <1>4, <1>5
<1>7. Buffered(row, row.next)
  BY <1>1, <1>4, <1>6 DEF Buffered
<1>8. Recorded(EndOf(feeder)) /\ Recorded(feeder.start)
  <2>1. Recorded(EndOf(feeder))
    BY Held
  <2> QED BY <2>1, <1>1 DEF Walk
<1> QED BY <1>7, <1>8

\* The writes of the row that end a chunk.
LEMMA RowWalks ==
  ASSUME Walk, op' \in Rows, Buffered(op', op'.next), Recorded(op'.next),
         UNCHANGED <<kind, tally, filter, crashes>>, feeder' = None,
         op'.status = "completed" =>
           /\ op'.spec.cursor = None /\ op'.next = Total(op')
           /\ kind = "package" => op'.output
  PROVE  Walk'
<1>1. UNCHANGED verdict
  BY DEF tally
<1>2. Typed'
  BY DEF Walk, Typed, tally, filter
<1>3. Recorded(op.next)' /\ \A s \in 0..(op'.next - 1) : verdict'[s] # None
  BY <1>1 DEF Recorded
<1>4. CompletedIsRecorded'
  BY <1>3 DEF CompletedIsRecorded
<1>5. ChunkHeld'
  BY DEF ChunkHeld
<1> QED BY <1>2, <1>3, <1>4, <1>5 DEF Walk

LEMMA AdvanceWalks == Walk /\ Advance => Walk'
<1> SUFFICES ASSUME Walk, Advance PROVE Walk'
  OBVIOUS
<1>1. /\ feeder # None /\ feeder.at = "advancing" /\ feeder \in Chunks /\ op \in Rows
      /\ UNCHANGED <<kind, tally, filter, crashes>> /\ Done(feeder.at)
      /\ Buffered(feeder, feeder.start) /\ feeder.start \in Nat
  BY Held DEF Advance, At, Done
<1>2. CASE op.status = "running"
  <2>1. /\ feeder' = None
        /\ op' = [WithChunk(op) EXCEPT !.status = IF IsFinal(feeder) THEN "completed" ELSE "pending"]
    BY <1>2 DEF Advance
  <2>2. EndOf(feeder) \in Nat /\ EndOf(feeder) <= Total(feeder) /\ Total(feeder) \in Nat
    BY <1>1, ChunkFacts
  <2>3. WithChunk(op) \in Rows
    BY <1>1, <2>2 DEF WithChunk, Rows, Chunks
  <2>4. /\ op' \in Rows /\ op'.next = EndOf(feeder) /\ op'.base = feeder.base
        /\ op'.spec = feeder.spec /\ op'.output = (op.output \/ feeder.output)
        /\ op'.status = IF IsFinal(feeder) THEN "completed" ELSE "pending"
    BY <1>1, <2>1, <2>2, <2>3 DEF WithChunk, Rows, Statuses
  <2>5. Buffered(op', op'.next) /\ Recorded(op'.next)
    BY <1>1, <2>4, ChunkStored
  <2>6. op'.status = "completed" =>
           /\ op'.spec.cursor = None /\ op'.next = Total(op')
           /\ kind = "package" => op'.output
    <3>1. op'.status = "completed" => IsFinal(feeder)
      BY <2>4
    <3>2. IsFinal(feeder) => feeder.spec.cursor = None /\ EndOf(feeder) = Total(feeder)
      BY <2>2 DEF IsFinal
    <3>3. Total(op') = Total(feeder)
      BY <2>4 DEF Total
    <3>4. kind = "package" /\ IsFinal(feeder) => feeder.output
      BY <1>1, <1>2 DEF Walk, ChunkHeld
    <3> QED BY <3>1, <3>2, <3>3, <3>4, <2>4
  <2> QED BY <1>1, <2>1, <2>4, <2>5, <2>6, RowWalks
<1>3. CASE op.status # "running"
  <2>1. feeder' = [feeder EXCEPT !.at = "missed"] /\ UNCHANGED op
    BY <1>3 DEF Advance
  <2>2. /\ feeder' \in Chunks /\ feeder'.start = feeder.start
        /\ feeder'.base = feeder.base /\ feeder'.spec = feeder.spec
        /\ feeder'.changed = feeder.changed /\ feeder'.at = "missed"
    BY <1>1, <2>1 DEF Chunks
  <2>3. Typed'
    BY <1>1, <2>1, <2>2 DEF Walk, Typed, tally, filter
  <2> QED BY <1>1, <2>1, <2>2, <2>3, StepWalks DEF tally
<1> QED BY <1>2, <1>3

LEMMA RecordInterruptedWalks == Walk /\ RecordInterrupted => Walk'
<1> SUFFICES ASSUME Walk, RecordInterrupted PROVE Walk'
  OBVIOUS
<1>1. /\ feeder # None /\ feeder.at = "interrupted" /\ feeder \in Chunks /\ op \in Rows
      /\ UNCHANGED <<kind, tally, filter, crashes>> /\ Done(feeder.at) /\ feeder' = None
      /\ Buffered(feeder, feeder.start) /\ feeder.start \in Nat
  BY Held DEF RecordInterrupted, At, Done
<1>2. CASE op.status \in {"paused", "cancelled"}
  <2>1. op' = WithChunk(op)
    BY <1>2 DEF RecordInterrupted
  <2>2. EndOf(feeder) \in Nat
    BY <1>1, ChunkFacts
  <2>3. /\ op' \in Rows /\ op'.next = EndOf(feeder) /\ op'.base = feeder.base
        /\ op'.spec = feeder.spec /\ op'.status = op.status
    BY <1>1, <2>1, <2>2 DEF WithChunk, Rows, Chunks
  <2>4. Buffered(op', op'.next) /\ Recorded(op'.next)
    BY <1>1, <2>3, ChunkStored
  <2> QED BY <1>1, <1>2, <2>3, <2>4, RowWalks
<1>3. CASE op.status \notin {"paused", "cancelled"}
  <2>1. UNCHANGED op
    BY <1>3 DEF RecordInterrupted
  <2>2. Typed'
    BY <1>1, <2>1 DEF Walk, Typed, tally, filter
  <2> QED BY <1>1, <2>1, <2>2, StepWalks DEF tally
<1> QED BY <1>2, <1>3

LEMMA PreserveResumedWalks == Walk /\ PreserveResumed => Walk'
<1> SUFFICES ASSUME Walk, PreserveResumed PROVE Walk'
  OBVIOUS
<1>1. /\ feeder # None /\ feeder.at = "resumed" /\ feeder \in Chunks /\ op \in Rows
      /\ UNCHANGED <<kind, tally, filter, crashes>> /\ Done(feeder.at) /\ feeder' = None
      /\ Buffered(feeder, feeder.start) /\ feeder.start \in Nat /\ feeder.start = op.next
  BY Held DEF PreserveResumed, At, Done
<1>2. CASE op.status = "pending" /\ op.next = feeder.start
  <2>1. op' = [WithChunk(op) EXCEPT !.next = op.next]
    BY <1>2 DEF PreserveResumed
  <2>2. EndOf(feeder) \in Nat
    BY <1>1, ChunkFacts
  <2>3. /\ op' \in Rows /\ op'.next = feeder.start /\ op'.base = feeder.base
        /\ op'.spec = feeder.spec /\ op'.status = op.status
    BY <1>1, <2>1, <2>2 DEF WithChunk, Rows, Chunks
  <2>4. Buffered(op', op'.next) /\ Recorded(op'.next)
    BY <1>1, <2>3, ChunkStored
  <2> QED BY <1>1, <1>2, <2>3, <2>4, RowWalks
<1>3. CASE ~ (op.status = "pending" /\ op.next = feeder.start)
  <2>1. UNCHANGED op
    BY <1>3 DEF PreserveResumed
  <2>2. Typed'
    BY <1>1, <2>1 DEF Walk, Typed, tally, filter
  <2> QED BY <1>1, <2>1, <2>2, StepWalks DEF tally
<1> QED BY <1>2, <1>3
\* A write of the status alone, which starts and completes nothing.
LEMMA StatusWalks ==
  ASSUME Walk, NEW to \in Statuses, op' = [op EXCEPT !.status = to],
         to \in {"running", "completed"} => op.status = to,
         UNCHANGED <<kind, tally, filter, crashes>>, feeder' \in {feeder, None}
  PROVE  Walk'
<1>1. op \in Rows
  BY DEF Walk, Typed
<1>2. /\ op' \in Rows /\ op'.status = to /\ op'.next = op.next /\ op'.base = op.base
      /\ op'.spec = op.spec /\ op'.output = op.output
  BY <1>1 DEF Rows
<1>3. Typed'
  BY <1>2 DEF Walk, Typed, tally, filter
<1>4. Buffered(op', op'.next)
  BY <1>2 DEF Walk, Buffered, Total, BoundOf
<1>5. Recorded(op.next)'
  BY <1>2 DEF Walk, Recorded, tally
<1>6. CompletedIsRecorded'
  BY <1>2 DEF Walk, CompletedIsRecorded, Total, tally
<1>7. ChunkHeld'
  <2>1. CASE feeder' = None
    BY <2>1 DEF ChunkHeld
  <2>2. CASE feeder' = feeder /\ feeder # None
    <3>1. Undone(feeder)' = Undone(feeder) /\ Recorded(EndOf(feeder))' = Recorded(EndOf(feeder))
      BY <2>2 DEF Undone, Recorded, tally
    <3>2. ChunkHeld
      BY DEF Walk
    <3> QED BY <2>2, <3>1, <3>2, <1>2 DEF ChunkHeld
  <2> QED BY <2>1, <2>2
<1> QED BY <1>3, <1>4, <1>5, <1>6, <1>7 DEF Walk

LEMMA FilterWalks ==
  ASSUME Walk, NEW j \in Job, LeaveFilter(j) \/ JoinFilter(j)
  PROVE  Walk'
<1>1. UNCHANGED <<kind, op, verdict, feeder, applied, packages, crashes, selected>>
  BY DEF LeaveFilter, JoinFilter, tally
<1>2. matching' \in SUBSET Job /\ joins' \in 0..MaxJoins
  <2>1. matching \in SUBSET Job /\ joins \in 0..MaxJoins
    BY DEF Walk, Typed
  <2>2. CASE LeaveFilter(j)
    BY <2>1, <2>2 DEF LeaveFilter
  <2>3. CASE JoinFilter(j)
    BY <2>1, <2>3, BatchAssumption DEF JoinFilter
  <2> QED BY <2>2, <2>3
<1>3. Typed'
  BY <1>1, <1>2 DEF Walk, Typed
<1>4. ChunkHeld'
  BY <1>1 DEF Walk, ChunkHeld, Undone, Recorded
<1> QED BY <1>1, <1>3, <1>4, RowKept DEF Walk

\* The steps of the operators, and those of the feeder that only change the status.
LEMMA StatusSteps ==
  ASSUME Walk, Release \/ FailOperation \/ Pause \/ Resume \/ Cancel
  PROVE  /\ UNCHANGED <<kind, tally, filter, crashes>> /\ feeder' \in {feeder, None}
         /\ \E to \in Statuses : /\ op' = [op EXCEPT !.status = to]
                                 /\ to \in {"running", "completed"} => op.status = to
                                 /\ op.status \in Terminal => to = op.status
                                 /\ to \in Terminal \/ feeder' = feeder \/ feeder.at = "claimed"
                                 /\ op.status = "paused" /\ feeder' # feeder => to \in {"paused", "failed"}
<1>1. op \in Rows /\ op.status \in Statuses
  BY DEF Walk, Typed, Rows
<1>2. CASE Release
  <2> DEFINE to == IF op.status = "running" THEN "pending" ELSE op.status
  <2>1. op' = [op EXCEPT !.status = to] /\ feeder.at = "claimed"
    BY <1>2 DEF Release, At
  <2>2. to \in Statuses
    BY <1>1 DEF Statuses
  <2>3. to \in {"running", "completed"} => op.status = to
    OBVIOUS
  <2>4. (op.status \in Terminal => to = op.status) /\ (op.status = "paused" => to = "paused")
    BY DEF Terminal
  <2> HIDE DEF to
  <2> QED BY <1>2, <2>1, <2>2, <2>3, <2>4 DEF Release
<1>3. CASE FailOperation
  <2> DEFINE to == IF op.status \in Terminal THEN op.status ELSE "failed"
  <2>1. op' = [op EXCEPT !.status = to]
    BY <1>3 DEF FailOperation
  <2>2. to \in Statuses
    BY <1>1 DEF Statuses
  <2>3. to \in {"running", "completed"} => op.status = to
    OBVIOUS
  <2>4. /\ op.status \in Terminal => to = op.status
        /\ to \in Terminal
        /\ op.status = "paused" => to = "failed"
    BY DEF Terminal
  <2> HIDE DEF to
  <2> QED BY <1>3, <2>1, <2>2, <2>3, <2>4 DEF FailOperation
<1>4. CASE Pause
  BY <1>1, <1>4 DEF Pause, Transition, Statuses, Terminal
<1>5. CASE Resume
  BY <1>1, <1>5 DEF Resume, Transition, Statuses, Terminal
<1>6. CASE Cancel
  BY <1>1, <1>6 DEF Cancel, Transition, Statuses, Terminal
<1> QED BY <1>2, <1>3, <1>4, <1>5, <1>6

LEMMA WalkStep == Walk /\ [Next]_vars => Walk'
<1> SUFFICES ASSUME Walk, [Next]_vars PROVE Walk'
  OBVIOUS
<1>1. CASE Claim
  BY <1>1, ClaimWalks
<1>2. CASE Load
  BY <1>2, LoadWalks
<1>3. CASE RunJob
  BY <1>3, RunJobWalks
<1>4. CASE Record
  BY <1>4, RecordWalks
<1>5. CASE ReadFresh
  BY <1>5, ReadFreshWalks
<1>6. CASE Pack
  BY <1>6, PackWalks
<1>7. CASE Advance
  BY <1>7, AdvanceWalks
<1>8. CASE ReadMissed
  BY <1>8, ReadMissedWalks
<1>9. CASE RecordInterrupted
  BY <1>9, RecordInterruptedWalks
<1>10. CASE PreserveResumed
  BY <1>10, PreserveResumedWalks
<1>11. CASE ChunkFails
  BY <1>11, ChunkFailsWalks
<1>12. CASE Release \/ FailOperation \/ Pause \/ Resume \/ Cancel
  <2>1. /\ UNCHANGED <<kind, tally, filter, crashes>> /\ feeder' \in {feeder, None}
        /\ \E to \in Statuses : /\ op' = [op EXCEPT !.status = to]
                                /\ to \in {"running", "completed"} => op.status = to
    BY <1>12, StatusSteps
  <2> QED BY <2>1, StatusWalks
<1>13. CASE Crash
  BY <1>13, CrashWalks
<1>14. CASE \E j \in Job : LeaveFilter(j) \/ JoinFilter(j)
  BY <1>14, FilterWalks
<1>15. CASE UNCHANGED vars
  BY <1>15 DEF vars, tally, filter, Walk, Typed, ChunkHeld, Undone, Recorded, CompletedIsRecorded
<1> QED BY <1>1, <1>2, <1>3, <1>4, <1>5, <1>6, <1>7, <1>8, <1>9, <1>10, <1>11, <1>12, <1>13,
           <1>14, <1>15 DEF Next, FeederStep

LEMMA WalkHolds == Spec => []Walk
<1>1. Init => Walk
  BY WalkInit
<1>2. Walk /\ [Next]_vars => Walk'
  BY WalkStep
<1> QED BY <1>1, <1>2, PTL DEF Spec

\* A completed operation has a verdict at every position, has been through the
\* stream and has its package, whatever was paused, resumed, lost or run again.
THEOREM CompletedIsRecordedHolds == Spec => []CompletedIsRecorded
<1>1. Walk => CompletedIsRecorded
  BY DEF Walk
<1> QED BY <1>1, WalkHolds, PTL

\* The stored cursor never leaves the stored buffer, whichever of the three
\* updates of the row wrote them.
THEOREM CursorInBufferHolds == Spec => []CursorInBuffer
<1>1. Walk => CursorInBuffer
  <2> SUFFICES ASSUME Walk PROVE CursorInBuffer
    OBVIOUS
  <2>1. op \in Rows /\ Buffered(op, op.next)
    BY DEF Walk, Typed
  <2>2. op.base \in Nat /\ op.spec.ids \in Seq(Job) /\ op.next \in Nat
    BY <2>1 DEF Rows, PageOfJobs
  <2>3. op.base <= op.next /\ op.next <= Total(op) /\ Total(op) \in Nat
    BY <2>1, <2>2 DEF Buffered, Total
  <2> QED BY <2>2, <2>3 DEF CursorInBuffer
<1> QED BY <1>1, WalkHolds, PTL

\* What an operator decided is undone by no step of the feeder, and the cursor
\* never goes back.
OperatorsStep ==
  /\ op.status \in Terminal => op'.status = op.status
  /\ op.status = "paused" /\ feeder' # feeder => op'.status \in {"paused", "failed"}
  /\ op'.next >= op.next

LEMMA OperatorWinsStep == Walk /\ [Next]_vars => [OperatorsStep]_vars
<1> SUFFICES ASSUME Walk, Next PROVE OperatorsStep
  OBVIOUS
<1>1. op \in Rows /\ op.next \in Nat /\ op.status \in Statuses
  BY DEF Walk, Typed, Rows
<1>2. CASE UNCHANGED op
  BY <1>1, <1>2 DEF OperatorsStep
<1>3. CASE Claim
  BY <1>1, <1>3 DEF Claim, OperatorsStep, Rows, Terminal
<1>4. CASE Advance \/ RecordInterrupted \/ PreserveResumed
  <2>1. feeder # None /\ feeder.start = op.next /\ Buffered(feeder, feeder.start) /\ feeder.start \in Nat
    BY <1>4, Held DEF Advance, RecordInterrupted, PreserveResumed, At
  <2>2. EndOf(feeder) \in Nat /\ feeder.start <= EndOf(feeder)
    BY <2>1, ChunkFacts
  <2>3. /\ WithChunk(op).next = EndOf(feeder) /\ WithChunk(op).status = op.status
        /\ WithChunk(op) \in [status : Statuses, next : Nat, base : {feeder.base},
                              output : {op.output \/ feeder.output}, spec : {feeder.spec}]
    BY <1>1, <2>2 DEF WithChunk, Rows
  <2>4. CASE Advance /\ op.status = "running"
    <3>1. op' = [WithChunk(op) EXCEPT !.status = IF IsFinal(feeder) THEN "completed" ELSE "pending"]
      BY <2>4 DEF Advance
    <3>2. op'.next = EndOf(feeder)
      BY <3>1, <2>3
    <3> QED BY <3>2, <2>1, <2>2, <2>4 DEF OperatorsStep, Terminal
  <2>5. CASE RecordInterrupted /\ op' = WithChunk(op)
    BY <2>5, <2>1, <2>2, <2>3 DEF OperatorsStep
  <2>6. CASE PreserveResumed /\ op' = [WithChunk(op) EXCEPT !.next = op.next]
    <3>1. op'.next = op.next /\ op'.status = op.status
      BY <2>6, <2>3, <1>1
    <3> QED BY <3>1, <1>1 DEF OperatorsStep
  <2> QED BY <2>4, <2>5, <2>6, <1>4, <1>2 DEF Advance, RecordInterrupted, PreserveResumed
<1>5. CASE Release \/ FailOperation \/ Pause \/ Resume \/ Cancel
  <2>1. PICK to \in Statuses :
          /\ op' = [op EXCEPT !.status = to]
          /\ op.status \in Terminal => to = op.status
          /\ op.status = "paused" /\ feeder' # feeder => to \in {"paused", "failed"}
    BY <1>5, StatusSteps
  <2>2. op'.status = to /\ op'.next = op.next
    BY <2>1, <1>1 DEF Rows
  <2> QED BY <2>1, <2>2, <1>1 DEF OperatorsStep
<1>6. CASE Load \/ RunJob \/ Record \/ ReadFresh \/ Pack \/ ReadMissed
  BY <1>6, <1>2 DEF Load, RunJob, Record, ReadFresh, Pack, ReadMissed
<1>7. CASE ChunkFails \/ Crash \/ \E j \in Job : LeaveFilter(j) \/ JoinFilter(j)
  BY <1>7, <1>2 DEF ChunkFails, Crash, LeaveFilter, JoinFilter
<1> QED BY <1>3, <1>4, <1>5, <1>6, <1>7 DEF Next, FeederStep

\* An advance, a released claim and the record of an interrupted chunk leave an
\* operator's decision standing; a terminal status is final.
THEOREM OperatorWinsHolds == Spec => OperatorWins
<1>1. Walk /\ [Next]_vars => [OperatorsStep]_vars
  BY OperatorWinsStep
<1>2. OperatorWins <=> [][OperatorsStep]_vars
  BY DEF OperatorWins, OperatorsStep
<1>3. Spec => [][OperatorsStep]_vars
  BY <1>1, WalkHolds, PTL DEF Spec
<1> QED BY <1>2, <1>3
\* The rows and the chunk have their types; cursor and buffer stay within the
\* number of jobs, however often a page grew, shrank or was fetched again.
THEOREM BatchTypes == Spec => []TypeOK
<1>1. Walk => TypeOK
  <2> SUFFICES ASSUME Walk PROVE TypeOK
    OBVIOUS
  <2>1. /\ op \in Rows /\ Buffered(op, op.next) /\ Typed
    BY DEF Walk, Typed
  <2>2. /\ op.base \in Nat /\ op.spec.ids \in Seq(Job) /\ op.next \in Nat
        /\ op.spec.cursor \in Job \cup {None}
    BY <2>1 DEF Rows, PageOfJobs
  <2>3. BoundOf(op) \in Nat /\ BoundOf(op) <= Jobs /\ Total(op) \in Nat
    BY <2>2, Numbers DEF BoundOf, Reach, Total
  <2>4. op.base <= op.next /\ op.next <= Total(op) /\ Total(op) <= BoundOf(op)
    BY <2>1 DEF Buffered
  <2>5. op.next \in 0..Jobs /\ op.base \in 0..Jobs
    BY <2>2, <2>3, <2>4, Numbers
  <2>6. op \in [status : Statuses, next : 0..Jobs, base : 0..Jobs, output : BOOLEAN,
                spec : PageOfJobs]
    BY <2>1, <2>5 DEF Rows
  <2> QED BY <2>1, <2>6 DEF TypeOK, Typed
<1> QED BY <1>1, WalkHolds, PTL
-----------------------------------------------------------------------------
(* The stream of a buffer, and the jobs of it that are due.                *)

\* Finite sets of jobs and of positions.
LEMMA JobSets == \A S \in SUBSET Job : IsFiniteSet(S) /\ Cardinality(S) \in Nat
BY JobsFinite

LEMMA SeqSets == \A S \in SUBSET Seqs : IsFiniteSet(S) /\ Cardinality(S) \in Nat
<1>1. IsFiniteSet(Seqs)
  <2>1. 0 \in Int /\ Jobs - 1 \in Int
    BY Numbers
  <2> QED BY <2>1, FS_Interval DEF Seqs
<1> QED BY <1>1, FS_Subset, FS_CardinalityType

\* The stream holds jobs; those of the buffer are its first.
LEMMA StreamFacts ==
  ASSUME NEW r, NEW start \in Nat, Buffered(r, start), NEW M \in SUBSET Job
  PROVE  /\ Stream(r, M) \in SUBSET Job
         /\ r.base \in Nat /\ Len(r.spec.ids) \in Nat
         /\ r.spec.cursor \in Job \cup {None}
         /\ Total(r) = r.base + Len(r.spec.ids)
         /\ \A p \in 1..Len(r.spec.ids) :
              /\ r.spec.ids[p] \in Stream(r, M)
              /\ r.spec.cursor # None => r.spec.ids[p] <= r.spec.cursor
         /\ \A j \in Job : Position(r, M, j) \in Nat
<1>1. /\ r.base \in Nat /\ r.spec.ids \in Seq(Job) /\ r.spec.cursor \in Job \cup {None}
      /\ \A p \in 1..Len(r.spec.ids) : r.spec.ids[p] <= BoundOf(r)
  BY DEF Buffered, PageOfJobs
<1>2. Len(r.spec.ids) \in Nat /\ \A p \in 1..Len(r.spec.ids) : r.spec.ids[p] \in Job
  BY <1>1
<1>3. Stream(r, M) \in SUBSET Job
  BY <1>2 DEF Stream
<1>4. ASSUME NEW j \in Job PROVE Position(r, M, j) \in Nat
  <2>1. Below(Stream(r, M), j) \in SUBSET Job
    BY <1>3 DEF Below
  <2>2. Cardinality(Below(Stream(r, M), j)) \in Nat
    BY <2>1, JobSets
  <2> QED BY <2>2, <1>1 DEF Position
<1>5. \A p \in 1..Len(r.spec.ids) :
        /\ r.spec.ids[p] \in Stream(r, M)
        /\ r.spec.cursor # None => r.spec.ids[p] <= r.spec.cursor
  BY <1>1 DEF Stream, BoundOf, Reach
<1> QED BY <1>1, <1>2, <1>3, <1>4, <1>5 DEF Total

\* A later job of the stream has a later position.
LEMMA PositionGrows ==
  ASSUME NEW r, NEW start \in Nat, Buffered(r, start), NEW M \in SUBSET Job,
         NEW i \in Stream(r, M), NEW j \in Stream(r, M), i < j
  PROVE  Position(r, M, i) < Position(r, M, j)
<1>1. Stream(r, M) \in SUBSET Job /\ r.base \in Nat
  BY StreamFacts
<1>2. Cardinality(Below(Stream(r, M), i)) < Cardinality(Below(Stream(r, M), j))
  BY <1>1, RankGrows
<1>3. /\ Cardinality(Below(Stream(r, M), i)) \in Nat
      /\ Cardinality(Below(Stream(r, M), j)) \in Nat
  <2>1. \A k : Below(Stream(r, M), k) \in SUBSET Job
    BY <1>1 DEF Below
  <2> QED BY <2>1, JobSets
<1> QED BY <1>1, <1>2, <1>3 DEF Position

\* The jobs of the buffer have the positions of the buffer.
LEMMA PositionInBuffer ==
  ASSUME NEW r, NEW start \in Nat, Buffered(r, start), NEW M \in SUBSET Job,
         NEW p \in 1..Len(r.spec.ids)
  PROVE  Position(r, M, r.spec.ids[p]) = r.base + p - 1
<1> DEFINE ids == r.spec.ids
           first == {ids[q] : q \in 1..(p-1)}
<1>1. /\ ids \in Seq(Job) /\ Len(ids) \in Nat /\ Sorted(ids) /\ r.base \in Nat
      /\ r.spec.cursor \in Job \cup {None}
      /\ r.spec.cursor # None => ids[p] <= r.spec.cursor
  BY StreamFacts DEF Buffered, PageOfJobs
<1>2. \A q \in 1..Len(ids) : ids[q] \in Job /\ ids[q] \in Int
  BY <1>1, Numbers
<1>3. p \in Nat /\ p - 1 \in Nat /\ \A q \in 1..(p-1) : q \in 1..Len(ids) /\ q < p
  BY <1>1
<1>4. Below(Stream(r, M), ids[p]) = first
  <2>1. ASSUME NEW j \in Stream(r, M), j < ids[p] PROVE j \in first
    <3>1. CASE j \in M /\ r.spec.cursor # None /\ r.spec.cursor < j
      <4>1. j \in Int /\ r.spec.cursor \in Int /\ ids[p] \in Int
        BY <3>1, <1>1, <1>2, Numbers
      <4> QED BY <4>1, <3>1, <2>1, <1>1
    <3>2. CASE \E q \in 1..Len(ids) : j = ids[q]
      <4>1. PICK q \in 1..Len(ids) : j = ids[q]
        BY <3>2
      <4>2. ~ (p < q) /\ p # q
        BY <4>1, <2>1, <1>1, <1>2 DEF Sorted
      <4>3. q \in 1..(p-1)
        BY <4>2, <1>1
      <4> QED BY <4>1, <4>3
    <3> QED BY <3>1, <3>2 DEF Stream
  <2>2. ASSUME NEW q \in 1..(p-1) PROVE ids[q] \in Stream(r, M) /\ ids[q] < ids[p]
    BY <1>1, <1>3 DEF Sorted, Stream
  <2> QED BY <2>1, <2>2 DEF Below
<1>5. Cardinality(first) = p - 1
  <2> DEFINE g == [q \in 1..(p-1) |-> ids[q]]
  <2>1. g \in [1..(p-1) -> Int] /\ \A q, s \in 1..(p-1) : q < s => g[q] < g[s]
    BY <1>1, <1>2, <1>3 DEF Sorted
  <2>2. first = {g[q] : q \in 1..(p-1)}
    OBVIOUS
  <2> HIDE DEF g, first
  <2> QED BY <1>3, <2>1, <2>2, IncreasingCount
<1> HIDE DEF first
<1> QED BY <1>1, <1>3, <1>4, <1>5 DEF Position

\* A page and what lies behind it are the stream behind the cursor it was
\* fetched from.
LEMMA PageStream ==
  ASSUME NEW M \in SUBSET Job, NEW after \in 0..Jobs, NEW limit \in Nat, limit # 0,
         NEW r, r.spec = PageIn(M, after, limit)
  PROVE  Stream(r, M) = {j \in M : after < j}
<1> DEFINE page == PageIn(M, after, limit)
<1>1. /\ page \in PageOfJobs
      /\ \A p \in 1..Len(page.ids) : page.ids[p] \in M /\ after < page.ids[p]
      /\ page.cursor # None => after < page.cursor
      /\ \A j \in M : after < j /\ j <= Reach(page) => \E p \in 1..Len(page.ids) : page.ids[p] = j
  BY PageFacts, Zenon
<1> HIDE DEF page
<1>2. page.cursor \in Job \cup {None} /\ after \in Int
  BY <1>1 DEF PageOfJobs
<1>3. ASSUME NEW j \in Stream(r, M) PROVE j \in M /\ after < j
  <2>1. CASE \E p \in 1..Len(page.ids) : j = page.ids[p]
    BY <2>1, <1>1
  <2>2. CASE j \in M /\ page.cursor # None /\ page.cursor < j
    BY <2>2, <1>1, <1>2, Numbers
  <2> QED BY <2>1, <2>2 DEF Stream, page
<1>4. ASSUME NEW j \in M, after < j PROVE j \in Stream(r, M)
  <2>1. CASE j <= Reach(page)
    BY <2>1, <1>1, <1>4 DEF Stream, page
  <2>2. CASE ~ (j <= Reach(page))
    <3>1. page.cursor # None /\ page.cursor < j
      BY <2>2, <1>2, Numbers DEF Reach
    <3> QED BY <3>1 DEF Stream, page
  <2> QED BY <2>1, <2>2
<1> QED BY <1>3, <1>4

\* The refill of a buffer that has no blank position changes nothing that is due.
LEMMA RefillDue ==
  ASSUME NEW v \in [Seqs -> Job \cup {None}], NEW M \in SUBSET Job,
         NEW r, NEW start \in Nat, Buffered(r, start), start = Total(r),
         r.spec.cursor # None,
         \A s \in 0..(start - 1) : v[s] # None,
         NEW q, q.base = start, q.spec = PageIn(M, r.spec.cursor, Chunk)
  PROVE  Due(v, M, q) = Due(v, M, r)
<1> DEFINE ids == {r.spec.ids[p] : p \in 1..Len(r.spec.ids)}
           rest == {j \in M : r.spec.cursor < j}
<1>1. /\ Stream(r, M) \in SUBSET Job /\ r.base \in Nat /\ Len(r.spec.ids) \in Nat
      /\ r.spec.cursor \in Job /\ Total(r) = r.base + Len(r.spec.ids)
      /\ \A p \in 1..Len(r.spec.ids) : r.spec.ids[p] <= r.spec.cursor
      /\ Total(r) <= BoundOf(r) /\ BoundOf(r) = r.spec.cursor
  BY StreamFacts DEF Buffered, BoundOf, Reach
<1>2. Stream(r, M) = ids \cup rest
  BY DEF Stream
<1>3. Stream(q, M) = rest
  <2>1. r.spec.cursor \in 0..Jobs /\ Chunk \in Nat /\ Chunk # 0
    BY <1>1, Numbers
  <2> QED BY <2>1, PageStream
<1>4. \A i \in ids : \A j \in rest : i \in Int /\ j \in Int /\ i < j
  <2>1. \A i \in ids : i \in Job /\ i <= r.spec.cursor
    BY <1>1, <1>2
  <2> QED BY <2>1, <1>1, Numbers
<1>5. ASSUME NEW j \in rest PROVE Position(q, M, j) = Position(r, M, j)
  <2>1. Below(Stream(r, M), j) = ids \cup Below(rest, j) /\ ids \cap Below(rest, j) = {}
    <3>1. \A i \in ids : i < j
      BY <1>4
    <3>2. \A i \in ids : i \notin rest
      <4>1. \A i \in ids : i \in rest => i < i /\ i \in Int
        BY <1>4
      <4> QED BY <4>1
    <3> HIDE DEF ids, rest
    <3> QED BY <1>2, <3>1, <3>2 DEF Below
  <2>2. Cardinality(ids) = Len(r.spec.ids) /\ IsFiniteSet(ids)
    <3>1. r.spec.ids \in [1..Len(r.spec.ids) -> Int]
      <4>1. r.spec.ids \in Seq(Job)
        BY DEF Buffered, PageOfJobs
      <4>2. r.spec.ids \in [1..Len(r.spec.ids) -> Job] /\ Job \subseteq Int
        BY <4>1, Numbers
      <4> QED BY <4>2
    <3>2. Sorted(r.spec.ids)
      BY DEF Buffered
    <3> QED BY <1>1, <3>1, <3>2, IncreasingCount DEF Sorted
  <2>3. IsFiniteSet(Below(rest, j)) /\ Cardinality(Below(rest, j)) \in Nat
    <3>1. Below(rest, j) \in SUBSET Job
      BY DEF Below
    <3> QED BY <3>1, JobSets
  <2>4. Cardinality(Below(Stream(r, M), j)) = Len(r.spec.ids) + Cardinality(Below(rest, j))
    <3>1. Cardinality(ids \cap Below(rest, j)) = 0
      BY <2>1, FS_EmptySet
    <3>2. Cardinality(ids \cup Below(rest, j)) =
            Cardinality(ids) + Cardinality(Below(rest, j)) - Cardinality(ids \cap Below(rest, j))
      BY <2>2, <2>3, FS_Union
    <3> HIDE DEF ids, rest
    <3> QED BY <2>1, <2>2, <2>3, <3>1, <3>2, <1>1
  <2> HIDE DEF ids, rest
  <2> QED BY <1>1, <1>3, <2>3, <2>4 DEF Position
<1>6. ASSUME NEW i \in ids PROVE ~ Blank(v, Position(r, M, i))
  <2>1. PICK p \in 1..Len(r.spec.ids) : i = r.spec.ids[p]
    OBVIOUS
  <2>2. Position(r, M, i) = r.base + p - 1
    BY <2>1, PositionInBuffer
  <2>3. r.base + p - 1 \in 0..(start - 1) /\ r.base + p - 1 \in Seqs
    <3>1. start = r.base + Len(r.spec.ids) /\ p \in Nat /\ 1 <= p /\ p <= Len(r.spec.ids)
      BY <1>1
    <3>2. start <= Jobs /\ Jobs \in Nat
      BY <1>1, Numbers
    <3> HIDE DEF ids, rest
    <3> QED BY <1>1, <3>1, <3>2 DEF Seqs
  <2> QED BY <2>2, <2>3 DEF Blank
<1> HIDE DEF ids, rest
<1> QED BY <1>2, <1>3, <1>5, <1>6 DEF Due

\* A job more in the filter shifts the later positions by one: nothing that was
\* due is lost, and at most one job becomes due.
LEMMA ShiftDue ==
  ASSUME NEW v \in [Seqs -> Job \cup {None}], NoGap(v),
         NEW r, NEW start \in Nat, Buffered(r, start),
         NEW M \in SUBSET Job, NEW j \in Job, j \notin M
  PROVE  /\ Due(v, M, r) \subseteq Due(v, M \cup {j}, r)
         /\ \E e \in Job : Due(v, M \cup {j}, r) \subseteq Due(v, M, r) \cup {e}
<1> DEFINE N == M \cup {j}
<1>1. /\ Stream(r, M) \in SUBSET Job /\ Stream(r, N) \in SUBSET Job /\ r.base \in Nat
      /\ r.spec.cursor \in Job \cup {None}
      /\ \A i \in Job : Position(r, M, i) \in Nat /\ Position(r, N, i) \in Nat
  <2>1. N \in SUBSET Job
    OBVIOUS
  <2> HIDE DEF N
  <2> QED BY <2>1, StreamFacts
<1>2. CASE ~ (r.spec.cursor # None /\ r.spec.cursor < j)
  <2>1. Stream(r, N) = Stream(r, M)
    BY <1>2 DEF Stream
  <2>2. Due(v, N, r) = Due(v, M, r)
    BY <2>1 DEF Due, Position
  <2> QED BY <2>2
<1>3. CASE r.spec.cursor # None /\ r.spec.cursor < j
  <2>1. Stream(r, N) = Stream(r, M) \cup {j} /\ j \notin Stream(r, M)
    <3>1. \A p \in 1..Len(r.spec.ids) : r.spec.ids[p] # j
      <4>1. \A p \in 1..Len(r.spec.ids) : r.spec.ids[p] <= r.spec.cursor /\ r.spec.ids[p] \in Job
        BY <1>1, <1>3, StreamFacts
      <4> QED BY <4>1, <1>1, <1>3, Numbers
    <3> QED BY <3>1, <1>3 DEF Stream
  <2> HIDE DEF N
  <2>2. ASSUME NEW i \in Stream(r, N)
        PROVE  Position(r, N, i) = IF j < i THEN Position(r, M, i) + 1 ELSE Position(r, M, i)
    <3>1. i \in Int /\ j \in Int
      BY <1>1, Numbers
    <3>2. /\ Below(Stream(r, M), i) \in SUBSET Job /\ j \notin Below(Stream(r, M), i)
          /\ Below(Stream(r, N), i) = IF j < i THEN Below(Stream(r, M), i) \cup {j}
                                      ELSE Below(Stream(r, M), i)
      BY <1>1, <2>1 DEF Below
    <3>3. /\ IsFiniteSet(Below(Stream(r, M), i)) /\ Cardinality(Below(Stream(r, M), i)) \in Nat
      BY <3>2, JobSets
    <3>4. Cardinality(Below(Stream(r, M), i) \cup {j}) = Cardinality(Below(Stream(r, M), i)) + 1
      BY <3>2, <3>3, FS_AddElement
    <3>5. CASE j < i
      BY <3>2, <3>3, <3>4, <3>5, <1>1 DEF Position
    <3>6. CASE ~ (j < i)
      BY <3>2, <3>6 DEF Position
    <3> QED BY <3>5, <3>6
  <2>3. \A s, t \in Nat : s <= t /\ Blank(v, s) => Blank(v, t)
    <3> SUFFICES ASSUME NEW s \in Nat, NEW t \in Nat, s <= t, Blank(v, s), t \in Seqs, v[t] # None
                 PROVE  FALSE
      BY DEF Blank
    <3>1. s \in Seqs
      BY Numbers DEF Seqs
    <3>2. s < t \/ s = t
      OBVIOUS
    <3> QED BY <3>1, <3>2 DEF Blank, NoGap
  <2>4. Due(v, M, r) \subseteq Due(v, N, r)
    <3> SUFFICES ASSUME NEW i \in Stream(r, M), Blank(v, Position(r, M, i))
                 PROVE  i \in Stream(r, N) /\ Blank(v, Position(r, N, i))
      BY DEF Due
    <3>1. i \in Stream(r, N) /\ i \in Job
      BY <1>1, <2>1
    <3>2. Position(r, M, i) <= Position(r, N, i)
      BY <1>1, <2>2, <3>1
    <3> QED BY <1>1, <2>3, <3>1, <3>2
  <2> DEFINE New == Due(v, N, r) \ Due(v, M, r)
  <2>5. ASSUME NEW i \in New
        PROVE  /\ i \in Stream(r, N) /\ i \in Job /\ Blank(v, Position(r, N, i))
               /\ \/ i = j
                  \/ j < i /\ i \in Stream(r, M) /\ ~ Blank(v, Position(r, M, i))
    <3>1. i \in Stream(r, N) /\ i \in Job /\ Blank(v, Position(r, N, i))
      BY <1>1 DEF Due
    <3>2. CASE i = j
      BY <3>1, <3>2
    <3>3. CASE i # j
      <4>1. i \in Stream(r, M)
        BY <3>1, <3>3, <2>1
      <4>2. ~ Blank(v, Position(r, M, i))
        BY <4>1 DEF Due
      <4>3. j < i
        BY <4>2, <3>1, <2>2
      <4> QED BY <3>1, <4>1, <4>2, <4>3
    <3> QED BY <3>2, <3>3
  <2> HIDE DEF New
  <2>6. ASSUME NEW i \in New, NEW k \in New, i < k PROVE FALSE
    <3>1. i \in Int /\ k \in Int /\ j \in Int /\ Blank(v, Position(r, N, i))
      BY <2>5, Numbers
    <3>2. j < k /\ k \in Stream(r, M) /\ ~ Blank(v, Position(r, M, k)) /\ k \in Stream(r, N)
      <4>1. k # j
        BY <2>5, <2>6, <3>1
      <4> QED BY <4>1, <2>5
    <3>3. Position(r, N, i) < Position(r, N, k)
      BY <2>5, <2>6, <3>2, PositionGrows DEF N
    <3>4. Position(r, N, k) = Position(r, M, k) + 1
      BY <2>2, <3>2
    <3>5. /\ Position(r, N, i) \in Nat /\ Position(r, N, k) \in Nat /\ Position(r, M, k) \in Nat
      BY <1>1, <2>5
    <3>6. Position(r, N, i) <= Position(r, M, k)
      BY <3>3, <3>4, <3>5
    <3> QED BY <2>3, <3>1, <3>2, <3>5, <3>6
  <2>7. \E e \in Job : New \subseteq {e}
    <3>1. CASE New = {}
      BY <3>1
    <3>2. CASE New # {}
      <4>1. PICK e \in New : TRUE
        BY <3>2
      <4>2. ASSUME NEW i \in New PROVE i = e
        <5>1. i \in Int /\ e \in Int
          BY <2>5, Numbers
        <5> QED BY <5>1, <2>6
      <4> QED BY <4>1, <4>2, <2>5
    <3> QED BY <3>1, <3>2
  <2> QED BY <2>4, <2>7 DEF New, N
<1> QED BY <1>2, <1>3

-----------------------------------------------------------------------------
(* The accounts of repeated and of skipped jobs.                           *)

\* What the accounts count.
LEMMA AccountSets ==
  ASSUME NEW v \in [Seqs -> Job \cup {None}], NEW M \in SUBSET Job,
         NEW r, NEW start \in Nat, Buffered(r, start), NEW S \in SUBSET Job
  PROVE  /\ Due(v, M, r) \in SUBSET Job /\ Named(v) \in SUBSET Job /\ RepeatsIn(v) \in SUBSET Seqs
         /\ Cardinality(RepeatsIn(v)) \in Nat /\ Cardinality(Named(v) \cap Due(v, M, r)) \in Nat
         /\ Repeated(v, M, r) \in Nat /\ Skipped(v, M, r, S) \in Nat
<1>1. Due(v, M, r) \in SUBSET Job
  BY StreamFacts DEF Due
<1>2. Named(v) \in SUBSET Job /\ RepeatsIn(v) \in SUBSET Seqs
  BY DEF Named, RepeatsIn
<1>3. /\ Cardinality(RepeatsIn(v)) \in Nat /\ Cardinality(Named(v) \cap Due(v, M, r)) \in Nat
      /\ Skipped(v, M, r, S) \in Nat
  <2>1. /\ Named(v) \cap Due(v, M, r) \in SUBSET Job
        /\ S \ (Named(v) \cup Due(v, M, r)) \in SUBSET Job
    BY <1>2
  <2> QED BY <1>2, <2>1, JobSets, SeqSets DEF Skipped
<1> QED BY <1>1, <1>2, <1>3 DEF Repeated

\* A set with at most one job more.
LEMMA OneMore ==
  ASSUME NEW A \in SUBSET Job, NEW B \in SUBSET Job, NEW e, A \subseteq B, B \subseteq A \cup {e}
  PROVE  /\ Cardinality(A) \in Nat /\ Cardinality(B) \in Nat
         /\ Cardinality(A) <= Cardinality(B) /\ Cardinality(B) <= Cardinality(A) + 1
<1>1. /\ IsFiniteSet(A) /\ Cardinality(A) \in Nat /\ IsFiniteSet(B) /\ Cardinality(B) \in Nat
  BY JobSets
<1>2. Cardinality(A) <= Cardinality(B)
  BY <1>1, FS_Subset
<1>3. Cardinality(B) <= Cardinality(A) + 1
  <2>1. CASE B = A
    BY <2>1, <1>1
  <2>2. CASE B # A
    <3>1. B = A \cup {e} /\ e \notin A
      BY <2>2
    <3> QED BY <1>1, <3>1, FS_AddElement
  <2> QED BY <2>1, <2>2
<1> QED BY <1>1, <1>2, <1>3

\* A job more in the filter costs at most one repetition and skips nothing; a
\* job less costs at most one job its turn and repeats nothing.
LEMMA ShiftAccounts ==
  ASSUME NEW v \in [Seqs -> Job \cup {None}], NoGap(v),
         NEW r, NEW start \in Nat, Buffered(r, start),
         NEW M \in SUBSET Job, NEW j \in Job, j \notin M, NEW S \in SUBSET Job
  PROVE  /\ Repeated(v, M, r) <= Repeated(v, M \cup {j}, r)
         /\ Repeated(v, M \cup {j}, r) <= Repeated(v, M, r) + 1
         /\ Skipped(v, M \cup {j}, r, S) <= Skipped(v, M, r, S)
         /\ Skipped(v, M, r, S) <= Skipped(v, M \cup {j}, r, S) + 1
<1> DEFINE N == M \cup {j}
<1>1. N \in SUBSET Job
  OBVIOUS
<1>2. Due(v, M, r) \subseteq Due(v, N, r)
  BY ShiftDue
<1>3. PICK e \in Job : Due(v, N, r) \subseteq Due(v, M, r) \cup {e}
  BY ShiftDue
<1> HIDE DEF N
<1>4. /\ Due(v, M, r) \in SUBSET Job /\ Due(v, N, r) \in SUBSET Job /\ Named(v) \in SUBSET Job
      /\ Cardinality(RepeatsIn(v)) \in Nat
  BY <1>1, AccountSets
<1>5. /\ Cardinality(Named(v) \cap Due(v, M, r)) \in Nat
      /\ Cardinality(Named(v) \cap Due(v, N, r)) \in Nat
      /\ Cardinality(Named(v) \cap Due(v, M, r)) <= Cardinality(Named(v) \cap Due(v, N, r))
      /\ Cardinality(Named(v) \cap Due(v, N, r)) <= Cardinality(Named(v) \cap Due(v, M, r)) + 1
  <2> DEFINE A == Named(v) \cap Due(v, M, r)
             B == Named(v) \cap Due(v, N, r)
  <2>1. A \in SUBSET Job /\ B \in SUBSET Job /\ A \subseteq B /\ B \subseteq A \cup {e}
    BY <1>2, <1>3, <1>4
  <2> HIDE DEF A, B
  <2>2. /\ Cardinality(A) \in Nat /\ Cardinality(B) \in Nat
        /\ Cardinality(A) <= Cardinality(B) /\ Cardinality(B) <= Cardinality(A) + 1
    BY <2>1, OneMore
  <2> QED BY <2>2 DEF A, B
<1>6. /\ Skipped(v, N, r, S) <= Skipped(v, M, r, S)
      /\ Skipped(v, M, r, S) <= Skipped(v, N, r, S) + 1
  <2> DEFINE A == S \ (Named(v) \cup Due(v, N, r))
             B == S \ (Named(v) \cup Due(v, M, r))
  <2>1. A \in SUBSET Job /\ B \in SUBSET Job /\ A \subseteq B /\ B \subseteq A \cup {e}
    BY <1>2, <1>3
  <2> HIDE DEF A, B
  <2>2. Cardinality(A) <= Cardinality(B) /\ Cardinality(B) <= Cardinality(A) + 1
    BY <2>1, OneMore
  <2> QED BY <2>2 DEF A, B, Skipped
<1>7. /\ Repeated(v, M, r) <= Repeated(v, N, r)
      /\ Repeated(v, N, r) <= Repeated(v, M, r) + 1
  BY <1>4, <1>5 DEF Repeated
<1> QED BY <1>6, <1>7 DEF N

\* A buffer of the same page at the same position has the same jobs due.
LEMMA SameDue ==
  ASSUME NEW r, NEW q, r.spec = q.spec, r.base = q.base
  PROVE  \A v, M : Due(v, M, r) = Due(v, M, q)
BY DEF Due, Stream, Position

\* The positions a chunk is to record.
LEMMA TodoFacts ==
  ASSUME NEW v \in [Seqs -> Job \cup {None}], NEW r, NEW S, Todo(v, r, S)
  PROVE  /\ r.start \in Nat /\ Buffered(r, r.start) /\ EndOf(r) \in Nat /\ S \in SUBSET Seqs
         /\ \A s \in S : /\ s \in Seqs /\ s \in Nat /\ v[s] = None /\ s < EndOf(r)
                         /\ s \in r.start..(Total(r) - 1)
                         /\ AtSeq(r, s) \in Job /\ AtSeq(r, s) # None
         /\ \A s, t \in S : AtSeq(r, s) = AtSeq(r, t) => s = t
<1>1. r.start \in Nat /\ Buffered(r, r.start) /\ S = {s \in r.start..(EndOf(r) - 1) : v[s] = None}
  BY DEF Todo, Buffered
<1>2. EndOf(r) \in Nat /\ EndOf(r) <= Total(r) /\ Total(r) \in Nat
  BY <1>1, ChunkFacts
<1>3. \A s \in S : s \in r.start..(Total(r) - 1) /\ v[s] = None /\ s \in Nat /\ s < EndOf(r)
  BY <1>1, <1>2
<1>4. \A s \in S : s \in Seqs /\ AtSeq(r, s) \in Job /\ AtSeq(r, s) # None
  BY <1>1, <1>3, SeqFacts, Numbers
<1>5. \A s, t \in S : AtSeq(r, s) = AtSeq(r, t) => s = t
  BY <1>1, <1>3, SeqsDiffer
<1> QED BY <1>1, <1>2, <1>3, <1>4, <1>5

\* Their record leaves no gap.
LEMMA WithFacts ==
  ASSUME NEW v \in [Seqs -> Job \cup {None}], NoGap(v), NEW r, NEW S, Todo(v, r, S)
  PROVE  /\ With(v, r, S) \in [Seqs -> Job \cup {None}] /\ NoGap(With(v, r, S))
         /\ \A s \in Seqs : With(v, r, S)[s] = IF s \in S THEN AtSeq(r, s) ELSE v[s]
         /\ \A s \in Seqs : v[s] # None => With(v, r, S)[s] = v[s]
<1> DEFINE w == With(v, r, S)
<1>1. /\ r.start \in Nat /\ EndOf(r) \in Nat
      /\ \A s \in S : /\ s \in Seqs /\ s \in Nat /\ v[s] = None /\ s < EndOf(r)
                      /\ AtSeq(r, s) \in Job /\ AtSeq(r, s) # None
  BY TodoFacts
<1>2. /\ w \in [Seqs -> Job \cup {None}]
      /\ \A s \in Seqs : w[s] = IF s \in S THEN AtSeq(r, s) ELSE v[s]
  BY <1>1 DEF With
<1> HIDE DEF w
<1>3. ASSUME NEW s \in Seqs, NEW t \in Seqs, s < t, w[t] # None PROVE w[s] # None
  <2>1. CASE t \notin S
    <3>1. v[s] # None
      BY <1>2, <1>3, <2>1 DEF NoGap
    <3> QED BY <1>1, <1>2, <3>1
  <2>2. CASE t \in S
    <3>1. s \in Nat /\ s < EndOf(r)
      <4>1. s \in Nat /\ t \in Nat /\ t < EndOf(r)
        BY <1>1, <2>2, Numbers DEF Seqs
      <4> QED BY <1>1, <1>3, <4>1
    <3>2. CASE s < r.start
      <4>1. s \in 0..(r.start - 1)
        BY <1>1, <3>1, <3>2
      <4>2. v[s] # None
        BY <4>1 DEF Todo
      <4> QED BY <1>1, <1>2, <4>2
    <3>3. CASE ~ (s < r.start)
      <4>1. s \in r.start..(EndOf(r) - 1)
        BY <1>1, <3>1, <3>3
      <4>2. s \in S \/ v[s] # None
        BY <4>1 DEF Todo
      <4> QED BY <1>1, <1>2, <4>2
    <3> QED BY <3>2, <3>3
  <2> QED BY <2>1, <2>2
<1> QED BY <1>1, <1>2, <1>3 DEF NoGap, w

\* What they name is due until then.
LEMMA ChunkDue ==
  ASSUME NEW v \in [Seqs -> Job \cup {None}], NoGap(v), NEW r, NEW S, Todo(v, r, S),
         NEW M \in SUBSET Job
  PROVE  /\ {AtSeq(r, s) : s \in S} \subseteq Due(v, M, r)
         /\ Due(With(v, r, S), M, r) = Due(v, M, r) \ {AtSeq(r, s) : s \in S}
<1> DEFINE taken == {AtSeq(r, s) : s \in S}
           w == With(v, r, S)
<1>1. /\ Buffered(r, r.start) /\ r.start \in Nat
      /\ \A s \in S : /\ s \in Seqs /\ s \in Nat /\ AtSeq(r, s) \in Job /\ v[s] = None
                      /\ s \in r.start..(Total(r) - 1)
  BY TodoFacts
<1>2. \A s \in Seqs : w[s] = IF s \in S THEN AtSeq(r, s) ELSE v[s]
  BY WithFacts
<1>3. /\ Stream(r, M) \in SUBSET Job /\ r.base \in Nat
      /\ \A p \in 1..Len(r.spec.ids) : r.spec.ids[p] \in Stream(r, M)
      /\ \A j \in Job : Position(r, M, j) \in Nat
  BY <1>1, StreamFacts
<1>4. ASSUME NEW s \in S
      PROVE  AtSeq(r, s) \in Stream(r, M) /\ Position(r, M, AtSeq(r, s)) = s
  <2>1. s - r.base + 1 \in 1..Len(r.spec.ids) /\ s \in Nat
    BY <1>1, SeqFacts
  <2>2. AtSeq(r, s) = r.spec.ids[s - r.base + 1]
    BY DEF AtSeq
  <2>3. Position(r, M, AtSeq(r, s)) = r.base + (s - r.base + 1) - 1
    BY <1>1, <2>1, <2>2, PositionInBuffer
  <2> QED BY <1>3, <2>1, <2>2, <2>3
<1>5. taken \subseteq Due(v, M, r)
  BY <1>1, <1>4 DEF Due, Blank
<1>6. ASSUME NEW j \in Stream(r, M), Position(r, M, j) \in S PROVE j \in taken
  <2> DEFINE s == Position(r, M, j)
             i == AtSeq(r, s)
  <2>1. i \in Stream(r, M) /\ Position(r, M, i) = s /\ s \in Nat /\ s \in S
    BY <1>1, <1>4, <1>6
  <2>2. i \in Int /\ j \in Int
    BY <2>1, <1>3, Numbers
  <2> HIDE DEF i
  <2>3. ~ (i < j) /\ ~ (j < i)
    BY <1>1, <2>1, PositionGrows
  <2>4. i = j
    BY <2>2, <2>3
  <2> QED BY <2>1, <2>4 DEF i
<1> HIDE DEF w
<1>7. \A s : Blank(w, s) <=> Blank(v, s) /\ s \notin S
  <2>1. \A s \in S : s \in Seqs /\ AtSeq(r, s) # None
    BY <1>1, Numbers
  <2> QED BY <2>1, <1>2 DEF Blank
<1> HIDE DEF taken
<1>8. Due(w, M, r) = Due(v, M, r) \ taken
  <2>1. \A j \in Stream(r, M) : j \in taken => Position(r, M, j) \in S
    BY <1>4 DEF taken
  <2> QED BY <1>6, <1>7, <2>1 DEF Due
<1> QED BY <1>5, <1>8 DEF w, taken

\* The record turns what was due into what is done: neither account moves.
LEMMA RecordAccounts ==
  ASSUME NEW v \in [Seqs -> Job \cup {None}], NoGap(v), NEW r, NEW todo, Todo(v, r, todo),
         NEW M \in SUBSET Job
  PROVE  /\ Repeated(With(v, r, todo), M, r) = Repeated(v, M, r)
         /\ \A S : Skipped(With(v, r, todo), M, r, S) = Skipped(v, M, r, S)
<1> DEFINE taken == {AtSeq(r, s) : s \in todo}
           D == Due(v, M, r)
           K == Named(v)
           w == With(v, r, todo)
           again == {s \in todo : AtSeq(r, s) \in K}
<1>1. /\ w \in [Seqs -> Job \cup {None}] /\ Buffered(r, r.start) /\ r.start \in Nat
      /\ \A s \in Seqs : v[s] # None => w[s] = v[s]
  BY TodoFacts, WithFacts
<1>2. \A s \in todo : s \in Seqs /\ s \in Nat /\ AtSeq(r, s) \in Job /\ v[s] = None
  BY TodoFacts
<1>3. \A s, t \in todo : AtSeq(r, s) = AtSeq(r, t) => s = t
  BY TodoFacts
<1>4. \A s \in Seqs : w[s] = IF s \in todo THEN AtSeq(r, s) ELSE v[s]
  BY WithFacts
<1>5. taken \subseteq D /\ Due(w, M, r) = D \ taken
  BY ChunkDue
<1>6. /\ D \in SUBSET Job /\ K \in SUBSET Job /\ RepeatsIn(v) \in SUBSET Seqs
      /\ again \in SUBSET Seqs /\ taken \in SUBSET Job
  BY <1>1, <1>2, AccountSets
<1>7. Named(w) = K \cup taken
  <2>1. ASSUME NEW j \in Named(w) PROVE j \in K \cup taken
    <3>1. PICK s \in Seqs : w[s] = j
      BY DEF Named
    <3> QED BY <3>1, <1>4, <2>1 DEF Named
  <2>2. ASSUME NEW j \in K PROVE j \in Named(w)
    <3>1. PICK s \in Seqs : v[s] = j
      BY DEF Named
    <3>2. j \in Job /\ s \notin todo
      BY <1>2, <1>6, <3>1, Numbers
    <3> QED BY <3>1, <3>2, <1>4 DEF Named
  <2>3. ASSUME NEW s \in todo PROVE AtSeq(r, s) \in Named(w)
    BY <1>2, <1>4 DEF Named
  <2> QED BY <2>1, <2>2, <2>3
<1>8. RepeatsIn(w) = RepeatsIn(v) \cup again
  <2>1. \A s, t \in Seqs : v[s] = None /\ v[t] # None => t < s
    <3> SUFFICES ASSUME NEW s \in Seqs, NEW t \in Seqs, v[s] = None, v[t] # None
                 PROVE  t < s
      OBVIOUS
    <3>1. s \in Int /\ t \in Int /\ s # t
      BY Numbers DEF Seqs
    <3>2. ~ (s < t)
      BY DEF NoGap
    <3> QED BY <3>1, <3>2
  <2>2. ASSUME NEW s \in RepeatsIn(w) PROVE s \in RepeatsIn(v) \cup again
    <3>1. PICK t \in Seqs : s \in Seqs /\ w[s] # None /\ t < s /\ w[t] = w[s]
      BY DEF RepeatsIn
    <3>2. s \in Int /\ t \in Int /\ s # t
      BY <3>1, Numbers DEF Seqs
    <3>3. CASE s \in todo
      <4>1. t \notin todo
        BY <3>1, <3>2, <3>3, <1>3, <1>4
      <4>2. v[t] = AtSeq(r, s)
        BY <3>1, <3>3, <4>1, <1>4
      <4> QED BY <3>1, <3>3, <4>2, <1>2 DEF Named
    <3>4. CASE s \notin todo
      <4>1. v[s] # None
        BY <3>1, <3>4, <1>4
      <4>2. v[t] # None
        BY <3>1, <4>1 DEF NoGap
      <4> QED BY <3>1, <3>4, <4>1, <4>2, <1>2, <1>4 DEF RepeatsIn
    <3> QED BY <3>3, <3>4
  <2>3. ASSUME NEW s \in RepeatsIn(v) PROVE s \in RepeatsIn(w)
    <3>1. PICK t \in Seqs : s \in Seqs /\ v[s] # None /\ t < s /\ v[t] = v[s]
      BY DEF RepeatsIn
    <3>2. w[s] = v[s] /\ w[t] = v[t]
      BY <3>1, <1>1
    <3> QED BY <3>1, <3>2 DEF RepeatsIn
  <2>4. ASSUME NEW s \in again PROVE s \in RepeatsIn(w)
    <3>1. PICK t \in Seqs : v[t] = AtSeq(r, s)
      BY DEF Named
    <3>2. s \in Seqs /\ v[s] = None /\ AtSeq(r, s) \in Job /\ AtSeq(r, s) # None
      BY <1>2, Numbers
    <3>3. t < s /\ w[t] = AtSeq(r, s) /\ w[s] = AtSeq(r, s)
      BY <1>4, <2>1, <3>1, <3>2, <1>1
    <3> QED BY <3>2, <3>3 DEF RepeatsIn
  <2> QED BY <2>2, <2>3, <2>4
<1> HIDE DEF taken, D, K, w
<1>9. Cardinality(again) = Cardinality(K \cap taken)
  <2> DEFINE f == [s \in again |-> AtSeq(r, s)]
  <2>1. f \in Bijection(again, K \cap taken)
    <3>1. f \in [again -> K \cap taken]
      BY DEF taken
    <3>2. \A s, t \in again : f[s] = f[t] => s = t
      BY <1>3
    <3>3. \A j \in K \cap taken : \E s \in again : f[s] = j
      BY DEF taken
    <3> QED BY <3>1, <3>2, <3>3 DEF Bijection, Injection, Surjection, IsInjective
  <2>2. IsFiniteSet(again)
    BY <1>6, SeqSets
  <2> HIDE DEF f, again
  <2> QED BY <2>1, <2>2, FS_Bijection DEF ExistsBijection
<1>10. /\ Cardinality(RepeatsIn(v) \cup again) =
            Cardinality(RepeatsIn(v)) + Cardinality(again)
       /\ Cardinality(RepeatsIn(v)) \in Nat /\ Cardinality(again) \in Nat
  <2>1. RepeatsIn(v) \cap again = {}
    BY <1>2 DEF RepeatsIn
  <2>2. /\ IsFiniteSet(RepeatsIn(v)) /\ Cardinality(RepeatsIn(v)) \in Nat
        /\ IsFiniteSet(again) /\ Cardinality(again) \in Nat
    BY <1>6, SeqSets
  <2> HIDE DEF again
  <2>3. Cardinality(RepeatsIn(v) \cup again) =
          Cardinality(RepeatsIn(v)) + Cardinality(again)
            - Cardinality(RepeatsIn(v) \cap again)
    BY <2>2, FS_Union
  <2> QED BY <2>1, <2>2, <2>3, FS_EmptySet
<1>11. /\ Cardinality((K \cup taken) \cap (D \ taken)) =
            Cardinality(K \cap D) - Cardinality(K \cap taken)
       /\ Cardinality(K \cap D) \in Nat /\ Cardinality(K \cap taken) \in Nat
  <2> DEFINE A == (K \cup taken) \cap (D \ taken)
             B == K \cap taken
  <2>1. A \cup B = K \cap D /\ A \cap B = {}
    BY <1>5
  <2>2. /\ IsFiniteSet(A) /\ IsFiniteSet(B) /\ Cardinality(A) \in Nat /\ Cardinality(B) \in Nat
    <3>1. A \in SUBSET Job /\ B \in SUBSET Job
      BY <1>6
    <3> HIDE DEF A, B
    <3> QED BY <3>1, JobSets
  <2> HIDE DEF A, B
  <2>3. Cardinality(A \cup B) = Cardinality(A) + Cardinality(B) - Cardinality(A \cap B)
    BY <2>2, FS_Union
  <2>4. Cardinality(K \cap D) = Cardinality(A) + Cardinality(B)
    <3>1. Cardinality(A \cap B) = 0
      BY <2>1, FS_EmptySet
    <3>2. Cardinality(A \cup B) = Cardinality(K \cap D)
      BY <2>1
    <3> QED BY <2>2, <2>3, <3>1, <3>2
  <2>5. Cardinality(A) = Cardinality(K \cap D) - Cardinality(B) /\ Cardinality(K \cap D) \in Nat
    BY <2>2, <2>4
  <2> QED BY <2>2, <2>5 DEF A, B
<1>12. Repeated(w, M, r) = Repeated(v, M, r)
  <2>1. Repeated(w, M, r) =
          Cardinality(RepeatsIn(v) \cup again) + Cardinality((K \cup taken) \cap (D \ taken))
    BY <1>5, <1>7, <1>8 DEF Repeated
  <2>2. Repeated(v, M, r) = Cardinality(RepeatsIn(v)) + Cardinality(K \cap D)
    BY DEF Repeated, K, D
  <2> HIDE DEF again
  <2> QED BY <2>1, <2>2, <1>9, <1>10, <1>11
<1>13. ASSUME NEW S PROVE Skipped(w, M, r, S) = Skipped(v, M, r, S)
  <2>1. (K \cup taken) \cup (D \ taken) = K \cup D
    BY <1>5
  <2> QED BY <2>1, <1>5, <1>7 DEF Skipped, K, D
<1> QED BY <1>12, <1>13 DEF w

-----------------------------------------------------------------------------
(* The second layer, step by step.                                         *)

\* What is recorded already is what the row's cursor has passed, and the chunk
\* at hand leaves no gap behind it.
LEMMA ProspectFacts ==
  ASSUME Walk, NoGap(verdict)
  PROVE  /\ verdict \in [Seqs -> Job \cup {None}]
         /\ Prospect \in [Seqs -> Job \cup {None}] /\ NoGap(Prospect)
         /\ \A s \in Seqs : verdict[s] # None => Prospect[s] = verdict[s]
         /\ At("feeding") => Todo(verdict, feeder, feeder.todo)
<1>1. verdict \in [Seqs -> Job \cup {None}]
  BY DEF Walk, Typed
<1>2. CASE ~ At("feeding")
  BY <1>1, <1>2 DEF Prospect
<1>3. CASE At("feeding")
  <2>1. Prospect = With(verdict, feeder, feeder.todo)
    BY <1>3 DEF Prospect
  <2>2. Todo(verdict, feeder, feeder.todo)
    <3>1. /\ feeder.start = op.next /\ feeder.todo = Undone(feeder)
          /\ Buffered(feeder, feeder.start) /\ Recorded(op.next)
      BY <1>3, Held DEF At, Walk
    <3> QED BY <3>1 DEF Todo, Undone, Recorded
  <2> QED BY <1>1, <2>1, <2>2, WithFacts
<1> QED BY <1>2, <1>3

LEMMA BooksInit == Init => Books
<1> SUFFICES ASSUME Init PROVE Books
  OBVIOUS
<1>1. Walk
  BY WalkInit
<1>2. /\ \A s \in Seqs : verdict[s] = None
      /\ feeder = None /\ joins = 0 /\ selected = matching /\ matching \in SUBSET Job
  BY DEF Init
<1>3. NoGap(verdict) /\ Prospect = verdict
  BY <1>2 DEF NoGap, Prospect, At
<1>4. Named(verdict) = {} /\ RepeatsIn(verdict) = {}
  BY <1>2, Numbers DEF Named, RepeatsIn
<1>5. Due(verdict, matching, op) = matching
  <2>1. Stream(op, matching) = matching
    <3>1. PICK first \in Firsts : op.spec = PageIn(matching, 0, first)
      BY PageIsPageIn DEF Init
    <3>2. Stream(op, matching) = {j \in matching : 0 < j}
      BY <1>2, <3>1, PageStream, Numbers
    <3>3. \A j \in matching : 0 < j
      BY <1>2, Numbers
    <3> QED BY <3>2, <3>3
  <2> QED BY <1>2, <2>1 DEF Due, Blank
<1>6. Repeated(verdict, matching, op) = 0
  <2>1. Cardinality({}) = 0 /\ Named(verdict) \cap Due(verdict, matching, op) = {}
    BY <1>4, FS_EmptySet
  <2> QED BY <1>4, <2>1 DEF Repeated
<1>7. Skipped(verdict, matching, op, selected) = 0
  <2>1. selected \ (Named(verdict) \cup Due(verdict, matching, op)) = {}
    BY <1>2, <1>5
  <2> QED BY <2>1, FS_EmptySet DEF Skipped
<1>8. Leaves = 0
  BY <1>2, JobSets DEF Leaves
<1>9. Accounted(verdict, matching, op)
  BY <1>2, <1>6, <1>7, <1>8 DEF Accounted
<1> QED BY <1>2, <1>3, <1>9 DEF Books

\* A step that leaves the results, the filter and the stored buffer alone, and
\* gives up the chunk at hand or keeps it as it is.
LEMMA BooksKept ==
  ASSUME Walk, Books, UNCHANGED <<verdict, filter>>, op'.spec = op.spec, op'.base = op.base,
         Prospect' \in {Prospect, verdict},
         feeder' # None =>
           \/ Prospect' = verdict /\ feeder'.spec = op.spec /\ feeder'.base = op.base
           \/ /\ Prospect' = Prospect /\ feeder # None
              /\ feeder'.spec = feeder.spec /\ feeder'.base = feeder.base
  PROVE  Books'
<1>1. /\ UNCHANGED <<verdict, matching, selected, joins, Leaves>>
  BY DEF filter, Leaves
<1>2. \A v, M : Due(v, M, op') = Due(v, M, op)
  BY SameDue
<1>3. Accounted(verdict, matching, op)'
  BY <1>1, <1>2 DEF Books, Accounted, Repeated, Skipped
<1>4. Accounted(Prospect, matching, op)'
  BY <1>1, <1>2 DEF Books, Accounted, Repeated, Skipped
<1>5. ASSUME feeder' # None PROVE Accounted(Prospect, matching, feeder)'
  <2>1. CASE Prospect' = verdict /\ feeder'.spec = op.spec /\ feeder'.base = op.base
    <3>1. \A v, M : Due(v, M, feeder') = Due(v, M, op)
      BY <2>1, SameDue
    <3> QED BY <1>1, <2>1, <3>1 DEF Books, Accounted, Repeated, Skipped
  <2>2. CASE /\ Prospect' = Prospect /\ feeder # None
             /\ feeder'.spec = feeder.spec /\ feeder'.base = feeder.base
    <3>1. \A v, M : Due(v, M, feeder') = Due(v, M, feeder)
      BY <2>2, SameDue
    <3> QED BY <1>1, <2>2, <3>1 DEF Books, Accounted, Repeated, Skipped
  <2> QED BY <1>5, <2>1, <2>2
<1>6. NoGap(verdict)'
  BY <1>1 DEF Books
<1> QED BY <1>3, <1>4, <1>5, <1>6 DEF Books

\* The loaded chunk is of the stream behind the row: recording it moves neither
\* account, of the row's buffer or of its own.
LEMMA LoadBooks == Walk /\ Books /\ Load => Books'
<1> SUFFICES ASSUME Walk, Books, Load PROVE Books'
  OBVIOUS
<1>1. Walk' /\ NoGap(verdict) /\ UNCHANGED <<op, verdict, filter>> /\ At("claimed")
  BY LoadWalks DEF Books, Load, tally
<1>2. /\ feeder # None /\ feeder.start = op.next /\ Buffered(op, op.next) /\ op.next \in Nat
      /\ feeder.spec = op.spec /\ feeder.base = op.base
      /\ verdict \in [Seqs -> Job \cup {None}] /\ matching \in SUBSET Job
      /\ Recorded(op.next)
  BY <1>1, Held DEF Walk, ChunkHeld, Typed, At
<1> DEFINE chunk == Loaded(feeder.start)
<1>3. /\ chunk \in Chunks /\ chunk.start = feeder.start /\ Buffered(chunk, chunk.start)
      /\ \/ chunk = feeder
         \/ /\ op.spec.cursor # None /\ feeder.start = Total(op) /\ chunk.base = feeder.start
            /\ chunk.spec = PageIn(matching, op.spec.cursor, Chunk)
  BY <1>1, LoadedFacts
<1> HIDE DEF chunk
<1>4. /\ feeder' # None /\ feeder'.at = "feeding" /\ feeder'.start = feeder.start
      /\ feeder'.spec = chunk.spec /\ feeder'.base = chunk.base
  <2>1. feeder' = [chunk EXCEPT !.at = "feeding", !.todo = Undone(chunk), !.left = Undone(chunk)]
    BY DEF Load, chunk
  <2>2. feeder' \in Chunks \cup {None}
    BY <1>1 DEF Walk, Typed
  <2>3. /\ feeder'.at = "feeding" /\ feeder'.start = chunk.start
        /\ feeder'.spec = chunk.spec /\ feeder'.base = chunk.base
    BY <1>3, <2>1 DEF Chunks
  <2>4. feeder' # None
    <3>1. \A s \in Undone(chunk) : s \in chunk.start..(Total(chunk) - 1)
      BY <1>3, ChunkFacts DEF Undone, Chunks
    <3>2. Undone(chunk) \in SUBSET Seqs
      BY <3>1, <1>3, SeqFacts DEF Chunks
    <3>3. feeder' \in Chunks
      BY <1>3, <2>1, <3>2 DEF Chunks
    <3> QED BY <3>3, NoneIsNoChunk
  <2> QED BY <1>3, <2>3, <2>4
<1>5. Todo(verdict, feeder', feeder'.todo)
  <2>1. feeder'.todo = Undone(feeder)' /\ Buffered(feeder', feeder'.start)
    BY <1>1, <1>4 DEF Walk, ChunkHeld
  <2> QED BY <1>1, <1>2, <1>4, <2>1 DEF Todo, Undone, Recorded
<1> DEFINE w == With(verdict, feeder', feeder'.todo)
<1>6. /\ w \in [Seqs -> Job \cup {None}] /\ NoGap(w)
      /\ \A s \in Seqs : verdict[s] # None => w[s] = verdict[s]
  BY <1>1, <1>2, <1>5, WithFacts
<1>7. Prospect' = w
  BY <1>1, <1>4 DEF Prospect, At
<1> HIDE DEF w
<1>8. /\ Due(verdict, matching, feeder') = Due(verdict, matching, op)
      /\ Due(w, matching, feeder') = Due(w, matching, op)
  <2>1. CASE chunk = feeder
    <3>1. feeder'.spec = op.spec /\ feeder'.base = op.base
      BY <1>2, <1>4, <2>1
    <3> QED BY <3>1, SameDue
  <2>2. CASE /\ op.spec.cursor # None /\ feeder.start = Total(op) /\ chunk.base = feeder.start
             /\ chunk.spec = PageIn(matching, op.spec.cursor, Chunk)
    <3>1. /\ op.next = Total(op) /\ feeder'.base = op.next
          /\ feeder'.spec = PageIn(matching, op.spec.cursor, Chunk)
      BY <1>2, <1>4, <2>2
    <3>2. \A s \in 0..(op.next - 1) : verdict[s] # None
      BY <1>2 DEF Recorded
    <3>3. \A s \in 0..(op.next - 1) : s \in Seqs
      <4>1. BoundOf(op) \in Nat /\ BoundOf(op) <= Jobs
        <5>1. op.spec.cursor \in Job
          BY <1>2, <2>2 DEF Buffered, PageOfJobs
        <5> QED BY <5>1, Numbers DEF BoundOf, Reach
      <4>2. op.next <= BoundOf(op)
        BY <1>2, <3>1 DEF Buffered
      <4> QED BY <1>2, <4>1, <4>2, Numbers DEF Seqs
    <3>4. \A s \in 0..(op.next - 1) : w[s] # None
      BY <1>6, <3>2, <3>3
    <3>5. Due(verdict, matching, feeder') = Due(verdict, matching, op)
      BY <1>2, <2>2, <3>1, <3>2, RefillDue
    <3>6. Due(w, matching, feeder') = Due(w, matching, op)
      BY <1>2, <1>6, <2>2, <3>1, <3>4, RefillDue
    <3> QED BY <3>5, <3>6
  <2> QED BY <1>3, <2>1, <2>2
<1>9. /\ Repeated(w, matching, feeder') = Repeated(verdict, matching, feeder')
      /\ Skipped(w, matching, feeder', selected) = Skipped(verdict, matching, feeder', selected)
  BY <1>1, <1>2, <1>5, RecordAccounts DEF w
<1>10. /\ Repeated(verdict, matching, op) <= joins
       /\ Skipped(verdict, matching, op, selected) <= Leaves
  BY DEF Books, Accounted
<1>11. /\ Repeated(w, matching, op) <= joins /\ Repeated(w, matching, feeder') <= joins
       /\ Skipped(w, matching, op, selected) <= Leaves
       /\ Skipped(w, matching, feeder', selected) <= Leaves
  BY <1>8, <1>9, <1>10 DEF Repeated, Skipped
<1>12. UNCHANGED <<op, verdict, matching, selected, joins, Leaves>>
  BY <1>1 DEF filter, Leaves
<1>13. Accounted(verdict, matching, op)' /\ NoGap(verdict)'
  BY <1>1, <1>10, <1>12 DEF Accounted
<1>14. Accounted(Prospect, matching, op)' /\ Accounted(Prospect, matching, feeder)'
  BY <1>7, <1>11, <1>12 DEF Accounted
<1> QED BY <1>13, <1>14 DEF Books

\* A job that leaves the filter or flips into it is paid for.
LEMMA FilterAccounts ==
  ASSUME Walk, NEW j \in Job, LeaveFilter(j) \/ JoinFilter(j),
         NEW v \in [Seqs -> Job \cup {None}], NoGap(v),
         NEW r, NEW start \in Nat, Buffered(r, start), Accounted(v, matching, r)
  PROVE  Repeated(v, matching', r) <= joins' /\ Skipped(v, matching', r, selected) <= Leaves'
<1>1. /\ matching \in SUBSET Job /\ selected \in SUBSET Job /\ joins \in Nat
      /\ matching' \in SUBSET Job /\ selected' = selected
      /\ IsFiniteSet(matching) /\ Cardinality(matching) \in Nat /\ Cardinality(selected) \in Nat
      /\ IsFiniteSet(matching') /\ Cardinality(matching') \in Nat
  <2>1. /\ matching \in SUBSET Job /\ selected \in SUBSET Job /\ joins \in Nat
        /\ matching' \in SUBSET Job /\ selected' = selected
    BY BatchAssumption DEF Walk, Typed, LeaveFilter, JoinFilter
  <2> QED BY <2>1, JobSets
<1>2. /\ Repeated(v, matching, r) \in Nat /\ Skipped(v, matching, r, selected) \in Nat
      /\ Repeated(v, matching', r) \in Nat /\ Skipped(v, matching', r, selected) \in Nat
  BY <1>1, AccountSets
<1>3. Repeated(v, matching, r) <= joins /\ Skipped(v, matching, r, selected) <= Leaves
  BY DEF Accounted
<1>4. CASE LeaveFilter(j)
  <2>1. j \in matching /\ matching' = matching \ {j} /\ joins' = joins
    BY <1>4 DEF LeaveFilter
  <2>2. matching' \cup {j} = matching /\ j \notin matching'
    BY <2>1
  <2>3. /\ Repeated(v, matching', r) <= Repeated(v, matching, r)
        /\ Skipped(v, matching', r, selected) <= Skipped(v, matching, r, selected) + 1
    BY <1>1, <2>2, ShiftAccounts
  <2>4. Cardinality(matching) = Cardinality(matching') + 1
    BY <1>1, <2>2, FS_AddElement
  <2>5. Leaves \in Int /\ Leaves' = Leaves + 1
    BY <1>1, <2>1, <2>4 DEF Leaves
  <2> QED BY <1>1, <1>2, <1>3, <2>1, <2>3, <2>5
<1>5. CASE JoinFilter(j)
  <2>1. j \notin matching /\ matching' = matching \cup {j} /\ joins' = joins + 1
    BY <1>5 DEF JoinFilter
  <2>2. /\ Repeated(v, matching', r) <= Repeated(v, matching, r) + 1
        /\ Skipped(v, matching', r, selected) <= Skipped(v, matching, r, selected)
    BY <1>1, <2>1, ShiftAccounts
  <2>3. Cardinality(matching') = Cardinality(matching) + 1
    BY <1>1, <2>1, FS_AddElement
  <2>4. Leaves \in Int /\ Leaves' = Leaves
    BY <1>1, <2>1, <2>3 DEF Leaves
  <2> QED BY <1>1, <1>2, <1>3, <2>1, <2>2, <2>4
<1> QED BY <1>4, <1>5

LEMMA FilterBooks ==
  ASSUME Walk, Books, NEW j \in Job, LeaveFilter(j) \/ JoinFilter(j)
  PROVE  Books'
<1>1. UNCHANGED <<op, verdict, feeder, selected>>
  BY DEF LeaveFilter, JoinFilter, tally
<1>2. Prospect' = Prospect
  BY <1>1 DEF Prospect, At
<1>3. /\ verdict \in [Seqs -> Job \cup {None}] /\ NoGap(verdict)
      /\ Prospect \in [Seqs -> Job \cup {None}] /\ NoGap(Prospect)
  BY ProspectFacts DEF Books
<1>4. Buffered(op, op.next) /\ op.next \in Nat
  BY DEF Walk, Buffered
<1>5. Accounted(verdict, matching, op)'
  <2>1. /\ Repeated(verdict, matching', op) <= joins'
        /\ Skipped(verdict, matching', op, selected) <= Leaves'
    BY <1>3, <1>4, FilterAccounts DEF Books
  <2> QED BY <1>1, <2>1 DEF Accounted
<1>6. Accounted(Prospect, matching, op)'
  <2>1. /\ Repeated(Prospect, matching', op) <= joins'
        /\ Skipped(Prospect, matching', op, selected) <= Leaves'
    BY <1>3, <1>4, FilterAccounts DEF Books
  <2> QED BY <1>1, <1>2, <2>1 DEF Accounted
<1>7. ASSUME feeder # None PROVE Accounted(Prospect, matching, feeder)'
  <2>1. Buffered(feeder, feeder.start) /\ feeder.start \in Nat
    BY <1>7, Held
  <2>2. /\ Repeated(Prospect, matching', feeder) <= joins'
        /\ Skipped(Prospect, matching', feeder, selected) <= Leaves'
    BY <1>3, <1>7, <2>1, FilterAccounts DEF Books
  <2> QED BY <1>1, <1>2, <2>2 DEF Accounted
<1> QED BY <1>1, <1>3, <1>5, <1>6, <1>7 DEF Books

LEMMA RecordBooks == Walk /\ Books /\ Record => Books'
<1> SUFFICES ASSUME Walk, Books, Record PROVE Books'
  OBVIOUS
<1>1. /\ At("feeding") /\ UNCHANGED <<op, filter>> /\ feeder \in Chunks /\ feeder # None
      /\ feeder' = [feeder EXCEPT !.at = "recorded"]
  BY Held DEF Record, At
<1>2. feeder' # None /\ feeder'.at = "recorded" /\ feeder'.spec = feeder.spec /\ feeder'.base = feeder.base
  <2>1. feeder' \in Chunks
    BY <1>1 DEF Chunks
  <2> QED BY <1>1, <2>1, NoneIsNoChunk DEF Chunks
<1>3. verdict' = Prospect /\ Prospect' = Prospect
  <2>1. verdict' = Prospect
    BY <1>1 DEF Record, Prospect, With, JobAt, AtSeq
  <2> QED BY <1>2, <2>1 DEF Prospect, At
<1>4. NoGap(verdict)'
  BY <1>3, ProspectFacts DEF Books
<1>5. UNCHANGED <<op, matching, selected, joins, Leaves>>
  BY <1>1 DEF filter, Leaves
<1>6. Accounted(verdict, matching, op)' /\ Accounted(Prospect, matching, op)'
  BY <1>3, <1>5 DEF Books, Accounted
<1>7. Accounted(Prospect, matching, feeder)'
  <2>1. \A v, M : Due(v, M, feeder') = Due(v, M, feeder)
    BY <1>2, SameDue
  <2> QED BY <1>1, <1>3, <1>5, <2>1 DEF Books, Accounted, Repeated, Skipped
<1> QED BY <1>4, <1>6, <1>7 DEF Books

\* Then the feeder's accounts become the row's.
LEMMA StoreBooks ==
  ASSUME Walk, Books, ~ At("feeding"), feeder # None, feeder' = None,
         UNCHANGED <<verdict, filter>>, op'.spec = feeder.spec, op'.base = feeder.base
  PROVE  Books'
<1>1. Prospect = verdict /\ Prospect' = verdict
  BY DEF Prospect, At
<1>2. UNCHANGED <<verdict, matching, selected, joins, Leaves>>
  BY DEF filter, Leaves
<1>3. \A v, M : Due(v, M, op') = Due(v, M, feeder)
  BY SameDue
<1>4. Accounted(verdict, matching, op)' /\ Accounted(Prospect, matching, op)'
  BY <1>1, <1>2, <1>3 DEF Books, Accounted, Repeated, Skipped
<1> QED BY <1>2, <1>4 DEF Books

\* Mutations may still follow.
Active == feeder # None \/ op.status \notin Terminal

\* A step that executes, records, loads, stores and loses nothing, or fails the
\* operation.
Quiet ==
  /\ UNCHANGED <<verdict, filter, applied, crashes>>
  /\ op'.spec = op.spec /\ op'.base = op.base
  /\ \/ /\ At("feeding") /\ At("feeding")'
        /\ feeder'.spec = feeder.spec /\ feeder'.base = feeder.base
        /\ feeder'.todo = feeder.todo /\ feeder'.left \subseteq feeder.left
     \/ /\ ~ At("feeding") /\ ~ At("feeding")'
        /\ feeder' # None =>
             feeder # None /\ feeder'.spec = feeder.spec /\ feeder'.base = feeder.base
        /\ Active' => Active
     \/ feeder' = None /\ ~ Active'

\* The row takes over the feeder's buffer.
Stores ==
  /\ feeder # None /\ ~ At("feeding") /\ feeder' = None
  /\ UNCHANGED <<verdict, filter, applied, crashes>>
  /\ op'.spec = feeder.spec /\ op'.base = feeder.base

\* What a step does to the stream, in one of eight ways.
LEMMA StreamSteps ==
  ASSUME Walk, [Next]_vars
  PROVE  \/ Claim \/ Load \/ RunJob \/ Record \/ Crash
         \/ \E j \in Job : LeaveFilter(j) \/ JoinFilter(j)
         \/ Quiet
         \/ Stores
<1>0. op \in Rows
  BY DEF Walk, Typed
<1>1. CASE ChunkFails
  <2>1. /\ feeder \in Chunks /\ feeder # None /\ feeder.at = "feeding"
        /\ feeder' = [feeder EXCEPT !.left = {}]
        /\ UNCHANGED <<op, verdict, filter, applied, crashes>>
    BY <1>1, Held DEF ChunkFails, At, tally
  <2>2. /\ feeder' \in Chunks /\ feeder'.at = "feeding" /\ feeder'.todo = feeder.todo
        /\ feeder'.left = {} /\ feeder'.spec = feeder.spec /\ feeder'.base = feeder.base
    BY <2>1 DEF Chunks
  <2>3. At("feeding") /\ At("feeding")'
    BY <2>1, <2>2, NoneIsNoChunk DEF At
  <2> QED BY <2>1, <2>2, <2>3 DEF Quiet
<1>2. CASE ReadFresh \/ Pack \/ ReadMissed
  <2>1. /\ feeder \in Chunks /\ feeder # None /\ feeder.at \in {"recorded", "packing", "missed"}
        /\ UNCHANGED <<op, verdict, filter, applied, crashes>>
    BY <1>2, Held DEF ReadFresh, Pack, ReadMissed, At, tally
  <2>2. \/ feeder' = None
        \/ /\ feeder'.at # "feeding" /\ feeder'.spec = feeder.spec /\ feeder'.base = feeder.base
    <3>1. CASE ReadFresh
      BY <3>1, <2>1 DEF ReadFresh, Chunks
    <3>2. CASE Pack
      BY <3>2, <2>1 DEF Pack, Chunks
    <3>3. CASE ReadMissed
      <4>1. \/ feeder' = [feeder EXCEPT !.at = "interrupted"]
            \/ feeder' = [feeder EXCEPT !.at = "resumed"]
            \/ feeder' = None
        BY <3>3 DEF ReadMissed
      <4> QED BY <4>1, <2>1 DEF Chunks
    <3> QED BY <1>2, <3>1, <3>2, <3>3
  <2>3. ~ At("feeding") /\ ~ At("feeding")' /\ Active
    BY <2>1, <2>2 DEF At, Active
  <2> QED BY <2>1, <2>2, <2>3 DEF Quiet
<1>3. CASE Advance \/ RecordInterrupted \/ PreserveResumed
  <2>1. /\ feeder \in Chunks /\ feeder # None /\ ~ At("feeding") /\ Active
        /\ UNCHANGED <<verdict, filter, applied, crashes>>
    BY <1>3, Held DEF Advance, RecordInterrupted, PreserveResumed, At, tally, Active
  <2>2. CASE Advance /\ op.status # "running"
    <3>1. feeder' = [feeder EXCEPT !.at = "missed"] /\ UNCHANGED op
      BY <2>2 DEF Advance
    <3>2. feeder'.at = "missed" /\ feeder'.spec = feeder.spec /\ feeder'.base = feeder.base
      BY <2>1, <3>1 DEF Chunks
    <3>3. ~ At("feeding")'
      BY <3>2 DEF At
    <3> QED BY <2>1, <3>1, <3>2, <3>3 DEF Quiet
  <2>3. CASE Advance /\ op.status = "running"
    <3>1. /\ feeder' = None
          /\ op' = [WithChunk(op) EXCEPT !.status = IF IsFinal(feeder) THEN "completed" ELSE "pending"]
      BY <2>3 DEF Advance
    <3>2. op'.spec = feeder.spec /\ op'.base = feeder.base
      BY <3>1, <1>0 DEF WithChunk, Rows
    <3> QED BY <2>1, <3>1, <3>2 DEF Stores
  <2>4. CASE RecordInterrupted \/ PreserveResumed
    <3>1. feeder' = None /\ ~ At("feeding")'
      BY <2>4 DEF RecordInterrupted, PreserveResumed, At
    <3>2. CASE UNCHANGED op
      BY <2>1, <3>1, <3>2 DEF Quiet
    <3>3. CASE op' = WithChunk(op) \/ op' = [WithChunk(op) EXCEPT !.next = op.next]
      <4>1. op'.spec = feeder.spec /\ op'.base = feeder.base
        BY <3>3, <1>0 DEF WithChunk, Rows
      <4> QED BY <2>1, <3>1, <4>1 DEF Stores
    <3> QED BY <2>4, <3>2, <3>3 DEF RecordInterrupted, PreserveResumed
  <2> QED BY <1>3, <2>2, <2>3, <2>4
<1>4. CASE Release \/ FailOperation \/ Pause \/ Resume \/ Cancel
  <2>1. PICK to \in Statuses :
          /\ op' = [op EXCEPT !.status = to]
          /\ op.status \in Terminal => to = op.status
          /\ to \in Terminal \/ feeder' = feeder \/ feeder.at = "claimed"
    BY <1>4, StatusSteps
  <2>2. UNCHANGED <<verdict, filter, applied, crashes>> /\ feeder' \in {feeder, None}
    BY <1>4, StatusSteps DEF tally
  <2>3. op'.status = to /\ op'.spec = op.spec /\ op'.base = op.base
    BY <1>0, <2>1 DEF Rows
  <2>4. CASE feeder' = feeder
    <3>1. Active' => Active
      BY <2>1, <2>3, <2>4 DEF Active
    <3>2. At("feeding")' <=> At("feeding")
      BY <2>4 DEF At
    <3>3. At("feeding") => feeder'.left \subseteq feeder.left
      BY <2>4
    <3> QED BY <2>2, <2>3, <2>4, <3>1, <3>2, <3>3 DEF Quiet
  <2>5. CASE feeder' = None /\ feeder # None
    <3>1. CASE to \in Terminal
      BY <2>2, <2>3, <2>5, <3>1 DEF Quiet, Active
    <3>2. CASE to \notin Terminal
      <4>1. ~ At("feeding") /\ ~ At("feeding")' /\ Active
        BY <2>1, <2>5, <3>2 DEF At, Active
      <4> QED BY <2>2, <2>3, <2>5, <4>1 DEF Quiet
    <3> QED BY <3>1, <3>2
  <2> QED BY <2>2, <2>4, <2>5
<1>5. CASE UNCHANGED vars
  <2>1. At("feeding")' <=> At("feeding")
    BY <1>5 DEF At, vars
  <2>2. (Active' => Active) /\ (At("feeding") => feeder'.left \subseteq feeder.left)
    BY <1>5 DEF Active, vars
  <2> QED BY <1>5, <2>1, <2>2 DEF Quiet, vars, tally
<1> QED BY <1>1, <1>2, <1>3, <1>4, <1>5 DEF Next, FeederStep

LEMMA QuietBooks == Walk /\ Books /\ Quiet => Books'
<1> SUFFICES ASSUME Walk, Books, Quiet PROVE Books'
  OBVIOUS
<1>1. CASE /\ At("feeding") /\ At("feeding")'
           /\ feeder'.spec = feeder.spec /\ feeder'.base = feeder.base
           /\ feeder'.todo = feeder.todo
  <2>1. Prospect' = Prospect
    <3>1. \A s : AtSeq(feeder', s) = AtSeq(feeder, s)
      BY <1>1 DEF AtSeq
    <3> QED BY <1>1, <3>1 DEF Prospect, With, Quiet
  <2> QED BY <1>1, <2>1, BooksKept DEF Quiet, At
<1>2. CASE /\ ~ At("feeding") /\ ~ At("feeding")'
           /\ feeder' # None =>
                feeder # None /\ feeder'.spec = feeder.spec /\ feeder'.base = feeder.base
  <2>1. Prospect = verdict /\ Prospect' = verdict
    BY <1>2 DEF Prospect, Quiet
  <2> QED BY <1>2, <2>1, BooksKept DEF Quiet
<1>3. CASE feeder' = None
  <2>1. Prospect' = verdict
    BY <1>3 DEF Prospect, At, Quiet
  <2> QED BY <1>3, <2>1, BooksKept DEF Quiet
<1> QED BY <1>1, <1>2, <1>3 DEF Quiet

LEMMA BooksStep == Walk /\ Books /\ [Next]_vars => Books'
<1> SUFFICES ASSUME Walk, Books, [Next]_vars PROVE Books'
  OBVIOUS
<1>1. CASE Claim
  <2>1. /\ feeder = None /\ UNCHANGED <<verdict, filter>> /\ op \in Rows
        /\ op' = [op EXCEPT !.status = "running"]
        /\ feeder'.at = "claimed" /\ feeder'.base = op.base /\ feeder'.spec = op.spec
    BY <1>1 DEF Claim, tally, Walk, Typed
  <2>2. op'.spec = op.spec /\ op'.base = op.base
    BY <2>1 DEF Rows
  <2>3. Prospect' = verdict
    BY <2>1 DEF Prospect, At
  <2> QED BY <2>1, <2>2, <2>3, BooksKept
<1>2. CASE Load
  BY <1>2, LoadBooks
<1>3. CASE RunJob
  <2>1. At("feeding") /\ feeder # None /\ feeder \in Chunks /\ UNCHANGED <<op, verdict, filter>>
    BY <1>3, Held DEF RunJob, At
  <2>2. PICK s \in feeder.left : feeder' = [feeder EXCEPT !.left = @ \ {s}]
    BY <1>3, LeastLeft
  <2>3. /\ feeder' \in Chunks /\ feeder'.at = "feeding" /\ feeder'.todo = feeder.todo
        /\ feeder'.spec = feeder.spec /\ feeder'.base = feeder.base
    BY <2>1, <2>2 DEF Chunks, At
  <2>4. At("feeding")' /\ \A t : AtSeq(feeder', t) = AtSeq(feeder, t)
    BY <2>3, NoneIsNoChunk DEF At, AtSeq
  <2>5. Prospect' = Prospect
    BY <2>1, <2>3, <2>4 DEF Prospect, With
  <2> QED BY <2>1, <2>3, <2>5, BooksKept
<1>4. CASE Record
  BY <1>4, RecordBooks
<1>5. CASE Crash
  <2>1. feeder' = None /\ UNCHANGED <<op, verdict, filter>>
    BY <1>5 DEF Crash, tally
  <2>2. Prospect' = verdict
    BY <2>1 DEF Prospect, At
  <2> QED BY <2>1, <2>2, BooksKept
<1>6. CASE \E j \in Job : LeaveFilter(j) \/ JoinFilter(j)
  BY <1>6, FilterBooks
<1>7. CASE Quiet
  BY <1>7, QuietBooks
<1>8. CASE Stores
  BY <1>8, StoreBooks DEF Stores
<1> QED BY <1>1, <1>2, <1>3, <1>4, <1>5, <1>6, <1>7, <1>8, StreamSteps

-----------------------------------------------------------------------------
(* The third layer: how often a job was mutated.                           *)

LEMMA TimesType ==
  ASSUME NEW v, NEW j
  PROVE  /\ SeqsOf(v, j) \in SUBSET Seqs /\ IsFiniteSet(SeqsOf(v, j))
         /\ Cardinality(SeqsOf(v, j)) \in Nat /\ Times(v, j) \in Nat
<1>1. SeqsOf(v, j) \in SUBSET Seqs
  BY DEF SeqsOf
<1> QED BY <1>1, SeqSets DEF Times

\* More positions, more of a job's.
LEMMA TimesGrows ==
  ASSUME NEW v, NEW w, NEW j, \A s \in Seqs : v[s] = j => w[s] = j
  PROVE  Times(v, j) <= Times(w, j)
<1>1. SeqsOf(v, j) \subseteq SeqsOf(w, j)
  BY DEF SeqsOf
<1> QED BY <1>1, TimesType, FS_Subset DEF Times

\* One more position, one more of the job's.
LEMMA TimesOnce ==
  ASSUME NEW v, NEW w, NEW j, NEW t \in Seqs, v[t] # j,
         \A s \in Seqs : w[s] = j <=> v[s] = j \/ s = t
  PROVE  Times(w, j) = Times(v, j) + 1
<1> DEFINE A == SeqsOf(v, j)
           B == SeqsOf(w, j)
<1>1. B = A \cup {t} /\ t \notin A
  BY DEF SeqsOf
<1>2. IsFiniteSet(A) /\ Cardinality(A) \in Nat
  BY TimesType
<1> HIDE DEF A, B
<1>3. Cardinality(B) = Cardinality(A) + 1
  BY <1>1, <1>2, FS_AddElement
<1> QED BY <1>3 DEF Times, A, B

\* Of a job's positions all but the first are repeats.
LEMMA TimesRepeats ==
  ASSUME NEW v \in [Seqs -> Job \cup {None}], NEW j \in Job
  PROVE  Times(v, j) <= 1 + Cardinality(RepeatsIn(v))
<1> DEFINE A == SeqsOf(v, j)
           R == RepeatsIn(v)
<1>1. /\ R \in SUBSET Seqs /\ IsFiniteSet(R) /\ Cardinality(R) \in Nat
      /\ A \in SUBSET Seqs /\ IsFiniteSet(A) /\ Cardinality(A) \in Nat
  <2>1. R \in SUBSET Seqs
    BY DEF RepeatsIn
  <2> QED BY <2>1, SeqSets, TimesType
<1>2. CASE A = {}
  <2>1. Cardinality(A) = 0
    BY <1>2, FS_EmptySet
  <2> QED BY <2>1, <1>1 DEF Times
<1>3. CASE A # {}
  <2>1. A \in SUBSET (0..Jobs) /\ \A s \in A : s \in Int
    BY <1>1, Numbers DEF Seqs
  <2>2. PICK m \in A : \A s \in A : s >= m
    BY <1>3, <2>1, LeastMember, Numbers
  <2>3. A \subseteq R \cup {m}
    <3>1. ASSUME NEW s \in A, s # m PROVE s \in R
      <4>1. m < s /\ m \in Seqs /\ s \in Seqs
        BY <1>1, <2>1, <2>2, <3>1
      <4>2. v[s] = j /\ v[m] = j /\ v[s] # None
        BY <2>2, Numbers DEF SeqsOf
      <4> QED BY <4>1, <4>2 DEF RepeatsIn
    <3> QED BY <3>1
  <2>4. IsFiniteSet(R \cup {m}) /\ Cardinality(R \cup {m}) \in Nat
        /\ Cardinality(R \cup {m}) <= Cardinality(R) + 1
    <3> HIDE DEF R
    <3>1. CASE m \in R
      <4>1. R \cup {m} = R
        BY <3>1
      <4> QED BY <4>1, <1>1
    <3>2. CASE m \notin R
      <4>1. IsFiniteSet(R \cup {m}) /\ Cardinality(R \cup {m}) = Cardinality(R) + 1
        BY <3>2, <1>1, FS_AddElement
      <4> QED BY <4>1, <1>1
    <3> QED BY <3>1, <3>2
  <2>5. Cardinality(A) <= Cardinality(R \cup {m})
    BY <2>3, <2>4, FS_Subset
  <2> QED BY <1>1, <2>4, <2>5 DEF Times
<1> QED BY <1>2, <1>3

\* What is performed of the chunk at hand lies between the results and what the
\* chunk will record, and has each job at most once more than the results.
LEMMA PerformedFacts ==
  ASSUME Walk, Books, At("feeding")
  PROVE  /\ Todo(verdict, feeder, feeder.todo) /\ feeder.left \subseteq feeder.todo
         /\ feeder # None /\ feeder \in Chunks
         /\ \A s \in feeder.todo : /\ s \in Seqs /\ AtSeq(feeder, s) \in Job /\ verdict[s] = None
                                   /\ JobAt(s) = AtSeq(feeder, s)
         /\ \A s, t \in feeder.todo : AtSeq(feeder, s) = AtSeq(feeder, t) => s = t
         /\ \A s \in Seqs : Performed[s] = IF s \in feeder.todo \ feeder.left
                                           THEN AtSeq(feeder, s) ELSE verdict[s]
         /\ \A s \in Seqs : Prospect[s] = IF s \in feeder.todo THEN AtSeq(feeder, s) ELSE verdict[s]
<1>1. Todo(verdict, feeder, feeder.todo) /\ verdict \in [Seqs -> Job \cup {None}]
  BY ProspectFacts DEF Books
<1>2. feeder # None /\ feeder \in Chunks /\ feeder.left \subseteq feeder.todo
  BY Held DEF At
<1>3. /\ \A s \in feeder.todo : s \in Seqs /\ AtSeq(feeder, s) \in Job /\ verdict[s] = None
      /\ \A s, t \in feeder.todo : AtSeq(feeder, s) = AtSeq(feeder, t) => s = t
  BY <1>1, TodoFacts
<1>4. \A s \in feeder.todo : JobAt(s) = AtSeq(feeder, s)
  BY DEF JobAt, AtSeq
<1>5. /\ Performed = With(verdict, feeder, feeder.todo \ feeder.left)
      /\ Prospect = With(verdict, feeder, feeder.todo)
  BY DEF Performed, Prospect
<1> QED BY <1>1, <1>2, <1>3, <1>4, <1>5 DEF With

\* A step that mutates nothing, and keeps what is performed or adds to it.
LEMMA MutationsKept ==
  ASSUME Walk, Mutations, UNCHANGED <<applied, crashes>>, joins' \in Nat, joins' >= joins,
         Active' => Active,
         Active' => \A j \in Job : Times(Performed, j) <= Times(Performed', j)
  PROVE  Mutations'
<1>1. /\ joins \in Nat /\ crashes \in Nat /\ applied \in [Job -> Nat]
  BY BatchAssumption DEF Walk, Typed
<1>2. ASSUME NEW j \in Job
      PROVE  applied[j] <= 1 + crashes + joins' /\ (Active' => applied[j] <= crashes + Times(Performed', j))
  <2>1. applied[j] \in Nat /\ applied[j] <= 1 + crashes + joins
    BY <1>1 DEF Mutations
  <2>2. ASSUME Active' PROVE applied[j] <= crashes + Times(Performed', j)
    <3>1. /\ applied[j] <= crashes + Times(Performed, j)
          /\ Times(Performed, j) <= Times(Performed', j)
      BY <2>2 DEF Mutations, Active
    <3>2. Times(Performed, j) \in Nat /\ Times(Performed', j) \in Nat
      BY TimesType
    <3> QED BY <1>1, <2>1, <3>1, <3>2
  <2>3. applied[j] <= 1 + crashes + joins'
    BY <1>1, <2>1
  <2> QED BY <2>2, <2>3
<1> QED BY <1>2 DEF Mutations, Active

LEMMA MutationsInit == Init => Mutations
<1> SUFFICES ASSUME Init, NEW j \in Job
             PROVE  applied[j] <= crashes + Times(Performed, j) /\ applied[j] <= 1 + crashes + joins
  BY DEF Mutations
<1>1. applied[j] = 0 /\ crashes = 0 /\ joins = 0
  BY DEF Init
<1>2. Times(Performed, j) \in Nat
  BY TimesType
<1> QED BY <1>1, <1>2

\* The mutation of a job belongs to the chunk; the chunk is accounted for.
LEMMA RunJobMutations == Walk /\ Books /\ Mutations /\ RunJob => Mutations'
<1> SUFFICES ASSUME Walk, Books, Mutations, RunJob PROVE Mutations'
  OBVIOUS
<1>1. At("feeding") /\ UNCHANGED <<op, verdict, crashes, joins>>
  BY DEF RunJob, filter
<1>2. PICK s \in feeder.left : /\ applied' = [applied EXCEPT ![JobAt(s)] = @ + 1]
                               /\ feeder' = [feeder EXCEPT !.left = @ \ {s}]
  BY LeastLeft
<1>3. /\ feeder.left \subseteq feeder.todo /\ feeder # None /\ feeder \in Chunks
      /\ \A t \in feeder.todo : /\ t \in Seqs /\ AtSeq(feeder, t) \in Job /\ verdict[t] = None
                                /\ JobAt(t) = AtSeq(feeder, t)
      /\ \A t \in Seqs : Performed[t] = IF t \in feeder.todo \ feeder.left
                                        THEN AtSeq(feeder, t) ELSE verdict[t]
      /\ \A t \in Seqs : Prospect[t] = IF t \in feeder.todo THEN AtSeq(feeder, t) ELSE verdict[t]
  BY <1>1, PerformedFacts
<1>4. /\ feeder' \in Chunks /\ feeder'.at = "feeding" /\ feeder'.left = feeder.left \ {s}
      /\ feeder'.todo = feeder.todo /\ \A t : AtSeq(feeder', t) = AtSeq(feeder, t)
  <2>1. /\ feeder' \in Chunks /\ feeder'.at = "feeding" /\ feeder'.left = feeder.left \ {s}
        /\ feeder'.todo = feeder.todo /\ feeder'.spec = feeder.spec /\ feeder'.base = feeder.base
    BY <1>1, <1>2, <1>3 DEF Chunks, At
  <2> QED BY <2>1 DEF AtSeq
<1>5. At("feeding")'
  BY <1>4, NoneIsNoChunk DEF At
<1>6. \A t \in Seqs : Performed'[t] = IF t \in (feeder.todo \ feeder.left) \cup {s}
                                      THEN AtSeq(feeder, t) ELSE verdict[t]
  <2>1. Performed' = With(verdict, feeder', feeder.todo \ (feeder.left \ {s}))
    BY <1>1, <1>4, <1>5 DEF Performed
  <2>2. feeder.todo \ (feeder.left \ {s}) = (feeder.todo \ feeder.left) \cup {s}
    BY <1>2, <1>3
  <2> QED BY <2>1, <2>2, <1>4 DEF With
<1>7. /\ applied \in [Job -> Nat] /\ crashes \in Nat /\ joins \in Nat /\ JobAt(s) \in Job
      /\ s \in Seqs /\ s \in feeder.todo /\ JobAt(s) = AtSeq(feeder, s) /\ verdict[s] = None
  BY <1>2, <1>3, BatchAssumption DEF Walk, Typed
<1>8. ASSUME NEW j \in Job
      PROVE  /\ applied'[j] \in Nat /\ applied'[j] <= crashes + Times(Performed', j)
             /\ Times(Performed', j) <= 1 + joins /\ Times(Performed', j) \in Nat
  <2>1. applied[j] <= crashes + Times(Performed, j) /\ applied[j] \in Nat
    BY <1>3, <1>7 DEF Mutations
  <2>2. Times(Performed, j) \in Nat /\ Times(Performed', j) \in Nat /\ Times(Prospect, j) \in Nat
    BY TimesType
  <2>3. Times(Performed', j) <= 1 + joins
    <3>1. Times(Performed', j) <= Times(Prospect, j)
      <4>1. \A t \in Seqs : verdict[t] = j => t \notin feeder.todo
        BY <1>3, Numbers
      <4>2. \A t \in Seqs : Performed'[t] = j => Prospect[t] = j
        BY <1>3, <1>6, <1>7, <4>1
      <4> QED BY <4>2, TimesGrows
    <3>2. /\ Prospect \in [Seqs -> Job \cup {None}] /\ matching \in SUBSET Job
          /\ Buffered(op, op.next) /\ op.next \in Nat
      BY ProspectFacts DEF Books, Walk, Typed, Buffered
    <3>3. Times(Prospect, j) <= 1 + Cardinality(RepeatsIn(Prospect))
      BY <3>2, TimesRepeats
    <3>4. /\ Repeated(Prospect, matching, op) <= joins /\ Repeated(Prospect, matching, op) \in Nat
          /\ Cardinality(RepeatsIn(Prospect)) \in Nat
          /\ Cardinality(Named(Prospect) \cap Due(Prospect, matching, op)) \in Nat
      <4>1. Job \in SUBSET Job
        OBVIOUS
      <4> QED BY <3>2, <4>1, AccountSets DEF Books, Accounted
    <3>5. Cardinality(RepeatsIn(Prospect)) <= joins
      BY <1>7, <3>4 DEF Repeated
    <3> QED BY <1>7, <2>2, <3>1, <3>3, <3>4, <3>5
  <2>4. CASE j = JobAt(s)
    <3>1. applied'[j] = applied[j] + 1
      BY <1>2, <1>7, <2>4
    <3>2. Performed[s] # j /\ \A t \in Seqs : Performed'[t] = j <=> Performed[t] = j \/ t = s
      <4>1. Performed[s] = None
        BY <1>2, <1>3, <1>7
      <4> QED BY <4>1, <1>3, <1>6, <1>7, <2>4, Numbers
    <3>3. Times(Performed', j) = Times(Performed, j) + 1
      BY <1>7, <3>2, TimesOnce
    <3> QED BY <1>7, <2>1, <2>2, <2>3, <3>1, <3>3
  <2>5. CASE j # JobAt(s)
    <3>1. applied'[j] = applied[j]
      BY <1>2, <1>7, <2>5
    <3>2. Times(Performed, j) <= Times(Performed', j)
      <4>1. \A t \in Seqs : Performed[t] = j => Performed'[t] = j
        BY <1>3, <1>6, <1>7, Numbers
      <4> QED BY <4>1, TimesGrows
    <3> QED BY <1>7, <2>1, <2>2, <2>3, <3>1, <3>2
  <2> QED BY <2>4, <2>5
<1>9. ASSUME NEW j \in Job
      PROVE  applied'[j] <= crashes + Times(Performed', j) /\ applied'[j] <= 1 + crashes + joins
  BY <1>7, <1>8
<1> QED BY <1>1, <1>9 DEF Mutations

\* A crash loses the record of at most one mutation of each job.
LEMMA CrashMutations == Walk /\ Books /\ Mutations /\ Crash => Mutations'
<1> SUFFICES ASSUME Walk, Books, Mutations, Crash PROVE Mutations'
  OBVIOUS
<1>1. /\ feeder # None /\ feeder' = None /\ crashes' = crashes + 1
      /\ UNCHANGED <<op, verdict, applied, joins>>
  BY DEF Crash, tally, filter
<1>2. Performed' = verdict
  BY <1>1 DEF Performed, At
<1>3. /\ applied \in [Job -> Nat] /\ crashes \in Nat /\ joins \in Nat
      /\ verdict \in [Seqs -> Job \cup {None}]
  BY BatchAssumption DEF Walk, Typed
<1>4. ASSUME NEW j \in Job
      PROVE  applied[j] <= crashes + 1 + Times(verdict, j) /\ applied[j] <= 1 + (crashes + 1) + joins
  <2>1. /\ applied[j] \in Nat /\ applied[j] <= crashes + Times(Performed, j)
        /\ applied[j] <= 1 + crashes + joins
    BY <1>1, <1>3 DEF Mutations
  <2>2. Times(Performed, j) \in Nat /\ Times(verdict, j) \in Nat
    BY TimesType
  <2>3. Times(Performed, j) <= Times(verdict, j) + 1
    <3>1. CASE ~ At("feeding")
      BY <3>1, <2>2 DEF Performed
    <3>2. CASE At("feeding")
      <4>1. /\ \A s \in feeder.todo : s \in Seqs /\ verdict[s] = None
            /\ \A s, t \in feeder.todo : AtSeq(feeder, s) = AtSeq(feeder, t) => s = t
            /\ \A s \in Seqs : Performed[s] = IF s \in feeder.todo \ feeder.left
                                              THEN AtSeq(feeder, s) ELSE verdict[s]
        BY <3>2, PerformedFacts
      <4>2. CASE \E s \in feeder.todo \ feeder.left : AtSeq(feeder, s) = j
        <5>1. PICK s \in feeder.todo \ feeder.left : AtSeq(feeder, s) = j
          BY <4>2
        <5>2. s \in Seqs /\ verdict[s] # j
          BY <4>1, Numbers
        <5>3. \A t \in Seqs : Performed[t] = j <=> verdict[t] = j \/ t = s
          BY <4>1, <5>1, <5>2, Numbers
        <5>4. Times(Performed, j) = Times(verdict, j) + 1
          BY <5>2, <5>3, TimesOnce
        <5> QED BY <2>2, <5>4
      <4>3. CASE ~ \E s \in feeder.todo \ feeder.left : AtSeq(feeder, s) = j
        <5>1. \A t \in Seqs : Performed[t] = j => verdict[t] = j
          BY <4>1, <4>3
        <5>2. Times(Performed, j) <= Times(verdict, j)
          BY <5>1, TimesGrows
        <5> QED BY <2>2, <5>2
      <4> QED BY <4>2, <4>3
    <3> QED BY <3>1, <3>2
  <2> QED BY <1>3, <2>1, <2>2, <2>3
<1> QED BY <1>1, <1>2, <1>4 DEF Mutations

LEMMA QuietMutations == Walk /\ Books /\ Mutations /\ Quiet => Mutations'
<1> SUFFICES ASSUME Walk, Books, Mutations, Quiet PROVE Mutations'
  OBVIOUS
<1>1. /\ UNCHANGED <<applied, crashes, verdict>> /\ joins' = joins /\ joins \in Nat
  BY BatchAssumption DEF Quiet, filter, Walk, Typed
<1>2. \A j : Times(verdict, j) <= Times(verdict, j)
  BY TimesType
<1>3. CASE /\ At("feeding") /\ At("feeding")'
           /\ feeder'.spec = feeder.spec /\ feeder'.base = feeder.base
           /\ feeder'.todo = feeder.todo /\ feeder'.left \subseteq feeder.left
  <2>1. /\ \A s \in feeder.todo : s \in Seqs /\ verdict[s] = None
        /\ \A s \in Seqs : Performed[s] = IF s \in feeder.todo \ feeder.left
                                          THEN AtSeq(feeder, s) ELSE verdict[s]
        /\ feeder # None
    BY <1>3, PerformedFacts
  <2>2. \A s \in Seqs : Performed'[s] = IF s \in feeder.todo \ feeder'.left
                                        THEN AtSeq(feeder, s) ELSE verdict[s]
    <3>1. Performed' = With(verdict, feeder', feeder.todo \ feeder'.left)
      BY <1>1, <1>3 DEF Performed
    <3>2. \A s : AtSeq(feeder', s) = AtSeq(feeder, s)
      BY <1>3 DEF AtSeq
    <3> QED BY <3>1, <3>2 DEF With
  <2>3. ASSUME NEW j \in Job PROVE Times(Performed, j) <= Times(Performed', j)
    <3>1. \A s \in Seqs : Performed[s] = j => Performed'[s] = j
      BY <1>3, <2>1, <2>2, Numbers
    <3> QED BY <3>1, TimesGrows
  <2>4. Active
    BY <2>1 DEF Active
  <2> QED BY <1>1, <2>3, <2>4, MutationsKept
<1>4. CASE ~ At("feeding") /\ ~ At("feeding")' /\ (Active' => Active)
  <2>1. Performed = verdict /\ Performed' = verdict
    BY <1>1, <1>4 DEF Performed
  <2> QED BY <1>1, <1>2, <1>4, <2>1, MutationsKept
<1>5. CASE ~ Active'
  <2>1. /\ applied \in [Job -> Nat]
    BY DEF Walk, Typed
  <2> QED BY <1>1, <1>5, MutationsKept
<1> QED BY <1>3, <1>4, <1>5 DEF Quiet

LEMMA MutationsStep == Walk /\ Books /\ Mutations /\ [Next]_vars => Mutations'
<1> SUFFICES ASSUME Walk, Books, Mutations, [Next]_vars PROVE Mutations'
  OBVIOUS
<1>1. joins \in Nat /\ joins >= joins /\ verdict \in [Seqs -> Job \cup {None}]
  BY BatchAssumption DEF Walk, Typed
<1>2. \A v, j : Times(v, j) <= Times(v, j)
  BY TimesType
<1>3. CASE Claim
  <2>1. /\ Active /\ UNCHANGED <<verdict, applied, crashes, joins>>
        /\ feeder = None /\ feeder'.at = "claimed"
    BY <1>3 DEF Claim, Active, Terminal, tally, filter
  <2>2. Performed = verdict /\ Performed' = verdict
    BY <2>1 DEF Performed, At
  <2> QED BY <1>1, <1>2, <2>1, <2>2, MutationsKept
<1>4. CASE Load
  <2>1. /\ Active /\ UNCHANGED <<verdict, applied, crashes, joins>>
        /\ ~ At("feeding")
    BY <1>4 DEF Load, Active, At, tally, filter
  <2>2. feeder'.todo = feeder'.left
    <3>1. PICK chunk \in Chunks : chunk = Loaded(feeder.start)
      BY <1>4, LoadedFacts DEF Load, At
    <3>2. feeder' = [chunk EXCEPT !.at = "feeding", !.todo = Undone(chunk), !.left = Undone(chunk)]
      BY <1>4, <3>1 DEF Load
    <3> QED BY <3>1, <3>2 DEF Chunks
  <2>3. Performed = verdict
    BY <2>1 DEF Performed
  <2>4. \A s \in Seqs : Performed'[s] = verdict[s]
    BY <2>1, <2>2 DEF Performed, With
  <2>5. ASSUME NEW j \in Job PROVE Times(Performed, j) <= Times(Performed', j)
    BY <2>3, <2>4, TimesGrows
  <2> QED BY <1>1, <2>1, <2>5, MutationsKept
<1>5. CASE RunJob
  BY <1>5, RunJobMutations
<1>6. CASE Record
  <2>1. /\ At("feeding") /\ feeder.left = {} /\ UNCHANGED <<applied, crashes, joins>>
        /\ verdict' = [s \in Seqs |-> IF s \in feeder.todo THEN JobAt(s) ELSE verdict[s]]
        /\ feeder' = [feeder EXCEPT !.at = "recorded"]
    BY <1>6 DEF Record, filter
  <2>2. feeder # None /\ feeder \in Chunks
    BY <2>1, Held DEF At
  <2>3. Active /\ ~ At("feeding")'
    BY <2>1, <2>2 DEF Active, At, Chunks
  <2>4. \A s \in Seqs : Performed[s] = verdict'[s]
    BY <2>1 DEF Performed, With, JobAt, AtSeq
  <2>5. Performed' = verdict'
    BY <2>3 DEF Performed
  <2>6. ASSUME NEW j \in Job PROVE Times(Performed, j) <= Times(Performed', j)
    BY <2>4, <2>5, TimesGrows
  <2> QED BY <1>1, <2>1, <2>3, <2>6, MutationsKept
<1>7. CASE Crash
  BY <1>7, CrashMutations
<1>8. CASE \E j \in Job : LeaveFilter(j) \/ JoinFilter(j)
  <2>1. /\ UNCHANGED <<op, verdict, applied, crashes, feeder>> /\ joins' \in {joins, joins + 1}
    BY <1>8 DEF LeaveFilter, JoinFilter, tally
  <2>2. Performed' = Performed /\ (Active' => Active)
    BY <2>1 DEF Performed, At, Active
  <2>3. joins' \in Nat /\ joins' >= joins
    BY <1>1, <2>1
  <2> QED BY <1>2, <2>1, <2>2, <2>3, MutationsKept
<1>9. CASE Quiet
  BY <1>9, QuietMutations
<1>10. CASE Stores
  <2>1. /\ Active /\ ~ At("feeding") /\ ~ At("feeding")'
        /\ UNCHANGED <<verdict, applied, crashes, joins>>
    BY <1>10 DEF Stores, Active, At, filter
  <2>2. Performed = verdict /\ Performed' = verdict
    BY <2>1 DEF Performed
  <2> QED BY <1>1, <1>2, <2>1, <2>2, MutationsKept
<1> QED BY <1>3, <1>4, <1>5, <1>6, <1>7, <1>8, <1>9, <1>10, StreamSteps

-----------------------------------------------------------------------------
(* What the accounts come to.                                              *)

BatchInv == Walk /\ Books /\ Mutations

LEMMA BatchInvHolds == Spec => []BatchInv
<1>1. Init => BatchInv
  BY WalkInit, BooksInit, MutationsInit DEF BatchInv
<1>2. BatchInv /\ [Next]_vars => BatchInv'
  BY WalkStep, BooksStep, MutationsStep DEF BatchInv
<1> QED BY <1>1, <1>2, PTL DEF Spec

\* The sizes of the accounts of the stored buffer.
LEMMA AccountsOfRow ==
  ASSUME Walk, Books
  PROVE  /\ joins \in Nat /\ Leaves \in Int
         /\ Cardinality(RepeatsIn(verdict)) \in Nat /\ Cardinality(RepeatsIn(verdict)) <= joins
         /\ Cardinality(selected \ (Named(verdict) \cup Due(verdict, matching, op))) <= Leaves
<1>1. /\ verdict \in [Seqs -> Job \cup {None}] /\ matching \in SUBSET Job /\ selected \in SUBSET Job
      /\ Buffered(op, op.next) /\ op.next \in Nat /\ joins \in Nat
  BY BatchAssumption DEF Walk, Typed, Buffered
<1>2. /\ Repeated(verdict, matching, op) <= joins
      /\ Skipped(verdict, matching, op, selected) <= Leaves
  BY DEF Books, Accounted
<1>3. /\ Cardinality(RepeatsIn(verdict)) \in Nat
      /\ Cardinality(Named(verdict) \cap Due(verdict, matching, op)) \in Nat
  BY <1>1, AccountSets
<1>4. Leaves \in Int
  BY <1>1, JobSets DEF Leaves
<1>5. Cardinality(RepeatsIn(verdict)) <= joins
  BY <1>1, <1>2, <1>3 DEF Repeated
<1> QED BY <1>1, <1>2, <1>3, <1>4, <1>5 DEF Skipped

\* A recorded position is not executed again; a job is mutated twice only by
\* the crashes between mutation and record and by the jobs that flipped into
\* the filter, one for one.
THEOREM RepeatsAreAccountedHolds == Spec => []RepeatsAreAccounted
<1>1. BatchInv => RepeatsAreAccounted
  <2> SUFFICES ASSUME BatchInv PROVE RepeatsAreAccounted
    OBVIOUS
  <2>1. Cardinality(RepeatsIn(verdict)) <= joins
    BY AccountsOfRow DEF BatchInv
  <2>2. Repeats = RepeatsIn(verdict)
    BY DEF Repeats, RepeatsIn
  <2> QED BY <2>1, <2>2 DEF RepeatsAreAccounted, BatchInv, Mutations
<1> QED BY <1>1, BatchInvHolds, PTL

\* A completed operation has passed over at most one job of the selection for
\* each time a job left the filter, however often a page was fetched again.
THEOREM SkipsAreBoundedHolds == Spec => []SkipsAreBounded
<1>1. BatchInv => SkipsAreBounded
  <2> SUFFICES ASSUME BatchInv, op.status = "completed"
               PROVE  Cardinality({j \in selected : \A s \in Seqs : verdict[s] # j}) <= Leaves
    BY DEF SkipsAreBounded
  <2>1. /\ Walk /\ Books /\ Buffered(op, op.next) /\ op.next \in Nat /\ Recorded(op.next)
        /\ op.spec.cursor = None /\ op.next = Total(op)
        /\ matching \in SUBSET Job /\ selected \in SUBSET Job
    BY DEF BatchInv, Walk, Typed, CompletedIsRecorded, Buffered
  <2>2. Due(verdict, matching, op) = {}
    <3> SUFFICES ASSUME NEW j \in Stream(op, matching)
                 PROVE  ~ Blank(verdict, Position(op, matching, j))
      BY DEF Due
    <3>1. PICK p \in 1..Len(op.spec.ids) : j = op.spec.ids[p]
      BY <2>1 DEF Stream
    <3>2. Position(op, matching, j) = op.base + p - 1
      BY <2>1, <3>1, PositionInBuffer
    <3>3. /\ op.base \in Nat /\ op.spec.ids \in Seq(Job) /\ Len(op.spec.ids) \in Nat
          /\ Total(op) = op.base + Len(op.spec.ids) /\ Total(op) <= BoundOf(op)
          /\ op.spec.cursor \in Job \cup {None}
      BY <2>1 DEF Buffered, PageOfJobs, Total
    <3>4. BoundOf(op) \in Nat /\ BoundOf(op) <= Jobs
      BY <3>3, Numbers DEF BoundOf, Reach
    <3>5. p \in Nat /\ 1 <= p /\ p <= Len(op.spec.ids)
      BY <3>3
    <3>6. op.base + p - 1 \in 0..(op.next - 1)
      BY <2>1, <3>3, <3>5
    <3>7. op.base + p - 1 \in Seqs
      BY <3>3, <3>4, <3>5, Numbers DEF Seqs
    <3> QED BY <2>1, <3>2, <3>6, <3>7 DEF Recorded, Blank
  <2>3. {j \in selected : \A s \in Seqs : verdict[s] # j} =
          selected \ (Named(verdict) \cup Due(verdict, matching, op))
    BY <2>1, <2>2 DEF Named
  <2> QED BY <2>1, <2>3, AccountsOfRow
<1> QED BY <1>1, BatchInvHolds, PTL
=============================================================================
