---------------------------- MODULE BranchProofs ----------------------------
(***************************************************************************)
(* What BranchScheduling promises for every workflow and any number of     *)
(* reruns: the reset closures are least fixed points, a completed node     *)
(* rests on the bytes its inputs have, a job that is not read again has    *)
(* its ready nodes in the cache, a verdict is the one that the final files *)
(* give, and a job hangs in the named ways only.  The graph algorithms are *)
(* functions by recursion on a count, so induction comes first, in a form  *)
(* that takes sets and no predicates.                                      *)
(***************************************************************************)
EXTENDS BranchScheduling, FiniteSetTheorems, TLAPS

-----------------------------------------------------------------------------
(* Induction and recursion up to a number.                                 *)

\* A set of numbers up to N has a least member.
LEMMA LeastInInterval ==
  ASSUME NEW N \in Nat, NEW B \in SUBSET (0..N), B # {}
  PROVE  \E m \in B : \A y \in B : y >= m
<1> DEFINE I == 0..N
           T == {0..k : k \in B}
           R == StrictSubsetOrdering(I)
<1>1. IsFiniteSet(I)
  BY FS_Interval
<1>2. IsWellFoundedOn(R, SUBSET I)
  BY <1>1, FS_FiniteSubsetsOfFinite, FS_StrictSubsetOrderingWellFounded
<1>3. T \subseteq SUBSET I /\ T # {}
  <2>1. \A k \in B : 0..k \subseteq I
    OBVIOUS
  <2>2. PICK k \in B : TRUE
    OBVIOUS
  <2>3. 0..k \in T
    OBVIOUS
  <2>4. ASSUME NEW u \in T PROVE u \in SUBSET I
    <3>1. PICK j \in B : u = 0..j
      OBVIOUS
    <3> QED BY <3>1, <2>1
  <2> QED BY <2>3, <2>4
<1> HIDE DEF I, R
<1>4. PICK t \in T : \A u \in T : ~ (<<u, t>> \in R)
  <2> HIDE DEF T
  <2> QED BY <1>2, <1>3, WFMin
<1>5. PICK m \in B : t = 0..m
  BY <1>4
<1>6. ASSUME NEW y \in B, y < m PROVE FALSE
  <2>1. 0..y \in T
    OBVIOUS
  <2>2. 0..y \subseteq 0..m /\ 0..y # 0..m
    <3>1. m \in 0..m /\ m \notin 0..y
      BY <1>6
    <3> QED BY <3>1, <1>6
  <2>3. <<0..y, t>> \in R
    BY <2>1, <2>2, <1>3, <1>5, <1>4 DEF R, StrictSubsetOrdering
  <2> QED BY <2>1, <2>3, <1>4
<1> QED BY <1>6

\* Induction up to N, with a set in the place of the predicate.
LEMMA BoundedInduction ==
  ASSUME NEW N \in Nat, NEW A, 0 \in A,
         \A k \in 0..N-1 : k \in A => k+1 \in A
  PROVE  0..N \subseteq A
<1> DEFINE B == {k \in 0..N : k \notin A}
<1>1. SUFFICES ASSUME B # {} PROVE FALSE
  OBVIOUS
<1>2. PICK m \in B : \A y \in B : y >= m
  BY <1>1, LeastInInterval
<1>3. m - 1 \in 0..N-1 /\ m - 1 \notin B
  BY <1>2
<1> QED BY <1>3

\* A function defined by primitive recursion up to N exists.
LEMMA Recursion ==
  ASSUME NEW N \in Nat, NEW V, NEW b \in V, NEW G \in [V -> V]
  PROVE  \E f \in [0..N -> V] : f[0] = b /\ \A k \in 1..N : f[k] = G[f[k-1]]
<1> DEFINE Upto(f, k) == f[0] = b /\ \A j \in 1..k : f[j] = G[f[j-1]]
           A == {k \in 0..N : \E f \in [0..N -> V] : Upto(f, k)}
<1>1. 0 \in A
  <2>1. [j \in 0..N |-> b] \in [0..N -> V] /\ Upto([j \in 0..N |-> b], 0)
    OBVIOUS
  <2>2. 0 \in 0..N
    OBVIOUS
  <2> HIDE DEF Upto
  <2> QED BY <2>1, <2>2
<1>2. ASSUME NEW k \in 0..N-1, k \in A PROVE k+1 \in A
  <2>1. PICK f \in [0..N -> V] : Upto(f, k)
    BY <1>2
  <2> DEFINE g == [f EXCEPT ![k+1] = G[f[k]]]
  <2>2. g \in [0..N -> V]
    OBVIOUS
  <2>3. g[0] = b /\ g[k+1] = G[f[k]] /\ \A j \in 0..k : g[j] = f[j]
    BY <2>1
  <2>4. ASSUME NEW j \in 1..(k+1) PROVE g[j] = G[g[j-1]]
    <3>1. CASE j = k+1
      BY <3>1, <2>3
    <3>2. CASE j \in 1..k
      <4>1. j \in 0..k /\ j-1 \in 0..k
        BY <3>2
      <4> QED BY <3>2, <4>1, <2>3, <2>1
    <3> QED BY <3>1, <3>2
  <2>5. Upto(g, k+1)
    BY <2>3, <2>4
  <2> HIDE DEF g, Upto
  <2> QED BY <2>2, <2>5
<1>3. N \in 0..N
  OBVIOUS
<1> HIDE DEF A
<1>4. N \in A
  BY <1>1, <1>2, <1>3, BoundedInduction
<1> QED BY <1>4 DEF A

-----------------------------------------------------------------------------
(* walk_downstream is the least set with the successors of S that its own  *)
(* successors do not leave.                                                *)

SuccClosed(R, T) == Successors(R, T) \subseteq T

\* The rounds of walk_downstream.
WalkRounds(R, S, f) ==
  f = [k \in 0..Cardinality(Node) |-> IF k = 0 THEN Successors(R, S) ELSE f[k-1] \cup Successors(R, f[k-1])]

\* A function of the rounds of walk_downstream exists.
LEMMA WalkRoundsExist ==
  ASSUME NEW R, NEW S
  PROVE  \E f : WalkRounds(R, S, f)
<1> DEFINE N == Cardinality(Node)
           b == Successors(R, S)
           V == SUBSET Node
           G == [T \in V |-> T \cup Successors(R, T)]
<1>1. N \in Nat
  BY GraphAssumption, FS_CardinalityType
<1>2. b \in V /\ G \in [V -> V]
  BY DEF Successors
<1>3. PICK f \in [0..N -> V] : f[0] = b /\ \A k \in 1..N : f[k] = G[f[k-1]]
  <2>1. \A NN \in Nat : \A VV : \A bb \in VV, GG \in [VV -> VV] :
          \E f \in [0..NN -> VV] : f[0] = bb /\ \A k \in 1..NN : f[k] = GG[f[k-1]]
    BY Recursion
  <2>2. N \in Nat /\ b \in V /\ G \in [V -> V]
    BY <1>1, <1>2
  <2> HIDE DEF N, b, G, V
  <2> QED BY <2>1, <2>2, SMTT(60)
<1>4. ASSUME NEW k \in 1..N PROVE f[k] = f[k-1] \cup Successors(R, f[k-1])
  <2>1. k-1 \in 0..N
    BY <1>1
  <2> QED BY <1>3, <2>1
<1>5. WalkRounds(R, S, f)
  <2>1. f = [k \in 0..N |-> f[k]]
    OBVIOUS
  <2>2. \A k \in 0..N : f[k] = IF k = 0 THEN Successors(R, S) ELSE f[k-1] \cup Successors(R, f[k-1])
    BY <1>1, <1>3, <1>4
  <2> HIDE DEF N
  <2> QED BY <2>1, <2>2 DEF WalkRounds, N
<1> QED BY <1>5

\* walk_downstream is the last of its rounds.
LEMMA WalkIsLastRound ==
  ASSUME NEW R, NEW S
  PROVE  \E f : WalkRounds(R, S, f) /\ walk_downstream(R, S) = f[Cardinality(Node)]
<1> DEFINE f == CHOOSE g : WalkRounds(R, S, g)
<1>1. WalkRounds(R, S, f)
  BY WalkRoundsExist
<1>2. walk_downstream(R, S) = f[Cardinality(Node)]
  BY DEF walk_downstream, WalkRounds
<1> QED BY <1>1, <1>2

\* The rounds one by one.
LEMMA WalkRoundStep ==
  ASSUME NEW R, NEW S, NEW f, WalkRounds(R, S, f)
  PROVE  /\ Cardinality(Node) \in Nat
         /\ f[0] = Successors(R, S)
         /\ \A k \in 0..Cardinality(Node)-1 : f[k+1] = f[k] \cup Successors(R, f[k])
<1> DEFINE N == Cardinality(Node)
<1>1. N \in Nat
  BY GraphAssumption, FS_CardinalityType
<1> HIDE DEF N
<1>2. f = [k \in 0..N |-> IF k = 0 THEN Successors(R, S) ELSE f[k-1] \cup Successors(R, f[k-1])]
  BY DEF WalkRounds, N
<1>3. f[0] = Successors(R, S)
  <2>1. 0 \in 0..N
    BY <1>1
  <2> QED BY <1>2, <2>1
<1>4. ASSUME NEW k \in 0..N-1 PROVE f[k+1] = f[k] \cup Successors(R, f[k])
  <2>1. k+1 \in 0..N /\ k+1 # 0 /\ (k+1)-1 = k
    BY <1>1
  <2> QED BY <1>2, <2>1
<1> QED BY <1>1, <1>3, <1>4 DEF N

\* A set that grows by something it did not have has a member more.
LEMMA GrowthCounts ==
  ASSUME NEW T \in SUBSET Node, NEW U \in SUBSET Node, T \subseteq U, T # U
  PROVE  Cardinality(T) \in Nat /\ Cardinality(U) \in Nat /\ Cardinality(U) > Cardinality(T)
<1>1. IsFiniteSet(U)
  BY GraphAssumption, FS_Subset
<1>2. IsFiniteSet(T) /\ Cardinality(T) <= Cardinality(U) /\ (Cardinality(U) = Cardinality(T) => U = T)
  BY <1>1, FS_Subset
<1> QED BY <1>1, <1>2, FS_CardinalityType

\* walk_downstream has the successors of S and is closed: after as many rounds
\* as there are nodes nothing can be new.
LEMMA WalkIsClosed ==
  ASSUME NEW R, NEW S
  PROVE  /\ walk_downstream(R, S) \subseteq Node
         /\ Successors(R, S) \subseteq walk_downstream(R, S)
         /\ Successors(R, walk_downstream(R, S)) \subseteq walk_downstream(R, S)
<1> DEFINE N == Cardinality(Node)
<1>1. PICK f : WalkRounds(R, S, f) /\ walk_downstream(R, S) = f[N]
  BY WalkIsLastRound
<1>2. /\ N \in Nat /\ f[0] = Successors(R, S)
      /\ \A k \in 0..N-1 : f[k+1] = f[k] \cup Successors(R, f[k])
  BY <1>1, WalkRoundStep
<1>3. \A T : Successors(R, T) \subseteq Node
  BY DEF Successors
<1> DEFINE Good(T, k) == /\ T \subseteq Node /\ Successors(R, S) \subseteq T
                         /\ Successors(R, T) \subseteq T \/ Cardinality(T) >= k
           A == {k \in 0..N : Good(f[k], k)}
<1> HIDE DEF N
<1>4. 0 \in A
  <2>1. IsFiniteSet(f[0])
    BY <1>2, <1>3, GraphAssumption, FS_Subset
  <2>2. Cardinality(f[0]) >= 0
    BY <2>1, FS_CardinalityType
  <2> QED BY <1>2, <1>3, <2>2
<1>5. ASSUME NEW k \in 0..N-1, k \in A PROVE k+1 \in A
  <2>1. /\ f[k] \subseteq Node /\ Successors(R, S) \subseteq f[k]
        /\ Successors(R, f[k]) \subseteq f[k] \/ Cardinality(f[k]) >= k
    BY <1>5
  <2>2. f[k+1] = f[k] \cup Successors(R, f[k]) /\ f[k+1] \subseteq Node
    BY <1>2, <1>3, <2>1
  <2>3. k+1 \in 0..N
    BY <1>2
  <2>4. Successors(R, f[k+1]) \subseteq f[k+1] \/ Cardinality(f[k+1]) >= k+1
    <3>1. CASE Successors(R, f[k]) \subseteq f[k]
      <4>1. f[k+1] = f[k]
        BY <3>1, <2>2
      <4> QED BY <3>1, <4>1
    <3>2. CASE ~ (Successors(R, f[k]) \subseteq f[k])
      <4>1. f[k] \subseteq f[k+1] /\ f[k] # f[k+1]
        BY <3>2, <2>2
      <4>2. /\ Cardinality(f[k]) \in Nat /\ Cardinality(f[k+1]) \in Nat
            /\ Cardinality(f[k+1]) > Cardinality(f[k])
        BY <4>1, <2>1, <2>2, GrowthCounts
      <4>3. Cardinality(f[k]) >= k /\ k \in Nat
        BY <3>2, <2>1, <1>2
      <4> QED BY <4>2, <4>3
    <3> QED BY <3>1, <3>2
  <2>5. Good(f[k+1], k+1)
    BY <2>1, <2>2, <2>4
  <2> HIDE DEF Good
  <2> QED BY <2>3, <2>5
<1>6. N \in A
  <2> HIDE DEF A
  <2>1. 0..N \subseteq A
    BY <1>2, <1>4, <1>5, BoundedInduction
  <2> QED BY <1>2, <2>1
<1>7. Good(f[N], N)
  BY <1>6
<1>8. Successors(R, f[N]) \subseteq f[N]
  <2>1. CASE Cardinality(f[N]) >= N
    <3>1. ASSUME f[N] # Node PROVE FALSE
      <4>1. Cardinality(f[N]) \in Nat /\ Cardinality(Node) \in Nat /\ Cardinality(Node) > Cardinality(f[N])
        BY <3>1, <1>7, GrowthCounts
      <4> QED BY <4>1, <2>1, <1>2 DEF N
    <3> QED BY <3>1, <1>3
  <2> QED BY <2>1, <1>7
<1> QED BY <1>1, <1>7, <1>8

\* Nothing less is closed.
LEMMA WalkIsLeast ==
  ASSUME NEW R, NEW S, NEW T, Successors(R, S) \subseteq T, Successors(R, T) \subseteq T
  PROVE  walk_downstream(R, S) \subseteq T
<1> DEFINE N == Cardinality(Node)
<1>1. PICK f : WalkRounds(R, S, f) /\ walk_downstream(R, S) = f[N]
  BY WalkIsLastRound
<1>2. /\ N \in Nat /\ f[0] = Successors(R, S)
      /\ \A k \in 0..N-1 : f[k+1] = f[k] \cup Successors(R, f[k])
  BY <1>1, WalkRoundStep
<1> DEFINE A == {k \in 0..N : f[k] \subseteq T}
<1> HIDE DEF N
<1>3. 0 \in A
  BY <1>2
<1>4. ASSUME NEW k \in 0..N-1, k \in A PROVE k+1 \in A
  <2>1. Successors(R, f[k]) \subseteq Successors(R, T)
    BY <1>4 DEF Successors
  <2>2. k+1 \in 0..N
    BY <1>2
  <2> QED BY <1>2, <1>4, <2>1, <2>2
<1>5. N \in A
  <2> HIDE DEF A
  <2>1. 0..N \subseteq A
    BY <1>2, <1>3, <1>4, BoundedInduction
  <2> QED BY <1>2, <2>1
<1> QED BY <1>1, <1>5
-----------------------------------------------------------------------------
(* rerun_reset_closure is the least set with the node that neither the     *)
(* dependents nor the co-producers of its members leave.                   *)

\* The rounds of shared_name_expanded_reset.
SharedRounds(d, S, f) ==
  f = [k \in 0..Cardinality(Node) |-> IF k = 0 THEN S ELSE SharedRound(d, f[k-1])]

\* A round stays among the nodes and loses nothing.
LEMMA SharedRoundType ==
  ASSUME NEW d, NEW T \in SUBSET Node
  PROVE  SharedRound(d, T) \in SUBSET Node /\ T \subseteq SharedRound(d, T)
<1>1. SharingProducers(d, T) \subseteq Node
  BY DEF SharingProducers
<1> QED BY <1>1, WalkIsClosed DEF SharedRound

\* A function of the rounds of shared_name_expanded_reset exists.
LEMMA SharedRoundsExist ==
  ASSUME NEW d, NEW S \in SUBSET Node
  PROVE  \E f : SharedRounds(d, S, f)
<1> DEFINE N == Cardinality(Node)
           V == SUBSET Node
           G == [T \in V |-> SharedRound(d, T)]
<1>1. N \in Nat
  BY GraphAssumption, FS_CardinalityType
<1>2. S \in V /\ G \in [V -> V]
  BY SharedRoundType
<1>3. PICK f \in [0..N -> V] : f[0] = S /\ \A k \in 1..N : f[k] = G[f[k-1]]
  <2>1. \A NN \in Nat : \A VV : \A bb \in VV, GG \in [VV -> VV] :
          \E f \in [0..NN -> VV] : f[0] = bb /\ \A k \in 1..NN : f[k] = GG[f[k-1]]
    BY Recursion
  <2>2. N \in Nat /\ S \in V /\ G \in [V -> V]
    BY <1>1, <1>2
  <2> HIDE DEF N, G, V
  <2> QED BY <2>1, <2>2, SMTT(60)
<1>4. ASSUME NEW k \in 1..N PROVE f[k] = SharedRound(d, f[k-1])
  <2>1. k-1 \in 0..N
    BY <1>1
  <2> QED BY <1>3, <2>1
<1>5. SharedRounds(d, S, f)
  <2>1. f = [k \in 0..N |-> f[k]]
    OBVIOUS
  <2>2. \A k \in 0..N : f[k] = IF k = 0 THEN S ELSE SharedRound(d, f[k-1])
    BY <1>1, <1>3, <1>4
  <2> HIDE DEF N
  <2> QED BY <2>1, <2>2 DEF SharedRounds, N
<1> QED BY <1>5

\* shared_name_expanded_reset is the last of its rounds.
LEMMA SharedIsLastRound ==
  ASSUME NEW d, NEW S \in SUBSET Node
  PROVE  \E f : SharedRounds(d, S, f) /\ shared_name_expanded_reset(d, S) = f[Cardinality(Node)]
<1> DEFINE f == CHOOSE g : SharedRounds(d, S, g)
<1>1. SharedRounds(d, S, f)
  BY SharedRoundsExist
<1>2. shared_name_expanded_reset(d, S) = f[Cardinality(Node)]
  BY DEF shared_name_expanded_reset, SharedRounds
<1> QED BY <1>1, <1>2

\* The rounds one by one.
LEMMA SharedRoundStep ==
  ASSUME NEW d, NEW S, NEW f, SharedRounds(d, S, f)
  PROVE  /\ Cardinality(Node) \in Nat
         /\ f[0] = S
         /\ \A k \in 0..Cardinality(Node)-1 : f[k+1] = SharedRound(d, f[k])
<1> DEFINE N == Cardinality(Node)
<1>1. N \in Nat
  BY GraphAssumption, FS_CardinalityType
<1> HIDE DEF N
<1>2. f = [k \in 0..N |-> IF k = 0 THEN S ELSE SharedRound(d, f[k-1])]
  BY DEF SharedRounds, N
<1>3. f[0] = S
  <2>1. 0 \in 0..N
    BY <1>1
  <2> QED BY <1>2, <2>1
<1>4. ASSUME NEW k \in 0..N-1 PROVE f[k+1] = SharedRound(d, f[k])
  <2>1. k+1 \in 0..N /\ k+1 # 0 /\ (k+1)-1 = k
    BY <1>1
  <2> QED BY <1>2, <2>1
<1> QED BY <1>1, <1>3, <1>4 DEF N

\* A round from a set that its dependents do not leave gives another one.
LEMMA SharedRoundCloses ==
  ASSUME NEW d, NEW T, Successors(dependency_children(d), T) \subseteq T
  PROVE  LET U == SharedRound(d, T)
         IN  /\ Successors(dependency_children(d), U) \subseteq U
             /\ SharingProducers(d, T) \subseteq T => U = T
<1> DEFINE R == dependency_children(d)
           P == SharingProducers(d, T)
           W == walk_downstream(R, P \ T)
<1>1. SharedRound(d, T) = T \cup P \cup W
  BY DEF SharedRound
<1>2. Successors(R, P \ T) \subseteq W /\ Successors(R, W) \subseteq W
  BY WalkIsClosed
<1>3. Successors(R, T \cup P \cup W) \subseteq Successors(R, T) \cup Successors(R, P \ T) \cup Successors(R, W)
  BY DEF Successors
<1>4. ASSUME P \subseteq T PROVE W = {}
  <2>1. P \ T = {} /\ Successors(R, {}) = {}
    BY <1>4 DEF Successors
  <2>2. W \subseteq {}
    BY <2>1, WalkIsLeast
  <2> QED BY <2>2
<1> QED BY <1>1, <1>2, <1>3, <1>4

\* The reset of S, for an S that its dependents do not leave, is closed both
\* ways: after as many rounds as there are nodes nothing can be new.
LEMMA SharedIsClosed ==
  ASSUME NEW d, NEW S \in SUBSET Node, Successors(dependency_children(d), S) \subseteq S
  PROVE  LET F == shared_name_expanded_reset(d, S)
         IN  /\ S \subseteq F /\ F \subseteq Node
             /\ Successors(dependency_children(d), F) \subseteq F
             /\ SharingProducers(d, F) \subseteq F
<1> DEFINE N == Cardinality(Node)
           R == dependency_children(d)
<1>1. PICK f : SharedRounds(d, S, f) /\ shared_name_expanded_reset(d, S) = f[N]
  BY SharedIsLastRound
<1>2. /\ N \in Nat /\ f[0] = S
      /\ \A k \in 0..N-1 : f[k+1] = SharedRound(d, f[k])
  BY <1>1, SharedRoundStep
<1> DEFINE Good(T, k) == /\ T \subseteq Node /\ S \subseteq T /\ Successors(R, T) \subseteq T
                         /\ SharingProducers(d, T) \subseteq T \/ Cardinality(T) >= k
           A == {k \in 0..N : Good(f[k], k)}
<1> HIDE DEF N
<1>4. 0 \in A
  <2>1. IsFiniteSet(S)
    BY GraphAssumption, FS_Subset
  <2>2. Cardinality(S) >= 0
    BY <2>1, FS_CardinalityType
  <2> QED BY <1>2, <2>2
<1>5. ASSUME NEW k \in 0..N-1, k \in A PROVE k+1 \in A
  <2> DEFINE T == f[k]
             U == f[k+1]
  <2>1. Good(T, k)
    BY <1>5
  <2>2. U = SharedRound(d, T) /\ U \subseteq Node /\ T \subseteq U
    BY <1>2, <2>1, SharedRoundType
  <2>3. Successors(R, U) \subseteq U /\ (SharingProducers(d, T) \subseteq T => U = T)
    BY <2>1, <2>2, SharedRoundCloses
  <2>4. k+1 \in 0..N /\ k \in Nat
    BY <1>2
  <2>5. SharingProducers(d, U) \subseteq U \/ Cardinality(U) >= k+1
    <3>1. CASE SharingProducers(d, T) \subseteq T
      BY <3>1, <2>3
    <3>2. CASE ~ (SharingProducers(d, T) \subseteq T)
      <4>1. T # U
        BY <3>2, <2>2 DEF SharedRound
      <4>2. Cardinality(T) \in Nat /\ Cardinality(U) \in Nat /\ Cardinality(U) > Cardinality(T)
        BY <4>1, <2>1, <2>2, GrowthCounts
      <4>3. Cardinality(T) >= k
        BY <3>2, <2>1
      <4> QED BY <4>2, <4>3, <2>4
    <3> QED BY <3>1, <3>2
  <2>6. Good(U, k+1)
    BY <2>1, <2>2, <2>3, <2>5
  <2> HIDE DEF Good
  <2> QED BY <2>4, <2>6
<1>6. N \in A
  <2> HIDE DEF A
  <2>1. 0..N \subseteq A
    BY <1>2, <1>4, <1>5, BoundedInduction
  <2> QED BY <1>2, <2>1
<1>7. Good(f[N], N)
  BY <1>6
<1>8. SharingProducers(d, f[N]) \subseteq f[N]
  <2>1. CASE Cardinality(f[N]) >= N
    <3>1. ASSUME f[N] # Node PROVE FALSE
      <4>1. Cardinality(f[N]) \in Nat /\ Cardinality(Node) \in Nat /\ Cardinality(Node) > Cardinality(f[N])
        BY <3>1, <1>7, GrowthCounts
      <4> QED BY <4>1, <2>1, <1>2 DEF N
    <3>2. SharingProducers(d, f[N]) \subseteq Node
      BY DEF SharingProducers
    <3> QED BY <3>1, <3>2
  <2> QED BY <2>1, <1>7
<1> QED BY <1>1, <1>7, <1>8

\* Nothing less is closed both ways.
LEMMA SharedIsLeast ==
  ASSUME NEW d, NEW S \in SUBSET Node, NEW T, S \subseteq T,
         Successors(dependency_children(d), T) \subseteq T, SharingProducers(d, T) \subseteq T
  PROVE  shared_name_expanded_reset(d, S) \subseteq T
<1> DEFINE N == Cardinality(Node)
           R == dependency_children(d)
<1>1. PICK f : SharedRounds(d, S, f) /\ shared_name_expanded_reset(d, S) = f[N]
  BY SharedIsLastRound
<1>2. /\ N \in Nat /\ f[0] = S
      /\ \A k \in 0..N-1 : f[k+1] = SharedRound(d, f[k])
  BY <1>1, SharedRoundStep
<1> DEFINE A == {k \in 0..N : f[k] \subseteq T}
<1> HIDE DEF N
<1>3. 0 \in A
  BY <1>2
<1>4. ASSUME NEW k \in 0..N-1, k \in A PROVE k+1 \in A
  <2> DEFINE P == SharingProducers(d, f[k])
  <2>1. PureOutputs(d, f[k]) \subseteq PureOutputs(d, T)
    BY <1>4 DEF PureOutputs
  <2>2. P \subseteq T
    BY <2>1 DEF SharingProducers
  <2>3. Successors(R, P \ f[k]) \subseteq Successors(R, T)
    BY <2>2 DEF Successors
  <2>4. walk_downstream(R, P \ f[k]) \subseteq T
    BY <2>3, WalkIsLeast
  <2>5. SharedRound(d, f[k]) \subseteq T
    BY <1>4, <2>2, <2>4 DEF SharedRound
  <2>6. k+1 \in 0..N
    BY <1>2
  <2> QED BY <1>2, <2>5, <2>6
<1>5. N \in A
  <2> HIDE DEF A
  <2>1. 0..N \subseteq A
    BY <1>2, <1>3, <1>4, BoundedInduction
  <2> QED BY <1>2, <2>1
<1> QED BY <1>1, <1>5
\* What rerun_reset_closure is for.
ResetClosed(d, n, S) ==
  /\ n \in S
  /\ Successors(dependency_children(d), S) \subseteq S
  /\ SharingProducers(d, S) \subseteq S

\* A reset has the node, everything that depends on a member and every
\* producer that shares a written name with a member, and nothing else.
LEMMA RerunResetIsLeast ==
  ASSUME NEW d, NEW n \in Node
  PROVE  LET reset == rerun_reset_closure(d, n)
         IN  /\ reset \in SUBSET Node /\ ResetClosed(d, n, reset)
             /\ \A S : ResetClosed(d, n, S) => reset \subseteq S
<1> DEFINE R == dependency_children(d)
           D == {n} \cup dependency_downstream(d, n)
<1>1. rerun_reset_closure(d, n) = shared_name_expanded_reset(d, D)
  BY DEF rerun_reset_closure
<1>2. /\ walk_downstream(R, {n}) \subseteq Node
      /\ Successors(R, {n}) \subseteq walk_downstream(R, {n})
      /\ Successors(R, walk_downstream(R, {n})) \subseteq walk_downstream(R, {n})
  BY WalkIsClosed
<1>3. D = {n} \cup walk_downstream(R, {n})
  BY DEF dependency_downstream
<1>4. D \in SUBSET Node /\ Successors(R, D) \subseteq D
  <2>1. Successors(R, D) \subseteq Successors(R, {n}) \cup Successors(R, walk_downstream(R, {n}))
    BY <1>3 DEF Successors
  <2> QED BY <1>2, <1>3, <2>1
<1>5. ASSUME NEW S, ResetClosed(d, n, S) PROVE rerun_reset_closure(d, n) \subseteq S
  <2>1. Successors(R, {n}) \subseteq S
    BY <1>5 DEF ResetClosed, Successors
  <2>2. D \subseteq S
    BY <1>3, <1>5, <2>1, WalkIsLeast DEF ResetClosed
  <2> HIDE DEF D
  <2> QED BY <1>1, <1>4, <1>5, <2>2, SharedIsLeast DEF ResetClosed
<1>6. n \in D
  OBVIOUS
<1> HIDE DEF D
<1> QED BY <1>1, <1>4, <1>5, <1>6, SharedIsClosed DEF ResetClosed

\* A rerun marks the least closed set with the node, and leaves every other
\* status alone (commit_rerun, rerun_reset_closure).
THEOREM ResetIsLeastHolds == Spec => ResetIsLeast
<1>1. ASSUME NEW n \in Node, Rerun(n) PROVE LeastReset(n)
  <2> DEFINE reset == rerun_reset_closure(def, n)
  <2>1. /\ reset \in SUBSET Node /\ ResetClosed(def, n, reset)
        /\ \A S : ResetClosed(def, n, S) => reset \subseteq S
    BY RerunResetIsLeast
  <2>2. status' = [m \in Node |-> IF m = n THEN "pending"
                                  ELSE IF m \in reset THEN "stale" ELSE status[m]]
    BY <1>1 DEF Rerun
  <2> HIDE DEF reset
  <2> QED BY <2>1, <2>2 DEF ResetClosed, LeastReset
<1>2. [Next]_vars => [\A n \in Node : Rerun(n) => LeastReset(n)]_vars
  BY <1>1
<1> QED BY <1>2, PTL DEF Spec, ResetIsLeast

-----------------------------------------------------------------------------
(* Types.                                                                  *)

\* A definition among those of the constants.
LEMMA DefinitionType ==
  ASSUME def \in Definitions
  PROVE  /\ def.inputs \in [Node -> SUBSET Name] /\ def.outputs \in [Node -> SUBSET Name]
         /\ def.edges \subseteq Edge
  BY SchedulingAssumption

\* The verdict is about nodes.
LEMMA VerdictType ==
  ASSUME NEW d, d.edges \subseteq Edge, NEW st, NEW fl
  PROVE  evaluate_branches(d, st, fl) \in SUBSET Node
<1>1. ASSUME NEW s PROVE UnselectedBy(d, s, st, fl) \subseteq Node
  <2>1. Targets(DecidableEdges(d, s, st)) \subseteq Node
    BY DEF Targets, DecidableEdges, Edge
  <2>2. ASSUME NEW T, T \subseteq Node PROVE reachable_from(d, T) \subseteq Node
    BY <2>2, WalkIsClosed DEF reachable_from
  <2> QED BY <2>1, <2>2 DEF UnselectedBy
<1> QED BY <1>1 DEF evaluate_branches

\* The idle pass.
LEMMA IdleType ==
  ASSUME gen \in Generations
  PROVE  /\ IdlePass \in [phase : {"idle", "read", "judged"}, generation : Generations,
                          status : [Node -> NodeStatuses], unselected : SUBSET Node]
         /\ IdlePass.phase = "idle"
  BY SchedulingAssumption DEF IdlePass, Generations, NodeStatuses, Runnable, TerminalSuccess

\* Skipping keeps the types.
LEMMA SkipType ==
  ASSUME NEW st \in [Node -> NodeStatuses]
  PROVE  WithoutBranches(st) \in [Node -> NodeStatuses]
  BY DEF WithoutBranches, NodeStatuses, Runnable, TerminalSuccess

\* The job's status is one of those of the job.
LEMMA JobStatusType == \A st : JobStatus(st) \in {"queued", "running", "completed", "failed"}
  BY DEF JobStatus

\* The states a job starts from.
LEMMA InitTyped == Init => TypeOK
<1> SUFFICES ASSUME Init PROVE TypeOK
  OBVIOUS
<1>1. gen \in Generations
  BY SchedulingAssumption DEF Init, Generations
<1>2. file \in [Name -> File \cup {Absent}]
  <2>1. [value : BOOLEAN, by : {External}, generation : {0}] \subseteq File
    BY <1>1 DEF File, Init
  <2> QED BY <2>1 DEF Init
<1>3. status \in [Node -> NodeStatuses] /\ seen \in [Node -> [Name -> File \cup {Absent}]]
  BY DEF Init, NodeStatuses, Runnable, NoFiles
<1>4. ready \in [generation : Generations, nodes : SUBSET Node]
  BY <1>1 DEF Init
<1>5. pass \in [phase : {"idle", "read", "judged"}, generation : Generations,
                status : [Node -> NodeStatuses], unselected : SUBSET Node]
  BY <1>1, IdleType DEF Init
<1> QED BY <1>1, <1>2, <1>3, <1>4, <1>5 DEF TypeOK, Init

\* Every step keeps the types.
LEMMA StepTyped == TypeOK /\ [Next]_vars => TypeOK'
<1> SUFFICES ASSUME TypeOK, [Next]_vars PROVE TypeOK'
  OBVIOUS
<1>d. /\ def.inputs \in [Node -> SUBSET Name] /\ def.outputs \in [Node -> SUBSET Name]
      /\ def.edges \subseteq Edge
  BY DefinitionType DEF TypeOK
<1>1. CASE Scan
  <2>1. pass' \in [phase : {"idle", "read", "judged"}, generation : Generations,
                   status : [Node -> NodeStatuses], unselected : SUBSET Node]
    BY <1>1, IdleType DEF Scan, TypeOK
  <2> QED BY <1>1, <2>1 DEF Scan, TypeOK
<1>2. CASE Judge
  <2>1. pass' \in [phase : {"idle", "read", "judged"}, generation : Generations,
                   status : [Node -> NodeStatuses], unselected : SUBSET Node]
    BY <1>2, <1>d, VerdictType DEF Judge, TypeOK
  <2> QED BY <1>2, <2>1 DEF Judge, TypeOK
<1>3. CASE Mark
  <2>1. pass' \in [phase : {"idle", "read", "judged"}, generation : Generations,
                   status : [Node -> NodeStatuses], unselected : SUBSET Node]
    BY <1>3, IdleType DEF Mark, TypeOK
  <2>2. status' \in [Node -> NodeStatuses]
    BY <1>3, SkipType DEF Mark, TypeOK
  <2>3. ready' \in [generation : Generations, nodes : SUBSET Node]
    BY <1>3 DEF Mark, TypeOK, find_ready_nodes
  <2>4. overtaken' \in SUBSET Node
    BY <1>3 DEF Mark, TypeOK, ClaimedMeanwhile
  <2> QED BY <1>3, <2>1, <2>2, <2>3, <2>4 DEF Mark, TypeOK
<1>4. ASSUME NEW n \in Node, Start(n) PROVE TypeOK'
  <2>1. status' \in [Node -> NodeStatuses]
    BY <1>4 DEF Start, TypeOK, NodeStatuses
  <2>2. seen' \in [Node -> [Name -> File \cup {Absent}]]
    <3>1. [x \in Name |-> IF x \in def.inputs[n] THEN file[x] ELSE Absent] \in [Name -> File \cup {Absent}]
      BY DEF TypeOK
    <3> QED BY <1>4, <3>1 DEF Start, TypeOK
  <2> QED BY <1>4, <2>1, <2>2 DEF Start, TypeOK
<1>5. ASSUME NEW n \in Node, Finish(n) PROVE TypeOK'
  <2>1. status' \in [Node -> NodeStatuses] /\ job' \in {"queued", "running", "completed", "failed"}
    BY <1>5, JobStatusType DEF Finish, TypeOK, NodeStatuses, TerminalSuccess
  <2>2. file' \in [Name -> File \cup {Absent}]
    <3>1. PICK value \in [def.outputs[n] \cap ConditionNames -> BOOLEAN] :
            file' = [x \in Name |->
                       IF x \notin def.outputs[n] THEN file[x]
                       ELSE [value |-> IF x \in ConditionNames THEN value[x] ELSE TRUE,
                             by |-> n, generation |-> gen]]
      BY <1>5 DEF Finish
    <3>2. \A x \in Name : x \in def.outputs[n] =>
            [value |-> IF x \in ConditionNames THEN value[x] ELSE TRUE, by |-> n, generation |-> gen] \in File
      BY DEF File, TypeOK
    <3> QED BY <3>1, <3>2 DEF TypeOK
  <2> QED BY <1>5, <2>1, <2>2 DEF Finish, TypeOK
<1>6. ASSUME NEW n \in Node, Fail(n) PROVE TypeOK'
  <2>1. status' \in [Node -> NodeStatuses] /\ job' \in {"queued", "running", "completed", "failed"}
    BY <1>6, JobStatusType DEF Fail, TypeOK, NodeStatuses
  <2> QED BY <1>6, <2>1 DEF Fail, TypeOK
<1>7. ASSUME NEW n \in Node, Rerun(n) PROVE TypeOK'
  <2>1. gen' \in Generations
    BY <1>7, SchedulingAssumption DEF Rerun, TypeOK, Generations
  <2>2. status' \in [Node -> NodeStatuses]
    BY <1>7 DEF Rerun, TypeOK, NodeStatuses, Runnable
  <2>3. file' \in [Name -> File \cup {Absent}]
    BY <1>7 DEF Rerun, TypeOK
  <2>4. seen' \in [Node -> [Name -> File \cup {Absent}]]
    BY <1>7 DEF Rerun, TypeOK, NoFiles
  <2> QED BY <1>7, <2>1, <2>2, <2>3, <2>4 DEF Rerun, TypeOK
<1>8. CASE UNCHANGED vars
  BY <1>8 DEF vars, TypeOK
<1> QED BY <1>1, <1>2, <1>3, <1>4, <1>5, <1>6, <1>7, <1>8 DEF Next

\* The rows, the files, the pass and the cache keep their types.
THEOREM BranchTypes == Spec => []TypeOK
  BY InitTyped, StepTyped, PTL DEF Spec
-----------------------------------------------------------------------------
(* A pass that nothing interrupted.                                        *)

\* While the jobs row has not changed since it was read, the pass has the
\* statuses of the rows, and the cache that it leaves has what is ready.
NothingMissed ==
  ~dirty => IF pass.phase = "idle"
            THEN ready = [generation |-> gen, nodes |-> find_ready_nodes(def, status, file)]
            ELSE pass.generation = gen /\ pass.status = status

\* Nothing is missed at first, and no step makes it so.
LEMMA NothingMissedInductive ==
  /\ Init => NothingMissed
  /\ TypeOK /\ NothingMissed /\ [Next]_vars => NothingMissed'
<1>1. Init => NothingMissed
  BY DEF Init, NothingMissed
<1>2. ASSUME TypeOK, NothingMissed, [Next]_vars PROVE NothingMissed'
  <2>1. CASE Scan
    <3>1. pass'.phase = "read" /\ pass'.generation = gen /\ pass'.status = status
      BY <2>1 DEF Scan, IdlePass
    <3> QED BY <2>1, <3>1 DEF Scan, NothingMissed
  <2>2. CASE Judge
    <3>1. pass'.phase = "judged" /\ pass'.generation = pass.generation /\ pass'.status = pass.status
      BY <1>2, <2>2 DEF Judge, TypeOK
    <3> QED BY <1>2, <2>2, <3>1 DEF Judge, NothingMissed
  <2>3. CASE Mark
    <3>1. ASSUME ~dirty' PROVE ready' = [generation |-> gen', nodes |-> find_ready_nodes(def', status', file')]
      <4>1. pass.generation = gen /\ pass.status = status
        BY <1>2, <2>3, <3>1 DEF Mark, NothingMissed
      <4>2. status' = WithoutBranches(pass.status)
        BY <2>3, <4>1 DEF Mark, VerdictCurrent
      <4> QED BY <2>3, <4>1, <4>2 DEF Mark
    <3>2. pass'.phase = "idle"
      BY <2>3 DEF Mark, IdlePass
    <3> QED BY <3>1, <3>2 DEF NothingMissed
  <2>4. ASSUME NEW n \in Node, Start(n) \/ Finish(n) \/ Fail(n) \/ Rerun(n) PROVE NothingMissed'
    BY <2>4 DEF Start, Finish, Fail, Rerun, NothingMissed
  <2>5. CASE UNCHANGED vars
    BY <1>2, <2>5 DEF vars, NothingMissed
  <2> QED BY <1>2, <2>1, <2>2, <2>3, <2>4, <2>5 DEF Next
<1> QED BY <1>1, <1>2

\* A job at rest whose row has not changed has its ready nodes in the cache
\* (collect_ready_candidates against find_ready_nodes).
THEOREM NoMissedWakeupHolds == Spec => []NoMissedWakeup
<1>1. NothingMissed => NoMissedWakeup
  BY DEF NothingMissed, NoMissedWakeup, AtRest
<1> QED BY <1>1, BranchTypes, NothingMissedInductive, PTL DEF Spec

-----------------------------------------------------------------------------
(* What a node reads stays what it has read.                               *)

\* A producer that will not write before the next reset, or that a verdict
\* skipped after it had been claimed.
Quiet(p) == status[p] \in TerminalSuccess \/ p \in overtaken
ProducersQuiet(n) == \A x \in def.inputs[n] : \A p \in artifact_producers(def, x) \ {n} : Quiet(p)

\* Nothing is younger than the row.
Past == pass.generation <= gen /\ ready.generation <= gen
\* What had ended when the pass read it has ended.
ReadHasEnded ==
  pass.phase # "idle" /\ pass.generation = gen =>
    \A n \in Node : pass.status[n] \in TerminalSuccess => status[n] = pass.status[n]
\* A node is offered when its producers are quiet.
OfferedReadsQuiet == ready.generation = gen => \A n \in ready.nodes : ProducersQuiet(n)
\* It has started when they were, and they are still.
StartedReadsQuiet == \A n \in Node : status[n] \in {"running", "completed"} => ProducersQuiet(n)
\* What it found is what there is.
StartedIsFresh ==
  \A n \in Node : status[n] \in {"running", "completed"} =>
    \A x \in def.inputs[n] \ def.outputs[n] :
      seen[n][x] = file[x] \/ artifact_producers(def, x) \cap overtaken # {}

FreshInv == Past /\ ReadHasEnded /\ OfferedReadsQuiet /\ StartedReadsQuiet /\ StartedIsFresh

\* The states a job starts from.
LEMMA FreshInit == Init => FreshInv
<1> SUFFICES ASSUME Init PROVE FreshInv
  OBVIOUS
<1>1. pass.generation = 0 /\ pass.phase = "idle"
  BY DEF Init, IdlePass
<1>2. \A n \in Node : status[n] = "pending"
  BY DEF Init
<1> QED BY <1>1, <1>2 DEF Init, FreshInv, Past, ReadHasEnded, OfferedReadsQuiet, StartedReadsQuiet, StartedIsFresh

\* A consumer has a dependency on each producer of its inputs.
LEMMA ConsumerDepends ==
  ASSUME def \in Definitions, NEW n \in Node, NEW x \in def.inputs[n],
         NEW p \in artifact_producers(def, x) \ {n}, NEW S, p \in S,
         Successors(dependency_children(def), S) \subseteq S
  PROVE  n \in S
<1>1. x \in Name /\ p \in Node
  BY DefinitionType DEF artifact_producers
<1>2. n \in Consumers(def, x)
  BY DEF Consumers
<1>3. <<p, n>> \in dependency_children(def)
  BY <1>1, <1>2 DEF dependency_children, consumer_edges
<1> QED BY <1>3 DEF Successors

\* The producers that were quiet stay so.
LEMMA QuietKept ==
  ASSUME def' = def,
         \A p \in Node : Quiet(p) => Quiet(p)',
         NEW n \in Node, def \in Definitions, ProducersQuiet(n)
  PROVE  ProducersQuiet(n)'
<1>1. \A x \in def.inputs[n] : artifact_producers(def, x) \subseteq Node
  BY DEF artifact_producers
<1>2. \A x : artifact_producers(def, x)' = artifact_producers(def, x)
  BY DEF artifact_producers
<1> QED BY <1>1, <1>2 DEF ProducersQuiet

\* A pass reads.
LEMMA FreshScan == TypeOK /\ FreshInv /\ Scan => FreshInv'
<1> SUFFICES ASSUME TypeOK, FreshInv, Scan PROVE FreshInv'
  OBVIOUS
<1>1. pass'.phase = "read" /\ pass'.generation = gen /\ pass'.status = status
  BY DEF Scan, IdlePass
<1>2. Past' /\ ReadHasEnded'
  BY <1>1 DEF Scan, Past, ReadHasEnded, FreshInv, TypeOK, Generations
<1>3. OfferedReadsQuiet' /\ StartedReadsQuiet'
  BY DEF Scan, FreshInv, OfferedReadsQuiet, StartedReadsQuiet, ProducersQuiet, Quiet, artifact_producers
<1>4. StartedIsFresh'
  BY DEF Scan, FreshInv, StartedIsFresh, artifact_producers
<1> QED BY <1>2, <1>3, <1>4 DEF FreshInv

\* It judges.
LEMMA FreshJudge == TypeOK /\ FreshInv /\ Judge => FreshInv'
<1> SUFFICES ASSUME TypeOK, FreshInv, Judge PROVE FreshInv'
  OBVIOUS
<1>1. pass'.phase = "judged" /\ pass'.generation = pass.generation /\ pass'.status = pass.status
  BY DEF Judge, TypeOK
<1>2. Past' /\ ReadHasEnded'
  BY <1>1 DEF Judge, Past, ReadHasEnded, FreshInv
<1>3. OfferedReadsQuiet' /\ StartedReadsQuiet'
  BY DEF Judge, FreshInv, OfferedReadsQuiet, StartedReadsQuiet, ProducersQuiet, Quiet, artifact_producers
<1>4. StartedIsFresh'
  BY DEF Judge, FreshInv, StartedIsFresh, artifact_producers
<1> QED BY <1>2, <1>3, <1>4 DEF FreshInv
\* It marks: what it judged skipped has ended in the rows, or is overtaken.
LEMMA FreshMark == TypeOK /\ FreshInv /\ Mark => FreshInv'
<1> SUFFICES ASSUME TypeOK, FreshInv, Mark PROVE FreshInv'
  OBVIOUS
<1>1. def' = def /\ gen' = gen /\ file' = file /\ seen' = seen /\ def \in Definitions
  BY DEF Mark, TypeOK
<1>2. pass'.phase = "idle" /\ pass'.generation = 0 /\ ready'.generation = pass.generation
  BY DEF Mark, IdlePass
<1>3. Past' /\ ReadHasEnded'
  BY <1>1, <1>2 DEF Past, ReadHasEnded, FreshInv, TypeOK, Generations
<1>4. \A p \in Node : /\ Quiet(p) => Quiet(p)'
                      /\ status'[p] \in {"running", "completed"} => status'[p] = status[p]
  BY DEF Mark, TypeOK, Quiet, WithoutBranches, Runnable, TerminalSuccess
<1>5. StartedReadsQuiet'
  <2> SUFFICES ASSUME NEW n \in Node, status'[n] \in {"running", "completed"} PROVE ProducersQuiet(n)'
    BY DEF StartedReadsQuiet
  <2>1. ProducersQuiet(n)
    BY <1>4 DEF FreshInv, StartedReadsQuiet
  <2> QED BY <1>1, <1>4, <2>1, QuietKept
<1>6. overtaken \subseteq overtaken'
  BY DEF Mark
<1>7. StartedIsFresh'
  BY <1>1, <1>4, <1>6 DEF FreshInv, StartedIsFresh, artifact_producers
<1>8. OfferedReadsQuiet'
  <2> SUFFICES ASSUME pass.generation = gen, NEW n \in ready'.nodes PROVE ProducersQuiet(n)'
    BY <1>1, <1>2 DEF OfferedReadsQuiet
  <2>1. n \in Node /\ ~has_unfinished_implicit_producer(def, n, WithoutBranches(pass.status))
    BY DEF Mark, find_ready_nodes
  <2>2. ASSUME NEW x \in def.inputs[n], NEW p \in artifact_producers(def, x) \ {n} PROVE Quiet(p)'
    <3>1. p \in Node /\ WithoutBranches(pass.status)[p] \in TerminalSuccess
      BY <2>1, <2>2 DEF has_unfinished_implicit_producer, artifact_producers
    <3>2. CASE pass.status[p] \in TerminalSuccess
      <4>1. Quiet(p)
        BY <3>1, <3>2 DEF FreshInv, ReadHasEnded, Mark, Quiet
      <4> QED BY <3>1, <4>1, <1>4
    <3>3. CASE pass.status[p] \notin TerminalSuccess
      <4>1. p \in pass.unselected /\ pass.status[p] \in Runnable
        BY <3>1, <3>3 DEF WithoutBranches
      <4>2. CASE status[p] \in Runnable
        <5>1. status'[p] = "not_applicable"
          BY <3>1, <4>1, <4>2 DEF Mark, VerdictCurrent, WithoutBranches
        <5> QED BY <5>1 DEF Quiet, TerminalSuccess
      <4>3. CASE status[p] \in TerminalSuccess
        BY <3>1, <4>3, <1>4 DEF Quiet
      <4>4. CASE status[p] \notin Runnable \cup TerminalSuccess
        <5>1. p \in overtaken'
          BY <4>1, <4>4 DEF Mark, VerdictCurrent, ClaimedMeanwhile
        <5> QED BY <5>1 DEF Quiet
      <4> QED BY <4>2, <4>3, <4>4
    <3> QED BY <3>2, <3>3
  <2> QED BY <1>1, <2>2 DEF ProducersQuiet, artifact_producers
<1> QED BY <1>3, <1>5, <1>7, <1>8 DEF FreshInv

\* A node starts and finds its inputs.
LEMMA FreshStart == TypeOK /\ FreshInv => \A n \in Node : Start(n) => FreshInv'
<1> SUFFICES ASSUME TypeOK, FreshInv, NEW n \in Node, Start(n) PROVE FreshInv'
  OBVIOUS
<1>1. /\ def' = def /\ gen' = gen /\ file' = file /\ pass' = pass /\ ready' = ready
      /\ overtaken' = overtaken /\ def \in Definitions
  BY DEF Start, TypeOK
<1>2. status[n] \in Runnable /\ status' = [status EXCEPT ![n] = "running"]
  BY DEF Start
<1>3. \A p \in Node : (Quiet(p) => Quiet(p)') /\ (p # n => status'[p] = status[p])
  BY <1>1, <1>2 DEF TypeOK, Quiet, Runnable, TerminalSuccess
<1>4. Past' /\ ReadHasEnded'
  BY <1>1, <1>2 DEF FreshInv, Past, ReadHasEnded, TypeOK, Runnable, TerminalSuccess
<1>5. \A m \in Node : ProducersQuiet(m) => ProducersQuiet(m)'
  BY <1>1, <1>3, QuietKept
<1>6. OfferedReadsQuiet'
  BY <1>1, <1>5 DEF FreshInv, OfferedReadsQuiet, TypeOK
<1>7. StartedReadsQuiet'
  <2>1. ProducersQuiet(n)
    BY DEF Start, FreshInv, OfferedReadsQuiet
  <2> QED BY <1>3, <1>5, <2>1 DEF FreshInv, StartedReadsQuiet
<1>8. StartedIsFresh'
  <2> SUFFICES ASSUME NEW m \in Node, status'[m] \in {"running", "completed"},
                      NEW x \in def.inputs[m] \ def.outputs[m]
               PROVE  seen'[m][x] = file[x] \/ artifact_producers(def, x) \cap overtaken # {}
    BY <1>1 DEF StartedIsFresh, artifact_producers
  <2>1. CASE m = n
    <3>1. x \in Name
      BY <1>1, DefinitionType
    <3>2. seen'[n] = [y \in Name |-> IF y \in def.inputs[n] THEN file[y] ELSE Absent]
      BY DEF Start, TypeOK
    <3> QED BY <2>1, <3>1, <3>2
  <2>2. CASE m # n
    <3>1. seen'[m] = seen[m] /\ status'[m] = status[m]
      BY <2>2, <1>3 DEF Start, TypeOK
    <3> QED BY <3>1 DEF FreshInv, StartedIsFresh
  <2> QED BY <2>1, <2>2
<1> QED BY <1>4, <1>6, <1>7, <1>8 DEF FreshInv

\* A node finishes and writes: those who read what it writes have not started.
LEMMA FreshFinish == TypeOK /\ FreshInv => \A n \in Node : Finish(n) => FreshInv'
<1> SUFFICES ASSUME TypeOK, FreshInv, NEW n \in Node, Finish(n) PROVE FreshInv'
  OBVIOUS
<1>1. /\ def' = def /\ gen' = gen /\ pass' = pass /\ ready' = ready /\ seen' = seen
      /\ overtaken' = overtaken /\ def \in Definitions
  BY DEF Finish, TypeOK
<1>2. status[n] = "running" /\ status' = [status EXCEPT ![n] = "completed"]
  BY DEF Finish
<1>3. \A p \in Node : (Quiet(p) => Quiet(p)') /\ (p # n => status'[p] = status[p])
  BY <1>1, <1>2 DEF TypeOK, Quiet, TerminalSuccess
<1>4. Past' /\ ReadHasEnded'
  BY <1>1, <1>2 DEF FreshInv, Past, ReadHasEnded, TypeOK, TerminalSuccess
<1>5. \A m \in Node : ProducersQuiet(m) => ProducersQuiet(m)'
  BY <1>1, <1>3, QuietKept
<1>6. OfferedReadsQuiet'
  BY <1>1, <1>5 DEF FreshInv, OfferedReadsQuiet, TypeOK
<1>7. StartedReadsQuiet'
  BY <1>2, <1>3, <1>5 DEF FreshInv, StartedReadsQuiet
<1>8. StartedIsFresh'
  <2> SUFFICES ASSUME NEW m \in Node, status'[m] \in {"running", "completed"},
                      NEW x \in def.inputs[m] \ def.outputs[m]
               PROVE  seen[m][x] = file'[x] \/ artifact_producers(def, x) \cap overtaken # {}
    BY <1>1 DEF StartedIsFresh, artifact_producers
  <2>1. status[m] \in {"running", "completed"} /\ x \in Name
    BY <1>1, <1>2, <1>3, DefinitionType
  <2>2. seen[m][x] = file[x] \/ artifact_producers(def, x) \cap overtaken # {}
    BY <2>1 DEF FreshInv, StartedIsFresh
  <2>3. CASE x \in def.outputs[n]
    <3>1. n \in artifact_producers(def, x) \ {m}
      BY <2>3 DEF artifact_producers
    <3>2. Quiet(n)
      BY <2>1, <3>1 DEF FreshInv, StartedReadsQuiet, ProducersQuiet
    <3>3. n \in overtaken
      BY <1>2, <3>2 DEF Quiet, TerminalSuccess
    <3> QED BY <3>1, <3>3
  <2>4. CASE x \notin def.outputs[n]
    <3>1. file'[x] = file[x]
      BY <2>1, <2>4 DEF Finish
    <3> QED BY <2>2, <3>1
  <2> QED BY <2>3, <2>4
<1> QED BY <1>4, <1>6, <1>7, <1>8 DEF FreshInv

\* It fails and writes nothing.
LEMMA FreshFail == TypeOK /\ FreshInv => \A n \in Node : Fail(n) => FreshInv'
<1> SUFFICES ASSUME TypeOK, FreshInv, NEW n \in Node, Fail(n) PROVE FreshInv'
  OBVIOUS
<1>1. /\ def' = def /\ gen' = gen /\ pass' = pass /\ ready' = ready /\ seen' = seen /\ file' = file
      /\ overtaken' = overtaken /\ def \in Definitions
  BY DEF Fail, TypeOK
<1>2. status[n] = "running" /\ status' = [status EXCEPT ![n] = "failed"]
  BY DEF Fail
<1>3. \A p \in Node : (Quiet(p) => Quiet(p)') /\ (p # n => status'[p] = status[p])
  BY <1>1, <1>2 DEF TypeOK, Quiet, TerminalSuccess
<1>4. Past' /\ ReadHasEnded'
  BY <1>1, <1>2 DEF FreshInv, Past, ReadHasEnded, TypeOK, TerminalSuccess
<1>5. \A m \in Node : ProducersQuiet(m) => ProducersQuiet(m)'
  BY <1>1, <1>3, QuietKept
<1>6. OfferedReadsQuiet'
  BY <1>1, <1>5 DEF FreshInv, OfferedReadsQuiet, TypeOK
<1>7. n \in Node /\ status'[n] = "failed"
  BY <1>2 DEF TypeOK
<1>8. StartedReadsQuiet'
  BY <1>3, <1>5, <1>7 DEF FreshInv, StartedReadsQuiet
<1>9. StartedIsFresh'
  BY <1>1, <1>3, <1>7 DEF FreshInv, StartedIsFresh, artifact_producers
<1> QED BY <1>4, <1>6, <1>8, <1>9 DEF FreshInv
\* A rerun takes with it everyone who reads what it stages away.
LEMMA FreshRerun == TypeOK /\ FreshInv => \A n \in Node : Rerun(n) => FreshInv'
<1> SUFFICES ASSUME TypeOK, FreshInv, NEW n \in Node, Rerun(n) PROVE FreshInv'
  OBVIOUS
<1> DEFINE reset == rerun_reset_closure(def, n)
<1>1. /\ def' = def /\ pass' = pass /\ ready' = ready /\ gen' = gen + 1 /\ def \in Definitions
      /\ gen \in Nat /\ pass.generation \in Nat /\ ready.generation \in Nat
  BY SchedulingAssumption DEF Rerun, TypeOK, Generations
<1>2. /\ reset \in SUBSET Node /\ n \in reset
      /\ Successors(dependency_children(def), reset) \subseteq reset
  BY RerunResetIsLeast DEF ResetClosed
<1>3. /\ status' = [m \in Node |-> IF m = n THEN "pending" ELSE IF m \in reset THEN "stale" ELSE status[m]]
      /\ file' = [x \in Name |-> IF x \in staging_output_names(def, reset) THEN Absent ELSE file[x]]
      /\ seen' = [m \in Node |-> IF m \in reset THEN NoFiles ELSE seen[m]]
      /\ overtaken' = overtaken \ reset
  BY DEF Rerun
<1> HIDE DEF reset
<1>4. Past' /\ ReadHasEnded' /\ OfferedReadsQuiet'
  BY <1>1 DEF FreshInv, Past, ReadHasEnded, OfferedReadsQuiet
<1>5. ASSUME NEW m \in Node, status'[m] \in {"running", "completed"}
      PROVE  m \notin reset /\ status'[m] = status[m] /\ seen'[m] = seen[m]
  BY <1>2, <1>3, <1>5
<1>6. ASSUME NEW m \in Node, m \notin reset, NEW x \in def.inputs[m], NEW p \in artifact_producers(def, x) \ {m}
      PROVE  p \notin reset
  BY <1>1, <1>2, <1>6, ConsumerDepends
<1>7. \A p \in Node : p \notin reset /\ Quiet(p) => Quiet(p)'
  BY <1>2, <1>3 DEF Quiet
<1>8. StartedReadsQuiet'
  <2> SUFFICES ASSUME NEW m \in Node, status'[m] \in {"running", "completed"},
                      NEW x \in def.inputs[m], NEW p \in artifact_producers(def, x) \ {m}
               PROVE  Quiet(p)'
    BY <1>1 DEF StartedReadsQuiet, ProducersQuiet, artifact_producers
  <2>1. Quiet(p) /\ p \in Node
    BY <1>5 DEF FreshInv, StartedReadsQuiet, ProducersQuiet, artifact_producers
  <2>2. p \notin reset
    BY <1>5, <1>6
  <2> QED BY <1>7, <2>1, <2>2
<1>9. StartedIsFresh'
  <2> SUFFICES ASSUME NEW m \in Node, status'[m] \in {"running", "completed"},
                      NEW x \in def.inputs[m] \ def.outputs[m]
               PROVE  seen'[m][x] = file'[x] \/ artifact_producers(def, x) \cap overtaken' # {}
    BY <1>1 DEF StartedIsFresh, artifact_producers
  <2>1. m \notin reset /\ status'[m] = status[m] /\ seen'[m] = seen[m] /\ x \in Name
    BY <1>1, <1>5, DefinitionType
  <2>2. m \notin artifact_producers(def, x)
    BY DEF artifact_producers
  <2>3. artifact_producers(def, x) \cap reset = {}
    BY <1>6, <2>1, <2>2
  <2>4. file'[x] = file[x]
    <3>1. x \notin PureOutputs(def, reset)
      BY <1>2, <2>3 DEF PureOutputs, artifact_producers
    <3> QED BY <1>3, <2>1, <3>1 DEF staging_output_names
  <2>5. seen[m][x] = file[x] \/ artifact_producers(def, x) \cap overtaken # {}
    BY <2>1 DEF FreshInv, StartedIsFresh
  <2> QED BY <1>3, <2>1, <2>3, <2>4, <2>5
<1> QED BY <1>4, <1>8, <1>9 DEF FreshInv

\* Nothing happens.
LEMMA FreshStutter == FreshInv /\ UNCHANGED vars => FreshInv'
<1> SUFFICES ASSUME FreshInv, UNCHANGED vars PROVE FreshInv'
  OBVIOUS
<1>1. /\ Past' /\ ReadHasEnded'
  BY DEF vars, FreshInv, Past, ReadHasEnded
<1>2. OfferedReadsQuiet' /\ StartedReadsQuiet'
  BY DEF vars, FreshInv, OfferedReadsQuiet, StartedReadsQuiet, ProducersQuiet, Quiet, artifact_producers
<1>3. StartedIsFresh'
  BY DEF vars, FreshInv, StartedIsFresh, artifact_producers
<1> QED BY <1>1, <1>2, <1>3 DEF FreshInv

\* A completed node rests on the bytes that its inputs have, unless a producer
\* of theirs was overtaken by the verdict that skips it (dependency_downstream,
\* has_unfinished_implicit_producer, mark_nodes_not_applicable_many).
THEOREM FreshInputsHolds == Spec => []FreshInputs
<1>1. FreshInv => FreshInputs
  BY DEF FreshInv, StartedIsFresh, FreshInputs
<1>2. TypeOK /\ FreshInv /\ [Next]_vars => FreshInv'
  BY FreshScan, FreshJudge, FreshMark, FreshStart, FreshFinish, FreshFail, FreshRerun, FreshStutter DEF Next
<1> QED BY <1>1, <1>2, BranchTypes, FreshInit, PTL DEF Spec

-----------------------------------------------------------------------------
(* A verdict, edge by edge.  A source skips a node that one of its         *)
(* unselected edges leads to, if no selected edge leads there and no       *)
(* deferred edge could.                                                    *)

Selects(e, fl) == e.when = Always \/ condition_matches(e.when, fl)
Behind(t) == {t} \cup walk_downstream(explicit_children(def), {t})
InFlight(e, st) == condition_producer_in_flight(def, e, st)
From(s) == {e \in def.edges : e.source = s}
Skips(s, n, st, fl) ==
  /\ st[s] = "completed"
  /\ \E e \in From(s) : ~ InFlight(e, st) /\ ~ Selects(e, fl) /\ n \in Behind(e.target)
  /\ \A e \in From(s) : ~ InFlight(e, st) /\ Selects(e, fl) => n \notin Behind(e.target)
  /\ \A e \in From(s) : InFlight(e, st) => n \notin branch_gated_keys(def, e.target)

\* What is reached from a set is reached from a member.
LEMMA ReachedFromOne ==
  ASSUME NEW S, NEW n
  PROVE  n \in reachable_from(def, S) <=> \E t \in S : n \in Behind(t)
<1> DEFINE R == explicit_children(def)
           T == {m \in Node : \E t \in S : m \in walk_downstream(R, {t})}
<1>1. ASSUME NEW U
      PROVE  /\ walk_downstream(R, U) \subseteq Node /\ Successors(R, U) \subseteq walk_downstream(R, U)
             /\ Successors(R, walk_downstream(R, U)) \subseteq walk_downstream(R, U)
  BY WalkIsClosed
<1>2. walk_downstream(R, S) \subseteq T
  <2>1. Successors(R, S) \subseteq T
    <3> SUFFICES ASSUME NEW m \in Node, NEW t \in S, <<t, m>> \in R PROVE m \in T
      BY DEF Successors
    <3>1. m \in Successors(R, {t})
      BY DEF Successors
    <3> QED BY <3>1, <1>1
  <2>2. Successors(R, T) \subseteq T
    <3> SUFFICES ASSUME NEW m \in Node, NEW k \in T, <<k, m>> \in R PROVE m \in T
      BY DEF Successors
    <3>1. PICK t \in S : k \in walk_downstream(R, {t})
      OBVIOUS
    <3>2. m \in Successors(R, walk_downstream(R, {t}))
      BY <3>1 DEF Successors
    <3> QED BY <3>2, <1>1
  <2> HIDE DEF T
  <2> QED BY <2>1, <2>2, WalkIsLeast
<1>3. ASSUME NEW t \in S PROVE walk_downstream(R, {t}) \subseteq walk_downstream(R, S)
  <2>1. Successors(R, {t}) \subseteq walk_downstream(R, S)
    BY <1>1 DEF Successors
  <2> QED BY <2>1, <1>1, WalkIsLeast
<1> HIDE DEF R
<1> QED BY <1>2, <1>3 DEF reachable_from, Behind, R

\* What an edge leads to depends on its target.
LEMMA BehindIsGated ==
  ASSUME NEW t
  PROVE  Behind(t) \subseteq branch_gated_keys(def, t)
<1> DEFINE R == explicit_children(def)
           D == dependency_children(def)
<1>1. Successors(D, {t}) \subseteq walk_downstream(D, {t})
      /\ Successors(D, walk_downstream(D, {t})) \subseteq walk_downstream(D, {t})
  BY WalkIsClosed
<1>2. R \subseteq D
  BY DEF dependency_children
<1>3. \A U : Successors(R, U) \subseteq Successors(D, U)
  BY <1>2 DEF Successors
<1>4. walk_downstream(R, {t}) \subseteq walk_downstream(D, {t})
  <2> HIDE DEF R, D
  <2>1. Successors(R, {t}) \subseteq walk_downstream(D, {t})
    BY <1>1, <1>3
  <2>2. Successors(R, walk_downstream(D, {t})) \subseteq walk_downstream(D, {t})
    BY <1>1, <1>3
  <2> QED BY <2>1, <2>2, WalkIsLeast
<1> QED BY <1>4 DEF Behind, branch_gated_keys, dependency_downstream

\* UnselectedBy without DeferredBy is what a source skips.
LEMMA SkipsIsUnselected ==
  ASSUME NEW s, NEW n, NEW st, NEW fl
  PROVE  n \in UnselectedBy(def, s, st, fl) \ DeferredBy(def, s, st) /\ st[s] = "completed"
           <=> Skips(s, n, st, fl)
<1> DEFINE A == DecidableEdges(def, s, st)
           B == selected_edges(A, fl)
<1>1. \A e : /\ e \in A <=> e \in From(s) /\ ~ InFlight(e, st)
             /\ e \in B <=> e \in A /\ Selects(e, fl)
             /\ e \in DeferredEdges(def, s, st) <=> e \in From(s) /\ InFlight(e, st)
  BY DEF DecidableEdges, DeferredEdges, selected_edges, From, InFlight, Selects
<1> HIDE DEF A, B
<1>2. n \in UnselectedBy(def, s, st, fl) <=>
        /\ \E t \in Targets(A) \ Targets(B) : n \in Behind(t)
        /\ ~ \E t \in Targets(B) : n \in Behind(t)
  BY ReachedFromOne DEF UnselectedBy, A, B
<1>3. n \in DeferredBy(def, s, st) <=>
        \E e \in DeferredEdges(def, s, st) : n \in branch_gated_keys(def, e.target)
  BY DEF DeferredBy, Targets
<1>4. \A t : /\ t \in Targets(A) <=> \E e \in A : e.target = t
             /\ t \in Targets(B) <=> \E e \in B : e.target = t
  BY DEF Targets
<1>5. (\E t \in Targets(A) \ Targets(B) : n \in Behind(t)) /\ ~ (\E t \in Targets(B) : n \in Behind(t))
        <=> /\ \E e \in A : e \notin B /\ n \in Behind(e.target)
            /\ \A e \in B : n \notin Behind(e.target)
  BY <1>4
<1> QED BY <1>1, <1>2, <1>3, <1>5 DEF Skips

\* A verdict names what some source skips; where nothing is deferred it names
\* all of that.
LEMMA VerdictSkips ==
  ASSUME NEW st, NEW fl, NEW n, n \in evaluate_branches(def, st, fl)
  PROVE  \E s \in Node : Skips(s, n, st, fl)
<1>1. PICK s \in Node : /\ st[s] = "completed" /\ n \in UnselectedBy(def, s, st, fl)
                        /\ n \notin DeferredBy(def, s, st)
  BY DEF evaluate_branches
<1> QED BY <1>1, SkipsIsUnselected

LEMMA SkipsIsVerdict ==
  ASSUME NEW st, NEW fl, NEW s \in Node, NEW n, Skips(s, n, st, fl),
         \A e \in def.edges : InFlight(e, st) => n \notin branch_gated_keys(def, e.target)
  PROVE  n \in evaluate_branches(def, st, fl)
<1>1. n \in UnselectedBy(def, s, st, fl) /\ st[s] = "completed"
  BY SkipsIsUnselected
<1>2. \E e \in def.edges : e.source = s /\ e.when # Always
  BY DEF Skips, From, Selects
<1>3. \A r \in Node : n \notin DeferredBy(def, r, st)
  BY DEF DeferredBy, Targets, DeferredEdges, InFlight
<1> QED BY <1>1, <1>2, <1>3 DEF evaluate_branches

-----------------------------------------------------------------------------
(* A verdict is kept by what comes after it.                               *)

\* Where no branch writes its own condition, what is in flight is any producer.
LEMMA FlightFacts ==
  ASSUME def \in Definitions, ~ SelfGated, NEW e \in def.edges, NEW st
  PROVE  /\ e.source \in Node /\ e.target \in Node
         /\ InFlight(e, st) <=>
              e.when # Always /\ \E p \in artifact_producers(def, e.when.artifact) : st[p] \notin TerminalSuccess
         /\ e.when # Always => /\ e.when.artifact \in Name
                               /\ artifact_producers(def, e.when.artifact) \cap branch_gated_keys(def, e.target) = {}
<1>1. e.source \in Node /\ e.target \in Node /\ e.when \in Condition \cup {Always}
  BY DefinitionType DEF Edge
<1>2. e.when # Always => e.when.artifact \in Name
  BY <1>1 DEF Condition
<1>3. e.when # Always => artifact_producers(def, e.when.artifact) \cap branch_gated_keys(def, e.target) = {}
  BY DEF SelfGated
<1> QED BY <1>1, <1>2, <1>3 DEF InFlight, condition_producer_in_flight

\* Producers of a condition reset the target of its edge.
LEMMA ConditionDepends ==
  ASSUME def \in Definitions, ~ SelfGated, NEW e \in def.edges, e.when # Always,
         NEW p \in artifact_producers(def, e.when.artifact)
  PROVE  <<p, e.target>> \in dependency_children(def) /\ p \in Node /\ p # e.target
<1>1. e.target \in Node /\ e.when.artifact \in Name /\ p \notin branch_gated_keys(def, e.target)
  BY FlightFacts
<1>2. p \in Node /\ p # e.target
  BY <1>1 DEF artifact_producers, branch_gated_keys
<1>3. e.target \in Consumers(def, e.when.artifact)
  BY DEF Consumers
<1> QED BY <1>1, <1>2, <1>3 DEF dependency_children, consumer_edges

\* A set that dependents do not leave has what is behind its members.
LEMMA GatedStays ==
  ASSUME NEW S, Successors(dependency_children(def), S) \subseteq S, NEW t \in S
  PROVE  branch_gated_keys(def, t) \subseteq S
<1>1. Successors(dependency_children(def), {t}) \subseteq S
  BY DEF Successors
<1>2. walk_downstream(dependency_children(def), {t}) \subseteq S
  BY <1>1, WalkIsLeast
<1> QED BY <1>2 DEF branch_gated_keys, dependency_downstream

\* The files of conditions decide who is selected.
LEMMA SelectsSame ==
  ASSUME NEW e, NEW fl, NEW fl2, e.when # Always => fl2[e.when.artifact] = fl[e.when.artifact]
  PROVE  Selects(e, fl2) <=> Selects(e, fl)
BY DEF Selects, condition_matches

\* Nodes end, and conditions whose producers have ended keep their files.
LEMMA SkipsLater ==
  ASSUME def \in Definitions, ~ SelfGated, NEW st, NEW st2, NEW fl, NEW fl2,
         \A m \in Node : st[m] \in TerminalSuccess => st2[m] = st[m],
         \A e \in def.edges :
           e.when # Always /\ (\A p \in artifact_producers(def, e.when.artifact) : st[p] \in TerminalSuccess)
             => fl2[e.when.artifact] = fl[e.when.artifact],
         NEW s \in Node, NEW n, Skips(s, n, st, fl)
  PROVE  Skips(s, n, st2, fl2)
<1>1. \A e \in From(s) : e \in def.edges
  BY DEF From
<1>2. ASSUME NEW e \in From(s), ~ InFlight(e, st)
      PROVE  ~ InFlight(e, st2) /\ (Selects(e, fl2) <=> Selects(e, fl))
  <2>1. e.when # Always => \A p \in artifact_producers(def, e.when.artifact) : p \in Node /\ st[p] \in TerminalSuccess
    BY <1>1, <1>2, FlightFacts DEF artifact_producers
  <2>2. ~ InFlight(e, st2)
    BY <1>1, <2>1, FlightFacts
  <2>3. e.when # Always => fl2[e.when.artifact] = fl[e.when.artifact]
    BY <1>1, <2>1
  <2> QED BY <2>2, <2>3, SelectsSame
<1>3. \A e \in From(s) : InFlight(e, st) => n \notin Behind(e.target)
  BY BehindIsGated DEF Skips
<1>4. st2[s] = "completed"
  BY DEF Skips, TerminalSuccess
<1>5. \E e \in From(s) : ~ InFlight(e, st2) /\ ~ Selects(e, fl2) /\ n \in Behind(e.target)
  BY <1>2 DEF Skips
<1>6. \A e \in From(s) : ~ InFlight(e, st2) /\ Selects(e, fl2) => n \notin Behind(e.target)
  BY <1>2, <1>3 DEF Skips
<1>7. \A e \in From(s) : InFlight(e, st2) => n \notin branch_gated_keys(def, e.target)
  BY <1>2 DEF Skips
<1> QED BY <1>4, <1>5, <1>6, <1>7 DEF Skips

\* What a rerun leaves: the files of what none of the reset produces.
LEMMA RerunLeaves ==
  ASSUME def \in Definitions, NEW r \in Node, Rerun(r), NEW reset, reset = rerun_reset_closure(def, r)
  PROVE  /\ reset \in SUBSET Node /\ Successors(dependency_children(def), reset) \subseteq reset /\ r \in reset
         /\ \A m \in Node : IF m \in reset THEN status'[m] \in Runnable ELSE status'[m] = status[m]
         /\ \A x \in Name : artifact_producers(def, x) \cap reset = {} => file'[x] = file[x]
<1>1. reset \in SUBSET Node /\ ResetClosed(def, r, reset)
  BY RerunResetIsLeast
<1>2. \A m \in Node : IF m \in reset THEN status'[m] \in Runnable ELSE status'[m] = status[m]
  BY <1>1 DEF Rerun, Runnable, ResetClosed
<1>3. ASSUME NEW x \in Name, artifact_producers(def, x) \cap reset = {} PROVE file'[x] = file[x]
  <2>1. x \notin staging_output_names(def, reset)
    BY <1>1, <1>3 DEF staging_output_names, PureOutputs, artifact_producers
  <2> QED BY <2>1 DEF Rerun
<1> QED BY <1>1, <1>2, <1>3 DEF ResetClosed

\* A rerun of others keeps a verdict.
LEMMA SkipsAfterRerun ==
  ASSUME def \in Definitions, ~ SelfGated, NEW r \in Node, Rerun(r),
         NEW s \in Node, NEW n \in Node, n \notin rerun_reset_closure(def, r), Skips(s, n, status, file)
  PROVE  Skips(s, n, status', file')
<1>1. PICK reset : reset = rerun_reset_closure(def, r)
  OBVIOUS
<1>2. /\ reset \in SUBSET Node /\ Successors(dependency_children(def), reset) \subseteq reset
      /\ \A m \in Node : IF m \in reset THEN status'[m] \in Runnable ELSE status'[m] = status[m]
      /\ \A x \in Name : artifact_producers(def, x) \cap reset = {} => file'[x] = file[x]
  BY <1>1, RerunLeaves
<1>3. \A e \in From(s) : e \in def.edges /\ e.target \in Node
  BY FlightFacts DEF From
<1>4. ASSUME NEW e \in From(s), e.target \in reset PROVE n \notin branch_gated_keys(def, e.target)
  BY <1>1, <1>2, <1>4, GatedStays
<1>5. ASSUME NEW e \in From(s), e.target \notin reset
      PROVE  (InFlight(e, status') <=> InFlight(e, status)) /\ (Selects(e, file') <=> Selects(e, file))
  <2>1. e.when # Always => \A p \in artifact_producers(def, e.when.artifact) : p \in Node /\ p \notin reset
    BY <1>2, <1>3, <1>5, ConditionDepends DEF Successors
  <2>2. InFlight(e, status') <=> InFlight(e, status)
    BY <1>2, <1>3, <2>1, FlightFacts
  <2>3. e.when # Always => file'[e.when.artifact] = file[e.when.artifact]
    BY <1>2, <1>3, <2>1, FlightFacts
  <2> QED BY <2>2, <2>3, SelectsSame
<1>6. \A e \in From(s) : e.target \in reset => n \notin Behind(e.target)
  BY <1>4, BehindIsGated
<1>7. PICK e \in From(s) : ~ InFlight(e, status) /\ ~ Selects(e, file) /\ n \in Behind(e.target)
  BY DEF Skips
<1>8. e.target \notin reset
  BY <1>6, <1>7
<1>9. status'[s] = "completed"
  <2>1. <<s, e.target>> \in dependency_children(def)
    BY DEF From, dependency_children, explicit_children
  <2>2. s \notin reset
    BY <1>2, <1>3, <1>8, <2>1 DEF Successors
  <2> QED BY <1>2, <2>2 DEF Skips
<1>10. \E f \in From(s) : ~ InFlight(f, status') /\ ~ Selects(f, file') /\ n \in Behind(f.target)
  BY <1>5, <1>7, <1>8
<1>11. \A f \in From(s) : ~ InFlight(f, status') /\ Selects(f, file') => n \notin Behind(f.target)
  BY <1>5, <1>6 DEF Skips
<1>12. \A f \in From(s) : InFlight(f, status') => n \notin branch_gated_keys(def, f.target)
  BY <1>4, <1>5 DEF Skips
<1> QED BY <1>9, <1>10, <1>11, <1>12 DEF Skips

-----------------------------------------------------------------------------
(* Verdicts stand.  A skipped node is always one that some source skips,   *)
(* and so is one that the pass has judged away and not yet written; a node *)
(* that is offered or has started has an edge that is settled.             *)

Incoming(n) == {e \in def.edges : e.target = n}
SettledEdge(e) ==
  \/ e.when = Always \/ OvertakenCondition(e)
  \/ condition_matches(e.when, file) /\ \A p \in artifact_producers(def, e.when.artifact) : status[p] \in TerminalSuccess
Stands(n) == Incoming(n) = {} \/ \E e \in Incoming(n) : SettledEdge(e)
Skipped(n) == \E s \in Node : Skips(s, n, status, file)

SkippedIsJudged == \A n \in Node : status[n] = "not_applicable" => Skipped(n)
PassIsJudged == pass.phase = "judged" /\ pass.generation = gen => \A n \in pass.unselected : Skipped(n)
OfferedStands == ready.generation = gen => \A n \in ready.nodes : Stands(n)
StartedStands == \A n \in Node : status[n] \in {"running", "completed"} => Stands(n)
VerdictInv == ~ SelfGated => SkippedIsJudged /\ PassIsJudged /\ OfferedStands /\ StartedStands

LEMMA VerdictInit == Init => VerdictInv
BY DEF Init, VerdictInv, SkippedIsJudged, PassIsJudged, OfferedStands, StartedStands, IdlePass

\* With the same definition, a skip after a step is one of its rows and files.
LEMMA SkipsPrimed ==
  ASSUME def' = def, NEW s, NEW n
  PROVE  Skips(s, n, status', file') <=> Skips(s, n, status, file)'
<1>1. \A t : Behind(t)' = Behind(t)
  BY DEF Behind
<1> QED BY <1>1 DEF Skips, From, InFlight

\* What nodes that end and write keep.
LEMMA ForwardKeeps ==
  ASSUME def \in Definitions, ~ SelfGated, def' = def, overtaken \subseteq overtaken',
         \A m \in Node : status[m] \in TerminalSuccess => status'[m] = status[m],
         \A x \in Name : (\A p \in artifact_producers(def, x) : status[p] \in TerminalSuccess) => file'[x] = file[x],
         NEW n \in Node
  PROVE  (Skipped(n) => Skipped(n)') /\ (Stands(n) => Stands(n)')
<1>1. \A e \in def.edges :
        e.when # Always /\ (\A p \in artifact_producers(def, e.when.artifact) : status[p] \in TerminalSuccess)
          => file'[e.when.artifact] = file[e.when.artifact]
  BY FlightFacts
<1>2. ASSUME NEW s \in Node, Skips(s, n, status, file) PROVE Skips(s, n, status', file')
  <2>1. PICK st2, fl2 : st2 = status' /\ fl2 = file'
    OBVIOUS
  <2>2. /\ \A m \in Node : status[m] \in TerminalSuccess => st2[m] = status[m]
        /\ \A e \in def.edges :
             e.when # Always /\ (\A p \in artifact_producers(def, e.when.artifact) : status[p] \in TerminalSuccess)
               => fl2[e.when.artifact] = file[e.when.artifact]
    BY <1>1, <2>1
  <2>3. Skips(s, n, st2, fl2)
    BY <1>2, <2>2, SkipsLater
  <2> QED BY <2>1, <2>3
<1>3. Skipped(n) => Skipped(n)'
  <2>1. \A s \in Node : Skips(s, n, status', file') <=> Skips(s, n, status, file)'
    BY SkipsPrimed
  <2> QED BY <1>2, <2>1 DEF Skipped
<1>4. ASSUME NEW e \in def.edges, SettledEdge(e) PROVE SettledEdge(e)'
  <2>1. CASE e.when = Always
    BY <2>1 DEF SettledEdge
  <2>2. CASE OvertakenCondition(e)
    BY <2>2 DEF SettledEdge, OvertakenCondition, artifact_producers
  <2>3. CASE e.when # Always /\ ~ OvertakenCondition(e)
    <3>1. condition_matches(e.when, file) /\ \A p \in artifact_producers(def, e.when.artifact) : status[p] \in TerminalSuccess
      BY <1>4, <2>3 DEF SettledEdge
    <3>2. file'[e.when.artifact] = file[e.when.artifact]
      BY <1>1, <2>3, <3>1
    <3>3. \A p \in artifact_producers(def, e.when.artifact) : status'[p] \in TerminalSuccess
      BY <3>1 DEF artifact_producers
    <3>4. condition_matches(e.when, file)'
      BY <3>1, <3>2 DEF condition_matches
    <3> QED BY <3>3, <3>4 DEF SettledEdge, artifact_producers
  <2> QED BY <2>1, <2>2, <2>3
<1>5. Stands(n) => Stands(n)'
  BY <1>4 DEF Stands, Incoming
<1> QED BY <1>3, <1>5

LEMMA GatedSame == def' = def => (SelfGated' <=> SelfGated)
BY DEF SelfGated, artifact_producers, branch_gated_keys, dependency_downstream, walk_downstream,
       dependency_children, explicit_children, consumer_edges, Consumers, Successors

\* A pass reads, and judges.
LEMMA VerdictScan == TypeOK /\ VerdictInv /\ Scan => VerdictInv'
<1> SUFFICES ASSUME TypeOK, VerdictInv, Scan, ~ SelfGated' PROVE VerdictInv'
  BY DEF VerdictInv
<1>1. UNCHANGED <<def, gen, status, file, ready, overtaken>> /\ pass'.phase = "read"
  BY DEF Scan, TypeOK
<1>2. ~ SelfGated /\ SkippedIsJudged /\ OfferedStands /\ StartedStands
  BY <1>1, GatedSame DEF VerdictInv
<1>3. \A n \in Node : (Skipped(n) => Skipped(n)') /\ (Stands(n) => Stands(n)')
  BY <1>1, <1>2, ForwardKeeps DEF TypeOK
<1>4. ready.nodes \subseteq Node
  BY DEF TypeOK
<1> QED BY <1>1, <1>2, <1>3, <1>4 DEF VerdictInv, SkippedIsJudged, PassIsJudged, OfferedStands, StartedStands

LEMMA VerdictJudge == TypeOK /\ FreshInv /\ VerdictInv /\ Judge => VerdictInv'
<1> SUFFICES ASSUME TypeOK, FreshInv, VerdictInv, Judge, ~ SelfGated' PROVE VerdictInv'
  BY DEF VerdictInv
<1>1. /\ UNCHANGED <<def, gen, status, file, ready, overtaken>> /\ pass.phase = "read"
      /\ pass'.generation = pass.generation
      /\ pass'.unselected = evaluate_branches(def, pass.status, file)
  BY DEF Judge, TypeOK
<1>2. ~ SelfGated /\ SkippedIsJudged /\ OfferedStands /\ StartedStands
  BY <1>1, GatedSame DEF VerdictInv
<1>3. \A n \in Node : (Skipped(n) => Skipped(n)') /\ (Stands(n) => Stands(n)')
  BY <1>1, <1>2, ForwardKeeps DEF TypeOK
<1>4. ready.nodes \subseteq Node
  BY DEF TypeOK
<1>5. ASSUME pass.generation = gen, NEW n \in pass'.unselected PROVE Skipped(n) /\ n \in Node
  <2>1. n \in evaluate_branches(def, pass.status, file)
    BY <1>1
  <2>2. PICK s \in Node : Skips(s, n, pass.status, file)
    BY <2>1, VerdictSkips
  <2>3. \A m \in Node : pass.status[m] \in TerminalSuccess => status[m] = pass.status[m]
    BY <1>1, <1>5 DEF FreshInv, ReadHasEnded
  <2>4. Skips(s, n, status, file)
    BY <1>2, <2>2, <2>3, SkipsLater DEF TypeOK
  <2>5. n \in Node
    BY <2>1, VerdictType, DefinitionType DEF TypeOK
  <2> QED BY <2>4, <2>5 DEF Skipped
<1>6. PassIsJudged'
  BY <1>1, <1>3, <1>5 DEF PassIsJudged
<1> QED BY <1>1, <1>2, <1>3, <1>4, <1>6 DEF VerdictInv, SkippedIsJudged, OfferedStands, StartedStands

\* A node starts, and ends.
LEMMA VerdictStart ==
  ASSUME TypeOK, VerdictInv, NEW n \in Node, Start(n)
  PROVE  VerdictInv'
<1> SUFFICES ASSUME ~ SelfGated' PROVE VerdictInv'
  BY DEF VerdictInv
<1>1. /\ UNCHANGED <<def, gen, file, pass, ready, overtaken>> /\ status' = [status EXCEPT ![n] = "running"]
      /\ n \in ready.nodes /\ ready.generation = gen /\ status[n] \in Runnable
  BY DEF Start
<1>2. ~ SelfGated /\ SkippedIsJudged /\ PassIsJudged /\ OfferedStands /\ StartedStands
  BY <1>1, GatedSame DEF VerdictInv
<1>3. \A m \in Node : status'[m] = IF m = n THEN "running" ELSE status[m]
  BY <1>1 DEF TypeOK
<1>4. \A m \in Node : status[m] \in TerminalSuccess => status'[m] = status[m]
  BY <1>1, <1>3 DEF TerminalSuccess, Runnable
<1>5. \A m \in Node : (Skipped(m) => Skipped(m)') /\ (Stands(m) => Stands(m)')
  BY <1>1, <1>2, <1>4, ForwardKeeps DEF TypeOK
<1>6. Stands(n)
  BY <1>1, <1>2 DEF OfferedStands
<1>7. ready.nodes \subseteq Node /\ pass.unselected \subseteq Node
  BY DEF TypeOK
<1> QED BY <1>1, <1>2, <1>3, <1>5, <1>6, <1>7
        DEF VerdictInv, SkippedIsJudged, PassIsJudged, OfferedStands, StartedStands

LEMMA VerdictEnd ==
  ASSUME TypeOK, VerdictInv, NEW n \in Node, Finish(n) \/ Fail(n)
  PROVE  VerdictInv'
<1> SUFFICES ASSUME ~ SelfGated' PROVE VerdictInv'
  BY DEF VerdictInv
<1>1. /\ UNCHANGED <<def, gen, pass, ready, overtaken>> /\ status[n] = "running"
      /\ \A m \in Node : m # n => status'[m] = status[m]
      /\ status'[n] \in {"completed", "failed"}
  BY DEF Finish, Fail, TypeOK
<1>2. ~ SelfGated /\ SkippedIsJudged /\ PassIsJudged /\ OfferedStands /\ StartedStands
  BY <1>1, GatedSame DEF VerdictInv
<1>3. \A m \in Node : status[m] \in TerminalSuccess => status'[m] = status[m]
  BY <1>1 DEF TerminalSuccess
<1>4. ASSUME NEW x \in Name, \A p \in artifact_producers(def, x) : status[p] \in TerminalSuccess
      PROVE  file'[x] = file[x]
  <2>1. x \notin def.outputs[n]
    BY <1>1, <1>4 DEF artifact_producers, TerminalSuccess
  <2> QED BY <2>1 DEF Finish, Fail
<1>5. \A m \in Node : (Skipped(m) => Skipped(m)') /\ (Stands(m) => Stands(m)')
  BY <1>1, <1>2, <1>3, <1>4, ForwardKeeps DEF TypeOK
<1>6. Stands(n)
  BY <1>1, <1>2 DEF StartedStands
<1>7. ready.nodes \subseteq Node /\ pass.unselected \subseteq Node
  BY DEF TypeOK
<1> QED BY <1>1, <1>2, <1>5, <1>6, <1>7
        DEF VerdictInv, SkippedIsJudged, PassIsJudged, OfferedStands, StartedStands

\* A pass writes what it has judged, and offers what is ready.
LEMMA VerdictMark == TypeOK /\ FreshInv /\ VerdictInv /\ Mark => VerdictInv'
<1> SUFFICES ASSUME TypeOK, FreshInv, VerdictInv, Mark, ~ SelfGated' PROVE VerdictInv'
  BY DEF VerdictInv
<1>1. /\ UNCHANGED <<def, gen, file>> /\ pass.phase = "judged" /\ pass'.phase = "idle"
      /\ status' = IF VerdictCurrent THEN WithoutBranches(status) ELSE status
      /\ ready' = [generation |-> pass.generation,
                   nodes |-> find_ready_nodes(def, WithoutBranches(pass.status), file)]
      /\ overtaken' = IF VerdictCurrent THEN overtaken \cup ClaimedMeanwhile ELSE overtaken
  BY DEF Mark, IdlePass
<1>2. ~ SelfGated /\ SkippedIsJudged /\ PassIsJudged /\ OfferedStands /\ StartedStands
  BY <1>1, GatedSame DEF VerdictInv
<1>3. \A m \in Node : status'[m] = IF VerdictCurrent /\ m \in pass.unselected /\ status[m] \in Runnable
                                   THEN "not_applicable" ELSE status[m]
  BY <1>1 DEF WithoutBranches
<1>4. \A m \in Node : status[m] \in TerminalSuccess => status'[m] = status[m]
  BY <1>3 DEF TerminalSuccess, Runnable
<1>5. \A m \in Node : (Skipped(m) => Skipped(m)') /\ (Stands(m) => Stands(m)')
  BY <1>1, <1>2, <1>4, ForwardKeeps DEF TypeOK
<1>6. SkippedIsJudged'
  BY <1>1, <1>2, <1>3, <1>5 DEF SkippedIsJudged, PassIsJudged, VerdictCurrent
<1>7. StartedStands'
  BY <1>2, <1>3, <1>5 DEF StartedStands
<1>8. PassIsJudged'
  BY <1>1 DEF PassIsJudged
<1>9. OfferedStands'
  <2> SUFFICES ASSUME pass.generation = gen, NEW n \in ready'.nodes PROVE Stands(n)'
    BY <1>1 DEF OfferedStands
  <2>1. PICK st : st = WithoutBranches(pass.status)
    OBVIOUS
  <2>2. n \in Node /\ n \in find_ready_nodes(def, st, file)
    BY <1>1, <2>1 DEF find_ready_nodes
  <2>3. /\ Incoming(n) # {} => selected_edges(Incoming(n), file) # {}
        /\ \A e \in Incoming(n) : ~ condition_producer_in_flight(def, e, st)
    BY <2>2 DEF find_ready_nodes, Incoming
  <2>4. CASE Incoming(n) = {}
    BY <1>1, <2>4 DEF Stands, Incoming
  <2>5. CASE Incoming(n) # {}
    <3>1. PICK e \in Incoming(n) : e.when = Always \/ condition_matches(e.when, file)
      BY <2>3, <2>5 DEF selected_edges
    <3>2. e \in def.edges /\ ~ InFlight(e, st)
      BY <2>3 DEF Incoming, InFlight
    <3>3. SettledEdge(e)'
      <4>1. CASE e.when = Always
        BY <4>1 DEF SettledEdge
      <4>2. CASE e.when # Always
        <5>1. \A p \in artifact_producers(def, e.when.artifact) : p \in Node /\ st[p] \in TerminalSuccess
          BY <1>2, <3>2, <4>2, FlightFacts DEF TypeOK, artifact_producers
        <5>2. ASSUME NEW p \in Node, st[p] \in TerminalSuccess PROVE status'[p] \in TerminalSuccess \/ p \in overtaken'
          <6>1. CASE pass.status[p] \in TerminalSuccess
            BY <1>1, <1>4, <6>1 DEF FreshInv, ReadHasEnded
          <6>2. CASE pass.status[p] \notin TerminalSuccess
            <7>1. p \in pass.unselected /\ pass.status[p] \in Runnable
              BY <2>1, <5>2, <6>2 DEF WithoutBranches
            <7>2. VerdictCurrent
              BY DEF VerdictCurrent
            <7> QED BY <1>1, <1>3, <7>1, <7>2 DEF ClaimedMeanwhile, TerminalSuccess
          <6> QED BY <6>1, <6>2
        <5>3. CASE \E p \in artifact_producers(def, e.when.artifact) : p \in overtaken'
          BY <1>1, <4>2, <5>3 DEF SettledEdge, OvertakenCondition, artifact_producers
        <5>4. CASE \A p \in artifact_producers(def, e.when.artifact) : status'[p] \in TerminalSuccess
          BY <1>1, <3>1, <4>2, <5>4 DEF SettledEdge, artifact_producers, condition_matches
        <5> QED BY <5>1, <5>2, <5>3, <5>4
      <4> QED BY <4>1, <4>2
    <3> QED BY <1>1, <3>3 DEF Stands, Incoming
  <2> QED BY <2>4, <2>5
<1> QED BY <1>6, <1>7, <1>8, <1>9 DEF VerdictInv

\* An operator reruns a node.
LEMMA VerdictRerun ==
  ASSUME TypeOK, FreshInv, VerdictInv, NEW r \in Node, Rerun(r)
  PROVE  VerdictInv'
<1> SUFFICES ASSUME ~ SelfGated' PROVE VerdictInv'
  BY DEF VerdictInv
<1>1. PICK reset : reset = rerun_reset_closure(def, r)
  OBVIOUS
<1>2. /\ UNCHANGED <<def, pass, ready>> /\ gen' = gen + 1 /\ overtaken' = overtaken \ reset
  BY <1>1 DEF Rerun
<1>3. ~ SelfGated /\ SkippedIsJudged /\ StartedStands /\ def \in Definitions
  BY <1>2, GatedSame DEF VerdictInv, TypeOK
<1>4. /\ reset \in SUBSET Node /\ Successors(dependency_children(def), reset) \subseteq reset
      /\ \A m \in Node : IF m \in reset THEN status'[m] \in Runnable ELSE status'[m] = status[m]
      /\ \A x \in Name : artifact_producers(def, x) \cap reset = {} => file'[x] = file[x]
  BY <1>1, <1>3, RerunLeaves
<1>5. gen \in Nat /\ pass.generation <= gen /\ ready.generation <= gen
      /\ pass.generation \in Nat /\ ready.generation \in Nat
  BY SchedulingAssumption DEF TypeOK, Generations, FreshInv, Past
<1>6. PassIsJudged' /\ OfferedStands'
  BY <1>2, <1>5 DEF PassIsJudged, OfferedStands
<1>7. SkippedIsJudged'
  <2> SUFFICES ASSUME NEW n \in Node, status'[n] = "not_applicable" PROVE Skipped(n)'
    BY DEF SkippedIsJudged
  <2>1. n \notin reset /\ status[n] = "not_applicable"
    BY <1>4 DEF Runnable
  <2>2. PICK s \in Node : Skips(s, n, status, file)
    BY <1>3, <2>1 DEF SkippedIsJudged, Skipped
  <2>3. Skips(s, n, status', file')
    BY <1>1, <1>3, <2>1, <2>2, SkipsAfterRerun
  <2>4. Skips(s, n, status', file') <=> Skips(s, n, status, file)'
    BY <1>2, SkipsPrimed
  <2> QED BY <2>3, <2>4 DEF Skipped
<1>8. StartedStands'
  <2> SUFFICES ASSUME NEW n \in Node, status'[n] \in {"running", "completed"} PROVE Stands(n)'
    BY DEF StartedStands
  <2>1. n \notin reset /\ Stands(n)
    BY <1>3, <1>4 DEF Runnable, StartedStands
  <2>2. ASSUME NEW e \in Incoming(n), SettledEdge(e) PROVE SettledEdge(e)'
    <3>1. e \in def.edges /\ e.target = n
      BY DEF Incoming
    <3>2. CASE e.when = Always
      BY <3>2 DEF SettledEdge
    <3>3. CASE e.when # Always
      <4>1. \A p \in artifact_producers(def, e.when.artifact) : p \in Node /\ p \notin reset
        BY <1>3, <1>4, <2>1, <3>1, <3>3, ConditionDepends DEF Successors
      <4>2. file'[e.when.artifact] = file[e.when.artifact]
        BY <1>3, <1>4, <3>1, <3>3, <4>1, FlightFacts
      <4>3. \A p \in artifact_producers(def, e.when.artifact) : status'[p] = status[p]
        BY <1>4, <4>1
      <4>4. CASE OvertakenCondition(e)
        BY <1>2, <4>1, <4>4 DEF SettledEdge, OvertakenCondition, artifact_producers
      <4>5. CASE ~ OvertakenCondition(e)
        BY <1>2, <2>2, <3>3, <4>2, <4>3, <4>5 DEF SettledEdge, artifact_producers, condition_matches
      <4> QED BY <4>4, <4>5
    <3> QED BY <3>2, <3>3
  <2> QED BY <1>2, <2>1, <2>2 DEF Stands, Incoming
<1> QED BY <1>6, <1>7, <1>8 DEF VerdictInv

LEMMA VerdictStutter == TypeOK /\ VerdictInv /\ UNCHANGED vars => VerdictInv'
<1> SUFFICES ASSUME TypeOK, VerdictInv, UNCHANGED vars, ~ SelfGated' PROVE VerdictInv'
  BY DEF VerdictInv
<1>1. UNCHANGED <<def, gen, status, file, pass, ready, overtaken>>
  BY DEF vars
<1>2. ~ SelfGated /\ SkippedIsJudged /\ PassIsJudged /\ OfferedStands /\ StartedStands
  BY <1>1, GatedSame DEF VerdictInv
<1>3. \A n \in Node : (Skipped(n) => Skipped(n)') /\ (Stands(n) => Stands(n)')
  BY <1>1, <1>2, ForwardKeeps DEF TypeOK
<1>4. ready.nodes \subseteq Node /\ pass.unselected \subseteq Node
  BY DEF TypeOK
<1> QED BY <1>1, <1>2, <1>3, <1>4 DEF VerdictInv, SkippedIsJudged, PassIsJudged, OfferedStands, StartedStands

LEMMA VerdictStep == TypeOK /\ FreshInv /\ VerdictInv /\ [Next]_vars => VerdictInv'
<1> SUFFICES ASSUME TypeOK, FreshInv, VerdictInv, [Next]_vars PROVE VerdictInv'
  OBVIOUS
<1>1. CASE Scan
  BY <1>1, VerdictScan
<1>2. CASE Judge
  BY <1>2, VerdictJudge
<1>3. CASE Mark
  BY <1>3, VerdictMark
<1>4. ASSUME NEW n \in Node, Start(n) \/ Finish(n) \/ Fail(n) \/ Rerun(n) PROVE VerdictInv'
  <2>1. CASE Start(n)
    BY <2>1, VerdictStart
  <2>2. CASE Finish(n) \/ Fail(n)
    BY <2>2, VerdictEnd
  <2>3. CASE Rerun(n)
    BY <2>3, VerdictRerun
  <2> QED BY <1>4, <2>1, <2>2, <2>3
<1>5. CASE UNCHANGED vars
  BY <1>5, VerdictStutter
<1> QED BY <1>1, <1>2, <1>3, <1>4, <1>5 DEF Next

LEMMA FreshStep == TypeOK /\ FreshInv /\ [Next]_vars => FreshInv'
BY FreshScan, FreshJudge, FreshMark, FreshStart, FreshFinish, FreshFail, FreshRerun, FreshStutter DEF Next

LEMMA VerdictInvHolds == Spec => []VerdictInv
<1>1. Init => FreshInv /\ VerdictInv
  BY FreshInit, VerdictInit
<1>2. TypeOK /\ FreshInv /\ VerdictInv /\ [Next]_vars => FreshInv' /\ VerdictInv'
  BY VerdictStep, FreshStep
<1> QED BY <1>1, <1>2, BranchTypes, PTL DEF Spec

\* When all nodes have ended a skipped node is one that the final files skip,
\* and a node that ran has an edge to it that they select, unless a producer of
\* the condition was overtaken: no verdict rests on a condition file that was
\* later rewritten or staged away (condition_barrier,
\* mark_nodes_not_applicable_many).
THEOREM VerdictStandsHolds == Spec => []VerdictStands
<1>1. TypeOK /\ VerdictInv => VerdictStands
  <2> SUFFICES ASSUME TypeOK, VerdictInv, \A n \in Node : status[n] \in TerminalSuccess, ~ SelfGated,
                      NEW n \in Node
               PROVE  IF status[n] = "not_applicable" THEN n \in evaluate_branches(def, status, file)
                      ELSE LET incoming == {e \in def.edges : e.target = n}
                           IN  \/ incoming = {} \/ selected_edges(incoming, file) # {}
                               \/ \E e \in incoming : OvertakenCondition(e)
    BY DEF VerdictStands
  <2>1. SkippedIsJudged /\ StartedStands /\ def \in Definitions
    BY DEF VerdictInv, TypeOK
  <2>2. \A e \in def.edges : ~ InFlight(e, status)
    BY <2>1, FlightFacts DEF artifact_producers
  <2>3. CASE status[n] = "not_applicable"
    <3>1. PICK s \in Node : Skips(s, n, status, file)
      BY <2>1, <2>3 DEF SkippedIsJudged, Skipped
    <3>2. n \in evaluate_branches(def, status, file)
      BY <2>2, <3>1, SkipsIsVerdict
    <3> QED BY <2>3, <3>2
  <2>4. CASE status[n] # "not_applicable"
    <3>1. Stands(n)
      BY <2>1, <2>4 DEF StartedStands, TerminalSuccess
    <3> QED BY <2>4, <3>1 DEF Stands, Incoming, SettledEdge, selected_edges
  <2> QED BY <2>3, <2>4
<1> QED BY <1>1, VerdictInvHolds, BranchTypes, PTL

-----------------------------------------------------------------------------
(* Who waits for whom.  A node that waits and has none of the named        *)
(* excuses waits for another one that waits: for a source of an edge to    *)
(* it, or for an ancestor that does not depend on it.                      *)

LEMMA WalkStep ==
  ASSUME NEW R, NEW a, NEW b \in Node, <<a, b>> \in R
  PROVE  b \in walk_downstream(R, {a})
<1>1. b \in Successors(R, {a})
  BY DEF Successors
<1> QED BY <1>1, WalkIsClosed

LEMMA WalkTransitive ==
  ASSUME NEW R, NEW a, NEW b \in walk_downstream(R, {a}), NEW c \in walk_downstream(R, {b})
  PROVE  c \in walk_downstream(R, {a})
<1>1. Successors(R, walk_downstream(R, {a})) \subseteq walk_downstream(R, {a})
  BY WalkIsClosed
<1>2. Successors(R, {b}) \subseteq walk_downstream(R, {a})
  BY <1>1 DEF Successors
<1> QED BY <1>1, <1>2, WalkIsLeast

\* A walk has a last step.
LEMMA WalkLast ==
  ASSUME NEW R, NEW a, NEW c \in walk_downstream(R, {a})
  PROVE  c \in Node /\ \E b : <<b, c>> \in R /\ b \in {a} \cup walk_downstream(R, {a})
<1> DEFINE W == walk_downstream(R, {a})
           T == {m \in Node : \E b \in {a} \cup W : <<b, m>> \in R}
<1>1. W \subseteq Node /\ Successors(R, {a}) \subseteq W /\ Successors(R, W) \subseteq W
  BY WalkIsClosed
<1>2. T \subseteq W
  BY <1>1 DEF Successors
<1>3. Successors(R, {a}) \subseteq T
  BY DEF Successors
<1>4. Successors(R, T) \subseteq T
  BY <1>2 DEF Successors
<1> HIDE DEF T
<1>5. W \subseteq T
  BY <1>3, <1>4, WalkIsLeast
<1> QED BY <1>1, <1>5 DEF T

\* Of finitely many sets some has no other below it.
LEMMA SomeIsMinimal ==
  ASSUME NEW S \in SUBSET Node, S # {}, NEW F \in [Node -> SUBSET Node]
  PROVE  \E n \in S : \A m \in S : F[m] \subseteq F[n] => F[m] = F[n]
<1> DEFINE B == {F[n] : n \in S}
           R == StrictSubsetOrdering(Node)
<1>1. IsWellFoundedOn(R, SUBSET Node)
  BY GraphAssumption, FS_FiniteSubsetsOfFinite, FS_StrictSubsetOrderingWellFounded
<1>2. B \subseteq SUBSET Node /\ B # {}
  OBVIOUS
<1>3. PICK t \in B : \A u \in B : ~ (<<u, t>> \in R)
  <2> HIDE DEF B, R
  <2> QED BY <1>1, <1>2, WFMin
<1>4. PICK n \in S : t = F[n]
  BY <1>3
<1>5. ASSUME NEW m \in S, F[m] \subseteq F[n] PROVE F[m] = F[n]
  BY <1>2, <1>3, <1>4, <1>5 DEF StrictSubsetOrdering
<1> QED BY <1>5

\* A node keeps another waiting: it comes before, either along an edge or
\* without coming after as well.
Blocks(b, k) ==
  /\ b \in dependency_ancestors(def, k)
  /\ <<b, k>> \in explicit_children(def) \/ (b # k /\ b \notin dependency_downstream(def, k))

\* Waiting is no circle: edges have none.
LEMMA SomeIsUnblocked ==
  ASSUME def \in Definitions, NEW W \in SUBSET Node, W # {}
  PROVE  \E k \in W : \A b \in W : ~ Blocks(b, k)
<1> SUFFICES ASSUME \A k \in W : \E b \in W : Blocks(b, k) PROVE FALSE
  OBVIOUS
<1> DEFINE X == explicit_children(def)
           D == dependency_children(def)
           A == [m \in Node |-> {m} \cup dependency_ancestors(def, m)]
           E == [m \in Node |-> {a \in Node : m \in walk_downstream(X, {a})}]
<1>1. A \in [Node -> SUBSET Node] /\ E \in [Node -> SUBSET Node]
  BY DEF dependency_ancestors
<1>2. PICK n \in W : \A m \in W : A[m] \subseteq A[n] => A[m] = A[n]
  <2> HIDE DEF A
  <2> QED BY ONLY <1>1, SomeIsMinimal, W \in SUBSET Node, W # {}
<1> DEFINE C == {k \in W : A[k] = A[n]}
<1>3. PICK k \in C : \A m \in C : E[m] \subseteq E[k] => E[m] = E[k]
  <2>1. C \in SUBSET Node /\ C # {}
    OBVIOUS
  <2> HIDE DEF C, E
  <2> QED BY ONLY <1>1, <2>1, SomeIsMinimal
<1>4. PICK b \in W : Blocks(b, k)
  OBVIOUS
<1>5. k \in Node /\ b \in Node /\ A[k] = A[n] /\ k \in walk_downstream(D, {b})
  BY <1>4 DEF Blocks, dependency_ancestors, dependency_downstream
<1>6. A[b] \subseteq A[k]
  <2>1. ASSUME NEW m \in Node, b \in walk_downstream(D, {m}) PROVE k \in walk_downstream(D, {m})
    BY <1>5, <2>1, WalkTransitive
  <2> QED BY <1>5, <2>1 DEF dependency_ancestors, dependency_downstream
<1>7. b \in C /\ A[b] = A[k]
  BY <1>2, <1>5, <1>6
<1>8. k = b \/ b \in dependency_downstream(def, k)
  BY <1>5, <1>7 DEF dependency_ancestors
<1>9. <<b, k>> \in X
  BY <1>4, <1>8 DEF Blocks
<1>10. k \in walk_downstream(X, {b})
  BY <1>5, <1>9, WalkStep
<1>11. E[b] \subseteq E[k]
  <2>1. ASSUME NEW m \in Node, b \in walk_downstream(X, {m}) PROVE k \in walk_downstream(X, {m})
    BY <1>10, <2>1, WalkTransitive
  <2> QED BY <1>5, <2>1
<1>12. b \in E[k]
  BY <1>5, <1>10
<1>13. b \in walk_downstream(X, {b})
  BY <1>3, <1>5, <1>7, <1>11, <1>12
<1> QED BY <1>5, <1>13, SchedulingAssumption

\* A consumer comes after the producers of what it consumes.
LEMMA ConsumerIsBehind ==
  ASSUME NEW x \in Name, NEW p \in artifact_producers(def, x), NEW k \in Node, k \in Consumers(def, x), p # k
  PROVE  p \in dependency_ancestors(def, k)
<1>1. p \in Node /\ <<p, k>> \in dependency_children(def)
  BY DEF dependency_children, consumer_edges, artifact_producers
<1> QED BY <1>1, WalkStep DEF dependency_ancestors, dependency_downstream

\* What is in flight comes before what the edge leads to, and not after.
LEMMA FlightBlocks ==
  ASSUME TypeOK, NEW e \in def.edges, InFlight(e, status),
         NEW k \in Node, k \in branch_gated_keys(def, e.target)
  PROVE  \E p \in Node : status[p] \notin TerminalSuccess /\ Blocks(p, k)
<1>1. /\ e.target \in Node /\ e.when # Always /\ e.when.artifact \in Name
      /\ e.target \in Consumers(def, e.when.artifact)
  BY DefinitionType DEF TypeOK, Edge, Condition, InFlight, condition_producer_in_flight, Consumers
<1>2. PICK p \in artifact_producers(def, e.when.artifact) \ branch_gated_keys(def, e.target) :
        status[p] \notin TerminalSuccess
  BY DEF InFlight, condition_producer_in_flight
<1>3. p \in Node /\ p # e.target /\ p # k
  BY <1>2 DEF artifact_producers, branch_gated_keys
<1>4. p \in dependency_ancestors(def, e.target)
  BY <1>1, <1>2, <1>3, ConsumerIsBehind
<1>5. p \in dependency_ancestors(def, k)
  BY <1>3, <1>4, WalkTransitive DEF dependency_ancestors, dependency_downstream, branch_gated_keys
<1>6. p \notin dependency_downstream(def, k)
  BY <1>2, WalkTransitive DEF dependency_downstream, branch_gated_keys
<1> QED BY <1>2, <1>3, <1>5, <1>6 DEF Blocks

-----------------------------------------------------------------------------
(* A job that is stuck.                                                    *)

NobodyRuns == \A n \in Node : status[n] # "running"
\* A queued job runs nothing, and a node that has completed left its outputs.
QueuedIsIdle == job = "queued" => NobodyRuns
OutputsWritten == \A n \in Node : status[n] = "completed" => \A x \in def.outputs[n] : file[x] # Absent

Excused(n) ==
  \/ ReadsOwnResult(n) \/ NobodyWrites(n) \/ BelowSkipped(n)
  \/ Undecided(n) \/ OnNoSide(n) \/ BelowFailed(n)

\* An ancestor that has not ended waits as well.
LEMMA AncestorWaits ==
  ASSUME TypeOK, NobodyRuns, NEW k \in Node, ~ BelowFailed(k),
         NEW p \in dependency_ancestors(def, k), status[p] \notin TerminalSuccess
  PROVE  p \in Waiting
<1>1. p \in Node /\ status[p] # "failed" /\ status[p] # "running" /\ status[p] \in NodeStatuses
  BY DEF TypeOK, BelowFailed, NobodyRuns, dependency_ancestors
<1> QED BY <1>1 DEF Waiting, NodeStatuses

\* A producer of an input comes before, and not after.
LEMMA ProducerBlocks ==
  ASSUME TypeOK, NEW k \in Node, ~ ReadsOwnResult(k), NEW x \in def.inputs[k],
         NEW p \in artifact_producers(def, x) \ {k}
  PROVE  Blocks(p, k)
<1>1. x \in Name
  BY DefinitionType DEF TypeOK
<1>2. p \in dependency_ancestors(def, k)
  BY <1>1, ConsumerIsBehind DEF Consumers
<1>3. p \notin dependency_downstream(def, k)
  BY DEF ReadsOwnResult
<1> QED BY <1>2, <1>3 DEF Blocks

\* A node that no edge selects, with sources that have all completed, is
\* skipped by the last of them.
LEMMA LastSourceSkips ==
  ASSUME TypeOK, NEW k \in Node, Incoming(k) # {},
         \A e \in Incoming(k) : ~ Selects(e, file) /\ status[e.source] = "completed",
         \A e \in def.edges : InFlight(e, status) => k \notin branch_gated_keys(def, e.target)
  PROVE  Undecided(k)
<1> DEFINE X == explicit_children(def)
           S == {e.source : e \in Incoming(k)}
           F == [m \in Node |-> walk_downstream(X, {m})]
<1>1. \A e \in def.edges : e.source \in Node /\ e.target \in Node /\ <<e.source, e.target>> \in X
  BY DefinitionType DEF TypeOK, Edge, explicit_children
<1>2. S \in SUBSET Node /\ S # {}
  BY <1>1 DEF Incoming
<1>3. F \in [Node -> SUBSET Node]
  BY WalkIsClosed
<1>4. PICK q \in S : \A m \in S : F[m] \subseteq F[q] => F[m] = F[q]
  <2> HIDE DEF S, F
  <2> QED BY <1>2, <1>3, SomeIsMinimal
<1>5. PICK e0 \in Incoming(k) : e0.source = q
  BY <1>4
<1>6. q \in Node /\ e0 \in From(q) /\ e0.target = k /\ status[q] = "completed" /\ ~ Selects(e0, file)
  BY <1>1, <1>5 DEF Incoming, From
<1>7. k \in Behind(k) /\ k \in branch_gated_keys(def, k)
  BY DEF Behind, branch_gated_keys
<1>8. ASSUME NEW e \in From(q), Selects(e, file), k \in Behind(e.target) PROVE FALSE
  <2>1. e \in def.edges /\ e.source = q
    BY DEF From
  <2>2. e.target # k
    BY <1>8, <2>1 DEF Incoming
  <2>3. k \in walk_downstream(X, {e.target})
    BY <1>8, <2>2 DEF Behind
  <2>4. PICK b : <<b, k>> \in X /\ b \in {e.target} \cup walk_downstream(X, {e.target})
    BY <2>3, WalkLast
  <2>5. e.target \in walk_downstream(X, {q})
    BY <1>1, <2>1, WalkStep
  <2>6. b \in walk_downstream(X, {q})
    BY <2>4, <2>5, WalkTransitive
  <2>7. b \in S /\ b \in Node
    <3>1. PICK f \in def.edges : <<b, k>> = <<f.source, f.target>>
      BY <2>4 DEF explicit_children
    <3> QED BY <1>1, <3>1 DEF Incoming
  <2>8. walk_downstream(X, {b}) \subseteq walk_downstream(X, {q})
    BY <2>6, WalkTransitive
  <2>9. b \in walk_downstream(X, {b})
    BY <1>4, <1>6, <2>6, <2>7, <2>8
  <2> QED BY <2>7, <2>9, SchedulingAssumption DEF TypeOK
<1>9. Skips(q, k, status, file)
  BY <1>6, <1>7, <1>8 DEF Skips, From
<1> QED BY <1>6, <1>9, SkipsIsVerdict DEF Undecided

\* A node that waits without an excuse waits for another.
LEMMA UnexcusedIsBlocked ==
  ASSUME TypeOK, NobodyRuns, OutputsWritten, NEW k \in Waiting,
         k \notin find_ready_nodes(def, status, file), ~ Excused(k)
  PROVE  \E b \in Waiting : Blocks(b, k)
<1>1. k \in Node /\ status[k] \in Runnable
  BY DEF Waiting
<1>2. /\ ~ ReadsOwnResult(k) /\ ~ NobodyWrites(k) /\ ~ BelowSkipped(k)
      /\ ~ Undecided(k) /\ ~ OnNoSide(k) /\ ~ BelowFailed(k)
  BY DEF Excused
<1>3. ASSUME NEW b, Blocks(b, k), status[b] \notin TerminalSuccess PROVE \E a \in Waiting : Blocks(a, k)
  BY <1>1, <1>2, <1>3, AncestorWaits DEF Blocks
<1>4. CASE \E e \in def.edges : InFlight(e, status) /\ k \in branch_gated_keys(def, e.target)
  BY <1>1, <1>3, <1>4, FlightBlocks
<1>5. CASE \E x \in def.inputs[k] : file[x] = Absent
  <2>1. PICK x \in def.inputs[k] : file[x] = Absent
    BY <1>5
  <2>2. PICK p \in artifact_producers(def, x) \ {k} : status[p] # "not_applicable"
    BY <1>2, <2>1 DEF NobodyWrites
  <2>3. status[p] # "completed"
    BY <2>1, <2>2 DEF OutputsWritten, artifact_producers
  <2>4. status[p] \notin TerminalSuccess
    BY <2>2, <2>3 DEF TerminalSuccess
  <2> QED BY <1>1, <1>2, <1>3, <2>4, ProducerBlocks
<1>6. CASE has_unfinished_implicit_producer(def, k, status)
  <2>1. PICK x \in def.inputs[k] : \E p \in artifact_producers(def, x) \ {k} : status[p] \notin TerminalSuccess
    BY <1>6 DEF has_unfinished_implicit_producer
  <2> QED BY <1>1, <1>2, <1>3, <2>1, ProducerBlocks
<1>7. ASSUME NEW e \in Incoming(k), status[e.source] \notin TerminalSuccess PROVE \E b \in Waiting : Blocks(b, k)
  <2>1. e.source \in Node /\ <<e.source, k>> \in explicit_children(def)
    BY DefinitionType DEF TypeOK, Edge, Incoming, explicit_children
  <2>2. e.source \in dependency_ancestors(def, k)
    BY <1>1, <2>1, WalkStep DEF dependency_children, dependency_ancestors, dependency_downstream
  <2> QED BY <1>3, <1>7, <2>1, <2>2 DEF Blocks
<1>8. CASE \E e \in selected_edges(Incoming(k), file) : status[e.source] # "completed"
  BY <1>2, <1>7, <1>8 DEF BelowSkipped, Incoming, selected_edges, TerminalSuccess
<1>9. CASE /\ Incoming(k) # {} /\ selected_edges(Incoming(k), file) = {}
           /\ ~ \E e \in def.edges : InFlight(e, status) /\ k \in branch_gated_keys(def, e.target)
  <2>1. \A e \in Incoming(k) : ~ Selects(e, file)
    BY <1>9 DEF selected_edges, Selects
  <2>2. \A e \in Incoming(k) : status[e.source] # "not_applicable"
    BY <1>2, <1>9 DEF OnNoSide, Incoming
  <2>3. CASE \A e \in Incoming(k) : status[e.source] = "completed"
    BY <1>1, <1>2, <1>9, <2>1, <2>3, LastSourceSkips
  <2> QED BY <1>7, <2>2, <2>3 DEF TerminalSuccess
<1>10. \A e \in Incoming(k) : e \in def.edges /\ k \in branch_gated_keys(def, e.target)
  BY DEF Incoming, branch_gated_keys
<1> QED BY <1>1, <1>4, <1>5, <1>6, <1>8, <1>9, <1>10 DEF find_ready_nodes, Incoming, InFlight

\* The states a job starts from, and its steps.
LEMMA StuckInductive ==
  /\ Init => QueuedIsIdle /\ OutputsWritten
  /\ TypeOK /\ QueuedIsIdle /\ OutputsWritten /\ [Next]_vars => QueuedIsIdle' /\ OutputsWritten'
<1>1. Init => QueuedIsIdle /\ OutputsWritten
  BY DEF Init, QueuedIsIdle, OutputsWritten, NobodyRuns
<1> SUFFICES ASSUME TypeOK, QueuedIsIdle, OutputsWritten, [Next]_vars PROVE QueuedIsIdle' /\ OutputsWritten'
  BY <1>1
<1>2. CASE UNCHANGED vars \/ Scan \/ Judge
  BY <1>2 DEF vars, Scan, Judge, QueuedIsIdle, OutputsWritten, NobodyRuns
<1>3. CASE Mark
  BY <1>3 DEF Mark, WithoutBranches, Runnable, QueuedIsIdle, OutputsWritten, NobodyRuns
<1>4. ASSUME NEW n \in Node, Start(n) PROVE QueuedIsIdle' /\ OutputsWritten'
  BY <1>4 DEF Start, TypeOK, QueuedIsIdle, OutputsWritten
<1>5. ASSUME NEW n \in Node, Finish(n) \/ Fail(n) PROVE QueuedIsIdle' /\ OutputsWritten'
  <2>1. QueuedIsIdle'
    BY <1>5 DEF Finish, Fail, JobStatus, QueuedIsIdle, NobodyRuns
  <2>2. /\ def' = def /\ \A m \in Node : status'[m] = "completed" => status[m] = "completed" \/ (Finish(n) /\ m = n)
        /\ \A m \in Node : \A x \in def.outputs[m] : x \in Name
    BY <1>5, DefinitionType DEF Finish, Fail, TypeOK
  <2>3. Fail(n) => file' = file
    BY DEF Fail
  <2>4. Finish(n) => \A x \in Name : IF x \in def.outputs[n] THEN file'[x] # Absent ELSE file'[x] = file[x]
    <3> SUFFICES ASSUME Finish(n), NEW x \in Name
                 PROVE  IF x \in def.outputs[n] THEN file'[x] # Absent ELSE file'[x] = file[x]
      OBVIOUS
    <3>1. PICK value \in [def.outputs[n] \cap ConditionNames -> BOOLEAN] :
            file' = [y \in Name |-> IF y \notin def.outputs[n] THEN file[y]
                                    ELSE [value |-> IF y \in ConditionNames THEN value[y] ELSE TRUE,
                                          by |-> n, generation |-> gen]]
      BY DEF Finish
    <3>2. CASE x \in def.outputs[n]
      <4>1. PICK v \in BOOLEAN : file'[x] = [value |-> v, by |-> n, generation |-> gen]
        BY <3>1, <3>2
      <4>2. file'[x] \in File
        BY <1>5, <4>1 DEF File, TypeOK
      <4> QED BY <3>2, <4>2, FileAssumption
    <3> QED BY <3>1, <3>2
  <2> QED BY <1>5, <2>1, <2>2, <2>3, <2>4 DEF OutputsWritten
<1>6. ASSUME NEW n \in Node, Rerun(n) PROVE QueuedIsIdle' /\ OutputsWritten'
  <2>1. PICK reset : reset = rerun_reset_closure(def, n)
    OBVIOUS
  <2>2. /\ def' = def /\ NobodyRuns
        /\ status' = [m \in Node |-> IF m = n THEN "pending" ELSE IF m \in reset THEN "stale" ELSE status[m]]
        /\ file' = [x \in Name |-> IF x \in staging_output_names(def, reset) THEN Absent ELSE file[x]]
    BY <1>6, <2>1 DEF Rerun, NobodyRuns
  <2>3. QueuedIsIdle'
    BY <2>2 DEF QueuedIsIdle, NobodyRuns
  <2>4. ASSUME NEW m \in Node, status'[m] = "completed", NEW x \in def.outputs[m] PROVE file'[x] # Absent
    <3>1. m \notin reset /\ status[m] = "completed"
      <4>1. n \in reset
        BY <2>1, RerunResetIsLeast DEF ResetClosed
      <4> QED BY <2>2, <2>4, <4>1
    <3>2. x \notin staging_output_names(def, reset) /\ x \in Name
      BY <3>1, DefinitionType DEF staging_output_names, TypeOK
    <3> QED BY <2>2, <3>1, <3>2 DEF OutputsWritten
  <2> QED BY <2>2, <2>3, <2>4 DEF OutputsWritten
<1> QED BY <1>2, <1>3, <1>4, <1>5, <1>6 DEF Next

\* A job at rest in which nothing can start and something waits has a node with
\* one of the named reasons: the barriers for conditions, inputs and branches
\* hang it in no other way (find_ready_nodes, evaluate_branches).
THEOREM NothingElseSticksHolds == Spec => []NothingElseSticks
<1>1. TypeOK /\ QueuedIsIdle /\ OutputsWritten /\ NoMissedWakeup => NothingElseSticks
  <2> SUFFICES ASSUME TypeOK, QueuedIsIdle, OutputsWritten, NoMissedWakeup, Stuck,
                      \A n \in Waiting : ~ Excused(n)
               PROVE  FALSE
    BY DEF NothingElseSticks, Excused
  <2>1. NobodyRuns /\ find_ready_nodes(def, status, file) = {}
    BY DEF Stuck, AtRest, QueuedIsIdle, NoMissedWakeup
  <2>2. \A k \in Waiting : \E b \in Waiting : Blocks(b, k)
    BY <2>1, UnexcusedIsBlocked
  <2>3. Waiting \in SUBSET Node /\ Waiting # {} /\ def \in Definitions
    BY DEF Waiting, Stuck, TypeOK
  <2> QED BY <2>2, <2>3, SomeIsUnblocked
<1> QED BY <1>1, StuckInductive, BranchTypes, NoMissedWakeupHolds, PTL DEF Spec

=============================================================================
