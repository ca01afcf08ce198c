----------------------------- MODULE MC_Branch ------------------------------
(* Workflows of three nodes in which each node reads at most one name and  *)
(* writes at most one, and conditions ask for one of the names.            *)
EXTENDS BranchScheduling

CONSTANTS c, x, NoEdge

MCNode == 1..3
MCName == {c, x}
AtMostOne == {{}, {c}, {x}}
Pairs == {<<1, 2>>, <<1, 3>>, <<2, 3>>}
When == {NoEdge, Always} \cup [artifact : {c}, equals : {TRUE}]

EdgesOf(w) == {[source |-> p[1], target |-> p[2], when |-> w[p]] : p \in {q \in Pairs : w[q] # NoEdge}}

\* The first edge is conditional, so is perhaps the second; the first or the
\* last node writes what they ask for.
MCDefinitions ==
  { [inputs |-> i, outputs |-> o, edges |-> EdgesOf(w)] :
      i \in {f \in [MCNode -> {{}, {x}}] : f[2] = {}},
      o \in {f \in [MCNode -> AtMostOne] : f[1] = {c} \/ f[3] = {c}},
      w \in {f \in [Pairs -> When] : f[<<1, 2>>] \notin {NoEdge, Always}
                                     /\ f[<<2, 3>>] \in {NoEdge, Always}} }

\* A conditional node that would write what the next condition asks for.
TwoVerdicts ==
  { [inputs |-> [n \in MCNode |-> {}],
     outputs |-> [n \in MCNode |-> CASE n = 1 -> {c} [] n = 2 -> {x} [] OTHER -> {}],
     edges |-> {[source |-> 1, target |-> 2, when |-> [artifact |-> c, equals |-> TRUE]],
                [source |-> 1, target |-> 3, when |-> [artifact |-> x, equals |-> TRUE]]}] }

\* The branch of the third node may be judged away by the second after the
\* first has made it ready; the fourth reads what the first and the third write.
FourNodes == 1..4
LateClaim ==
  { [inputs |-> [n \in FourNodes |-> IF n = 4 THEN {x} ELSE {}],
     outputs |-> [n \in FourNodes |-> CASE n = 1 -> {c, x} [] n = 3 -> {x} [] OTHER -> {}],
     edges |-> {[source |-> 1, target |-> 3, when |-> Always],
                [source |-> 2, target |-> 3, when |-> [artifact |-> c, equals |-> TRUE]]}] }

IfC == [artifact |-> c, equals |-> TRUE]
IfX == [artifact |-> x, equals |-> TRUE]
EdgeTo(s, t, w) == [source |-> s, target |-> t, when |-> w]

\* The same late claim, of a node that rewrites what a third edge asks for.
LateCondition ==
  { [inputs |-> [n \in FourNodes |-> {}],
     outputs |-> [n \in FourNodes |-> CASE n = 1 -> {c, x} [] n = 3 -> {x} [] OTHER -> {}],
     edges |-> {EdgeTo(1, 3, Always), EdgeTo(2, 3, IfC), EdgeTo(1, 4, IfX)}] }

\* Two branches beside each other: one fails while the other is rerun and skipped.
FailedBeside ==
  { [inputs |-> [n \in FourNodes |-> {}],
     outputs |-> [n \in FourNodes |-> IF n = 1 THEN {c} ELSE {}],
     edges |-> {EdgeTo(1, 2, IfC), EdgeTo(3, 4, Always)}] }

\* A join whose two sources are skipped, each by one gate and selected by the other.
FiveNodes == 1..5
SkippedSources ==
  { [inputs |-> [n \in FiveNodes |-> {}],
     outputs |-> [n \in FiveNodes |-> CASE n = 1 -> {c} [] n = 2 -> {x} [] OTHER -> {}],
     edges |-> {EdgeTo(1, 3, IfC), EdgeTo(1, 4, Always), EdgeTo(2, 4, IfX), EdgeTo(2, 3, Always),
                EdgeTo(3, 5, IfC), EdgeTo(4, 5, IfC)}] }

=============================================================================
