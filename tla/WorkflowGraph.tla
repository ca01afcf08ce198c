--------------------------- MODULE WorkflowGraph ----------------------------
(***************************************************************************)
(* The pure algorithms over a workflow definition: who consumes what, the  *)
(* closures that resets use, which branches are unselected and which nodes *)
(* are ready.  A definition has the inputs and outputs of each node by     *)
(* artifact name, and edges that may carry a condition on an artifact.     *)
(***************************************************************************)
EXTENDS Naturals, FiniteSets

CONSTANTS
  Node,     \* executable nodes; start nodes and their edges hold nothing back and are left out
  Name,     \* artifact names
  Always,   \* the condition of an unconditional edge
  Absent    \* no such file

Condition == [artifact : Name, equals : BOOLEAN]
Edge == [source : Node, target : Node, when : Condition \cup {Always}]

Runnable == {"pending", "stale"}
TerminalSuccess == {"completed", "not_applicable"}
NodeStatuses == Runnable \cup TerminalSuccess \cup {"running", "failed"}

ASSUME GraphAssumption == IsFiniteSet(Node) /\ Always \notin Condition

-----------------------------------------------------------------------------
(* Consumption.                                                            *)

artifact_producers(d, x) == {n \in Node : x \in d.outputs[n]}

\* Declared inputs, and the targets of edges that ask for the artifact.
Consumers(d, x) ==
  {n \in Node : x \in d.inputs[n]}
    \cup {e.target : e \in {f \in d.edges : f.when # Always /\ f.when.artifact = x}}

explicit_children(d) == {<<e.source, e.target>> : e \in d.edges}
consumer_edges(d) ==
  {pc \in Node \X Node : pc[1] # pc[2] /\ \E x \in Name : pc[1] \in artifact_producers(d, x)
                                                      /\ pc[2] \in Consumers(d, x)}
dependency_children(d) == explicit_children(d) \cup consumer_edges(d)

Successors(R, S) == {n \in Node : \E s \in S : <<s, n>> \in R}

\* Everything one or more steps behind a node of S.
walk_downstream(R, S) ==
  LET seen[k \in 0..Cardinality(Node)] ==
        IF k = 0 THEN Successors(R, S) ELSE seen[k-1] \cup Successors(R, seen[k-1])
  IN  seen[Cardinality(Node)]

dependency_downstream(d, n) == walk_downstream(dependency_children(d), {n})
dependency_ancestors(d, n) == {m \in Node : n \in dependency_downstream(d, m)}

-----------------------------------------------------------------------------
(* Resets.                                                                 *)

PureOutputs(d, S) == UNION {d.outputs[n] \ d.inputs[n] : n \in S}
SharingProducers(d, S) == {n \in Node : d.outputs[n] \cap PureOutputs(d, S) # {}}

\* Faulty: producers of the same name are pulled in without what they feed.
SharedWithoutDownstream(d, S) == S \cup SharingProducers(d, S)
\* One round: producers of the same name, and what is behind them.
SharedRound(d, S) ==
  S \cup SharingProducers(d, S)
    \cup walk_downstream(dependency_children(d), SharingProducers(d, S) \ S)

shared_name_expanded_reset(d, S) ==
  LET face[k \in 0..Cardinality(Node)] == IF k = 0 THEN S ELSE SharedRound(d, face[k-1])
  IN  face[Cardinality(Node)]

rerun_reset_closure(d, n) == shared_name_expanded_reset(d, {n} \cup dependency_downstream(d, n))

\* Names whose files a reset of S stages away: pure outputs of S that nobody
\* outside S produces and nobody inside reads and rewrites.
staging_output_names(d, S) ==
  PureOutputs(d, S)
    \ ((UNION {d.outputs[n] : n \in Node \ S}) \cup (UNION {d.outputs[n] \cap d.inputs[n] : n \in S}))

-----------------------------------------------------------------------------
(* Conditions, branches, readiness: status is of nodes, file of names.     *)

condition_matches(w, file) == file[w.artifact] # Absent /\ file[w.artifact].value = w.equals
selected_edges(es, file) == {e \in es : e.when = Always \/ condition_matches(e.when, file)}

\* Faulty: only the target itself counts as inside.
TargetOnly(d, t) == {t}
\* Producers inside the branch that the edge guards cannot run before it does.
branch_gated_keys(d, t) == {t} \cup dependency_downstream(d, t)

condition_producer_in_flight(d, e, status) ==
  /\ e.when # Always
  /\ \E p \in artifact_producers(d, e.when.artifact) \ branch_gated_keys(d, e.target) :
       status[p] \notin TerminalSuccess

Targets(es) == {e.target : e \in es}
reachable_from(d, S) == S \cup walk_downstream(explicit_children(d), S)

\* evaluate_edge_verdict for the edges leaving one source.
DeferredEdges(d, s, status) ==
  {e \in d.edges : e.source = s /\ condition_producer_in_flight(d, e, status)}
DecidableEdges(d, s, status) == {e \in d.edges : e.source = s} \ DeferredEdges(d, s, status)

UnselectedBy(d, s, status, file) ==
  LET decidable == DecidableEdges(d, s, status)
      selected == Targets(selected_edges(decidable, file))
  IN  reachable_from(d, Targets(decidable) \ selected) \ reachable_from(d, selected)

DeferredBy(d, s, status) ==
  UNION {branch_gated_keys(d, t) : t \in Targets(DeferredEdges(d, s, status))}

evaluate_branches(d, status, file) ==
  LET judges == {s \in Node : status[s] = "completed"
                              /\ \E e \in d.edges : e.source = s /\ e.when # Always}
  IN  (UNION {UnselectedBy(d, s, status, file) : s \in judges})
        \ (UNION {DeferredBy(d, s, status) : s \in judges})

\* Faulty: an input that exists is good enough.
NoProducerBarrier(d, n, status) == FALSE
has_unfinished_implicit_producer(d, n, status) ==
  \E x \in d.inputs[n] : \E p \in artifact_producers(d, x) \ {n} : status[p] \notin TerminalSuccess

find_ready_nodes(d, status, file) ==
  {n \in Node :
     LET incoming == {e \in d.edges : e.target = n}
         active == selected_edges(incoming, file)
     IN  /\ status[n] \in Runnable
         /\ incoming # {} => active # {}
         /\ \A e \in active : status[e.source] = "completed"
         /\ \A e \in incoming : ~condition_producer_in_flight(d, e, status)
         /\ \A x \in d.inputs[n] : file[x] # Absent
         /\ ~has_unfinished_implicit_producer(d, n, status)}

=============================================================================
