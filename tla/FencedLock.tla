----------------------------- MODULE FencedLock -----------------------------
(***************************************************************************)
(* What the execution core promises about who executes what, with nothing  *)
(* said of nodes, shards, requests or statuses: a lock per unit of work,   *)
(* fenced by an epoch (docs/architecture/execution-generation.md).  An     *)
(* attempt is granted a unit once in its life, always under the current    *)
(* epoch, and never while another attempt of that epoch holds the unit.    *)
(* Raising the epoch revokes nothing: it may only happen while every hold  *)
(* left is on a unit where the stale holder is fenced off by its epoch.    *)
(***************************************************************************)
EXTENDS Naturals

CONSTANTS
  Attempt,   \* who may hold
  Resource,  \* what is held
  Fenceable  \* the units on which a holder may outlive its epoch

VARIABLES
  epoch,     \* the current epoch
  held,      \* the grants in force: [attempt, resource, epoch]
  spent      \* attempts that have given their grant back

lockVars == <<epoch, held, spent>>

Start == epoch = 0 /\ held = {} /\ spent = {}

Grant(a, r) ==
  /\ a \notin spent
  /\ \A h \in held : h.attempt # a
  /\ \A h \in held : h.resource = r => h.epoch # epoch
  /\ held' = held \cup {[attempt |-> a, resource |-> r, epoch |-> epoch]}
  /\ UNCHANGED <<epoch, spent>>

Settle(h) ==
  /\ h \in held
  /\ held' = held \ {h}
  /\ spent' = spent \cup {h.attempt}
  /\ UNCHANGED epoch

Fence ==
  /\ \A h \in held : h.resource \in Fenceable
  /\ epoch' = epoch + 1
  /\ UNCHANGED <<held, spent>>

LockNext ==
  \/ \E a \in Attempt, r \in Resource : Grant(a, r)
  \/ \E h \in held : Settle(h)
  \/ Fence
LockSpec == Start /\ [][LockNext]_lockVars
=============================================================================
