--------------------------- MODULE MCOrchestrator ---------------------------
(***************************************************************************)
(* An instance of Orchestrator for TLC.  The answers of `quote', a tool of *)
(* `pg', may be cached for one clock unit; the second gateway.yaml lists   *)
(* it as mutable.  That file fails, moves `pg' and drops `gh'; the third,  *)
(* next to the first, moves `pg' and keeps `gh'.                           *)
(***************************************************************************)
EXTENDS Orchestrator, TLC

CONSTANTS quote, pg, gh, u1, u2

Hosts == [t \in Tools |-> pg]

Connections ==
  << (pg :> u1) @@ (gh :> u1),
     (pg :> u2) @@ (gh :> None),
     (pg :> u2) @@ (gh :> u1) >>

ToolTtl == [t \in Tools |-> 1]

MutableTools == [v \in Versions |-> IF v = 2 THEN Tools ELSE {}]

TaskSymmetry == Permutations(Requests) \union Permutations(Reloaders)
=============================================================================
