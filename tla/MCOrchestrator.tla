--------------------------- MODULE MCOrchestrator ---------------------------
(***************************************************************************)
(* Orchestrator for TLC. The configurations give Requests and Threads      *)
(* model values; nothing tells two of them apart.                          *)
(***************************************************************************)
EXTENDS Orchestrator, TLC

Symmetry == Permutations(Requests) \cup Permutations(Threads)

=============================================================================
