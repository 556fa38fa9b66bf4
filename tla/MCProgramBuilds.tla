--------------------------- MODULE MCProgramBuilds ---------------------------
(***************************************************************************)
(* Processes differ in what they do only: any permutation of them is sound *)
(* for the invariants.                                                     *)
(***************************************************************************)
EXTENDS ProgramBuilds, TLC

Symmetry == Permutations(Procs)
=============================================================================
