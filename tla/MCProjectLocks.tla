--------------------------- MODULE MCProjectLocks ---------------------------
(* ProjectLocks for TLC: processes are interchangeable, and a state whose  *)
(* excuse is taken is not explored further, the invariants hold from there. *)
EXTENDS ProjectLocks, TLC

Symmetry == Permutations(Procs)
NotExcused == ~excused

=============================================================================
