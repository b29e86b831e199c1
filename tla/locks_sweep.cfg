SPECIFICATION Spec
CONSTANT Procs = {p1, p2, p3}
SYMMETRY Symmetry
INVARIANT SweepKeepsLive
CHECK_DEADLOCK FALSE
