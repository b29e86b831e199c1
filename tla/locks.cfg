SPECIFICATION Spec
CONSTANT Procs = {p1, p2, p3}
SYMMETRY Symmetry
CONSTRAINT NotExcused
INVARIANT SingleWriter
CHECK_DEADLOCK FALSE
