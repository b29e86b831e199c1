----------------------------- MODULE MCAnnotate -----------------------------
(* TLC instances of Annotate: two functions, one of whose names is part of  *)
(* the other's, as in square and squared.                                   *)
EXTENDS Annotate, TLC

CONSTANTS square, squared, text

MCFunctions == {1, 2}
MCValues == {square, squared, text}
MCContains == {<<square, squared>>}
MCStart == [f \in MCFunctions |->
    [rename |-> IF f = 1 THEN square ELSE squared, comment |-> text]]

Symmetry == Permutations(Calls)
=============================================================================
