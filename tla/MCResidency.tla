---------------------------- MODULE MCResidency ----------------------------
(***************************************************************************)
(* Residency for TLC.                                                      *)
(***************************************************************************)
EXTENDS Residency

\* States that differ only in what no step and no checked property reads: projects
\* without a program, access times a pass has no more use for, how an import that
\* left nothing on disk ended.
View ==
    <<programs, ready, unlisted \intersect saved, access, disk, jobs, lock, call, clock,
      [monitor EXCEPT !.score = [b \in monitor.ids |-> @[b]],
                      !.touched = @ \intersect monitor.ids]>>

=============================================================================
