------------------------------ MODULE AuditLog ------------------------------
(***************************************************************************)
(* What the annotate audit journal promises its readers: records numbered  *)
(* in the order they were written, of which some of the oldest may be      *)
(* gone, and never the newest.                                             *)
(***************************************************************************)
EXTENDS Naturals

VARIABLES
    log,   \* numbers of the records a reader finds
    next   \* number of the next record

Init == log = {} /\ next = 0

\* One more record.
Write ==
    /\ log' = log \union {next}
    /\ next' = next + 1

\* Some of the oldest records are dropped.
Trim ==
    \E old \in SUBSET log :
        /\ old # log
        /\ \A x \in old, y \in log \ old : x < y
        /\ log' = log \ old
        /\ UNCHANGED next

Next == Write \/ Trim

Spec == Init /\ [][Next]_<<log, next>>
=============================================================================
