----------------------------- MODULE DiskLookup -----------------------------
(***************************************************************************)
(* _find_on_disk: which project on disk a name stands for.                 *)
(*                                                                         *)
(* The disk is the sequence of status files in the order in which the      *)
(* directory lists them: [unit, profile, name, status, opened].  A unit    *)
(* and a profile make the analysis id; opened is when history.jsonl says   *)
(* it was opened last, 0 for never.  What is looked for is an analysis id, *)
(* a unit id, with or without a profile, or a file name.  A list of        *)
(* matches is the set of their places on the disk.                         *)
(***************************************************************************)
EXTENDS Integers, Sequences, FiniteSets, FiniteSetsExt

InProgress == {"analyzing", "queued"}

Match(d) == [is |-> "found", project |-> d]
Nothing == [is |-> "none"]
Refusal(why) == [is |-> "refused", why |-> why]

\* What the status of the one project, or of the first of several, makes of it.
ByStatus(d) ==
    CASE d.status = "complete" -> Match(d)
      [] d.status \in InProgress -> Refusal("in progress")
      [] d.status = "error" -> Nothing
      [] OTHER -> Refusal("corrupt")

\* An analysis id: the first project that has it.
ByAnalysisId(disk, unit, profile) ==
    LET matches == {i \in DOMAIN disk : disk[i].unit = unit /\ disk[i].profile = profile}
    IN IF matches = {} THEN Nothing ELSE ByStatus(disk[Min(matches)])

\* Mutant: the first project ends the search, whatever its status.
FirstEnds(disk, matches) == IF matches = {} THEN Nothing ELSE ByStatus(disk[Min(matches)])

\* All projects of the unit are looked at, and the first that is neither complete
\* nor failed refuses; two completed ones are ambiguous.
AllOfUnit(disk, matches) ==
    LET complete == {i \in matches : disk[i].status = "complete"}
        unfit == {i \in matches : disk[i].status \notin {"complete", "error"}}
    IN CASE unfit # {} -> ByStatus(disk[Min(unfit)])
         [] unfit = {} /\ Cardinality(complete) > 1 -> Refusal("ambiguous")
         [] unfit = {} /\ Cardinality(complete) = 1 -> Match(disk[Min(complete)])
         [] OTHER -> Nothing

\* A unit id; profile "any" is none given.
ByUnit(disk, unit, profile) ==
    AllOfUnit(disk, {i \in DOMAIN disk : disk[i].unit = unit /\ profile \in {"any", disk[i].profile}})

\* The sort key: never opened, then opened last.
SortKey(d) == IF d.opened = 0 THEN <<1, 0>> ELSE <<0, d.opened>>

Above(a, b) == a[1] > b[1] \/ (a[1] = b[1] /\ a[2] > b[2])

\* A file name, among completed projects; the sort is stable, so the first of the
\* best.
ByName(disk, name, profile) ==
    LET matches == {i \in DOMAIN disk : /\ profile \in {"any", disk[i].profile}
                                        /\ disk[i].status = "complete" /\ disk[i].name = name}
        best == {i \in matches : \A j \in matches : ~Above(SortKey(disk[j]), SortKey(disk[i]))}
    IN IF matches = {} THEN Nothing ELSE Match(disk[Min(best)])

FindOnDisk(disk, ask) ==
    CASE ask.by = "analysis_id" -> ByAnalysisId(disk, ask.unit, ask.profile)
      [] ask.by = "unit_id" -> ByUnit(disk, ask.unit, ask.profile)
      [] ask.by = "name" -> ByName(disk, ask.name, ask.profile)

=============================================================================
