------------------------------ MODULE Transfer ------------------------------
(***************************************************************************)
(* transfer_analysis: names go from the functions of a source binary to    *)
(* the functions of a destination that have the same bytes.                *)
(*                                                                         *)
(* The source is a sequence of functions [name, bytes, readable]; the      *)
(* destination is its executable blocks and names, a function from the     *)
(* entries [block, place] of its functions to their names.  Ghidra's own   *)
(* name is "FUN", the label made of it in mode "all" is "fn".  A setName   *)
(* may be refused.                                                         *)
(***************************************************************************)
EXTENDS MemoryScan

\* The source functions that are tried, and those with bytes to look for.
Named(ask, func) == func.name # "FUN" \/ ask.mode = "all"
RightSize(ask, func) == Len(func.bytes) >= ask.min_size /\ Len(func.bytes) <= ask.max_size

Label(func) == IF func.name = "FUN" THEN "fn" ELSE func.name

\* Mutant: the first match is good enough.
AnyMatch(matches) == matches # <<>>

\* The pattern appears exactly once.
OneMatch(matches) == Len(matches) = 1

\* The function at the match still has Ghidra's name.
Unnamed(ask, entry) == ask.names[entry] = "FUN"

\* What the loop over the source makes of one function.
Verdict(ask, func) ==
    LET matches == FindBytes(ask.blocks, func.bytes, 2)
    IN CASE ~Named(ask, func) -> "ignored"
         [] Named(ask, func) /\ ~RightSize(ask, func) -> "size"
         [] Named(ask, func) /\ RightSize(ask, func) /\ ~func.readable -> "error"
         [] OTHER ->
            CASE matches = <<>> -> "no_match"
              [] matches # <<>> /\ ~OneMatch(matches) -> "multi_match"
              [] OTHER ->
                CASE matches[1] \notin DOMAIN ask.names -> "no_function"
                  [] matches[1] \in DOMAIN ask.names /\ ~Unnamed(ask, matches[1]) -> "already_named"
                  [] OTHER -> "transfer"

\* The source functions with a verdict; the list of renames is collected before any
\* of them is made.
With(ask, verdict) == {i \in DOMAIN ask.source : Verdict(ask, ask.source[i]) = verdict}
Transfers(ask) == With(ask, "transfer")

Target(ask, i) == FindBytes(ask.blocks, ask.source[i].bytes, 2)[1]

\* One rename of the list; one that is refused is an error.
Rename(ask, names, i) ==
    IF i \in Transfers(ask) \ ask.refused
    THEN [names EXCEPT ![Target(ask, i)] = Label(ask.source[i])]
    ELSE names

\* The renames of one transaction, in the order of the source.
Renamed(ask) ==
    LET after[n \in 0..Len(ask.source)] == IF n = 0 THEN ask.names ELSE Rename(ask, after[n - 1], n)
    IN after[Len(ask.source)]

Count(ask, verdict) == Cardinality(With(ask, verdict))

\* The counters of the answer.
Stats(ask) ==
    LET refused == Cardinality(Transfers(ask) \intersect ask.refused)
        unique == Count(ask, "no_function") + Count(ask, "already_named") + Count(ask, "transfer")
        skipped == Count(ask, "no_match") + Count(ask, "multi_match")
    IN [candidates |-> unique + skipped + Count(ask, "error"),
        matched_unique |-> unique,
        transferred |-> Count(ask, "transfer") - refused,
        skipped |-> skipped,
        errors |-> Count(ask, "error") + refused]

=============================================================================
