------------------------------ MODULE Queries ------------------------------
(***************************************************************************)
(* One query, and its answer: the algorithms of tools.py and server.py     *)
(* that compute an answer from a program, from memory or from the disk,    *)
(* against what the answer is to be.                                       *)
(***************************************************************************)
EXTENDS Integers, Sequences, FiniteSets, CallGraph, MemoryScan, Pcode, Transfer, DiskLookup

CONSTANTS Graphs, Scans, Patterns, Listings, Transferals, Lookups  \* the queries by kind

\* A graph is asked of a program with finitely many functions, at least one level
\* deep and with a budget for one node or more.
ASSUME GraphsAssumption == \A ask \in Graphs :
    LET functions == DOMAIN ask.callees
    IN /\ IsFiniteSet(functions)
       /\ ask \in [callees : [functions -> Seq(functions)], callers : [functions -> Seq(functions)],
                   root : functions, depth : Nat \ {0}, budget : Nat \ {0},
                   direction : {"callees", "callers", "both"}]

\* Memory is blocks of bytes; chunks and limits hold one or more.
ASSUME ScansAssumption == \A ask \in Scans :
    /\ ask.blocks \in Seq(Seq(Nat)) /\ ask.blocks # <<>>
    /\ \A q \in {ask.query} \union ask.queries : q \in Seq(Nat)
    /\ {ask.min_length, ask.limit, ask.chunk, ask.from, ask.size} \subseteq Nat \ {0}

ASSUME PatternsAssumption == \A ask \in Patterns :
    ask.blocks \in Seq(Seq(Nat)) /\ ask.needle \in Seq(Nat) /\ ask.limit \in Nat \ {0}

\* Lines tell ops apart, and what an op uses are tokens.
ASSUME ListingsAssumption == \A ask \in Listings :
    /\ ask.blocks \in Seq(Seq(Ops(ask.blocks)))
    /\ \A b, c \in DOMAIN ask.blocks : \A i \in DOMAIN ask.blocks[b], j \in DOMAIN ask.blocks[c] :
          ask.blocks[b][i].line = ask.blocks[c][j].line => b = c /\ i = j
    /\ \A o \in Ops(ask.blocks) : NoToken \notin o.ins
    /\ ask.limit \in Nat \ {0}

ASSUME TransferalsAssumption == \A ask \in Transferals :
    ask \in [source : Seq([name : STRING, bytes : Seq(Nat), readable : BOOLEAN]),
             blocks : Seq(Seq(Nat)), names : [DOMAIN ask.names -> STRING],
             mode : {"named", "all"}, min_size : Nat, max_size : Nat, refused : SUBSET Nat]

\* One status file for each analysis.
ASSUME LookupsAssumption == \A ask \in Lookups :
    /\ ask.disk \in Seq(ToSet(ask.disk))
    /\ \A i, j \in DOMAIN ask.disk : i # j =>
          <<ask.disk[i].unit, ask.disk[i].profile>> # <<ask.disk[j].unit, ask.disk[j].profile>>
    /\ \A i \in DOMAIN ask.disk : ask.disk[i].opened \in Nat
    /\ ask.by \in {"analysis_id", "unit_id", "name"}

VARIABLES
    kind,    \* of query
    ask,     \* the query
    answer   \* what it returned; empty before

vars == <<kind, ask, answer>>

Asked ==
    \/ kind = "graph" /\ ask \in Graphs
    \/ kind = "scan" /\ ask \in Scans
    \/ kind = "bytes" /\ ask \in Patterns
    \/ kind = "pcode" /\ ask \in Listings
    \/ kind = "transfer" /\ ask \in Transferals
    \/ kind = "lookup" /\ ask \in Lookups

Init == Asked /\ answer = <<>>

Answer(k, value) == kind = k /\ answer = <<>> /\ answer' = <<value>> /\ UNCHANGED <<kind, ask>>

CallGraphQuery == Answer("graph", Graph(ask))
SearchQuery == Answer("scan", [deep |-> SearchDeep(ask.blocks, ask.query, ask),
                               batch |-> BatchSearch(ask.blocks, ask.queries, ask),
                               blob |-> ExtractStrings(ask.blocks[1], ask.from, ask.size, ask)])
BytesQuery == Answer("bytes", FindBytes(ask.blocks, ask.needle, ask.limit))
PcodeQuery == Answer("pcode", GetPcode(ask.blocks, ask.var, ask.limit))
TransferQuery == Answer("transfer", [names |-> Renamed(ask), stats |-> Stats(ask)])
LookupQuery == Answer("lookup", FindOnDisk(ask.disk, ask))

Next == CallGraphQuery \/ SearchQuery \/ BytesQuery \/ PcodeQuery \/ TransferQuery \/ LookupQuery

Spec == Init /\ [][Next]_vars

Answered(k) == kind = k /\ answer # <<>>
Result == answer[1]

-----------------------------------------------------------------------------
(* Properties.                                                             *)

\* A call graph that is not cut by its budget has every function that is two calls
\* away in a direction asked for, whatever the order of the callees and however deep
\* it goes: a visit that came by a detour does not hide what a short way would show.
\* It has nothing that is farther away than the level after the last one asked for, no
\* edge but calls between its nodes, and no more of both than the budget.
GraphExact ==
    Answered("graph") =>
        /\ ~Result.truncated => WithinAsked(ask, 2) \subseteq Result.nodes
        /\ Result.nodes \subseteq WithinAsked(ask, ask.depth + 1)
        /\ \A e \in Result.edges : IsCall(ask, e[1], e[2]) /\ {e[1], e[2]} \subseteq Result.nodes
        /\ Cardinality(Result.nodes) <= ask.budget /\ Cardinality(Result.edges) <= ask.budget

\* A deep search returns the first of all the printable stretches that match, in
\* the order of addresses: none is split or lost where chunks or data end.  So does
\* the scan of a region, for what the region has of them; the single pass over many
\* queries finds for each what a search of its own would; and a byte search returns
\* the first of all the places of its pattern, those that overlap included.
SearchExact ==
    /\ Answered("scan") =>
        LET bytes == ask.blocks[1]
            end == RegionEnd(bytes, ask.from, ask.size)
        IN /\ FirstOf(Result.deep, AllStretches(ask.blocks, ask.query, ask), ask.limit)
           /\ \A q \in ask.queries :
                FirstOf(Result.batch[q], AllStretches(ask.blocks, q, ask), ask.limit)
           /\ FirstOf(Result.blob, Stretches(1, bytes, ask.from, end, <<>>, ask), ask.limit)
    /\ Answered("bytes") => FirstOf(Result, AllPlaces(ask.blocks, ask.needle), ask.limit)

\* A slice is the closure of the variable under uses, whatever the order of blocks,
\* loops included.  A listing keeps to its limit, and says so when it leaves an op out.
SliceExact ==
    Answered("pcode") =>
        /\ ask.var.name # "" => SliceClosure(ask.blocks, ask.var, Result.kept)
        /\ Result.lines <= ask.limit
        /\ Result.truncated <=> {o.line : o \in ToSet(Result.ops)} # Result.kept

\* A name is only transferred to a function that Ghidra named, at the only place in
\* executable memory where the bytes of the source function are; and the same
\* transfer once more has nothing left to do but what was refused.
TransferUnique ==
    Answered("transfer") =>
        /\ \A e \in DOMAIN ask.names : Result.names[e] # ask.names[e] =>
            /\ ask.names[e] = "FUN"
            /\ \E i \in DOMAIN ask.source :
                /\ Result.names[e] = Label(ask.source[i])
                /\ AllPlaces(ask.blocks, ask.source[i].bytes) = {e}
        /\ ask.refused = {} => Transfers([ask EXCEPT !.names = Result.names]) = {}

\* A lookup by id finds the same project, refuses or misses whatever the order in
\* which the directory is listed; so does one by name, up to the choice among those
\* that were opened at the same time.
LookupOrderFree ==
    Answered("lookup") =>
        \A order \in Bijection(DOMAIN ask.disk, DOMAIN ask.disk) :
            LET other == FindOnDisk([i \in DOMAIN ask.disk |-> ask.disk[order[i]]], ask)
            IN /\ other.is = Result.is
               /\ Result.is = "found" =>
                    \/ other = Result
                    \/ ask.by = "name" /\ other.project.opened = Result.project.opened

=============================================================================
