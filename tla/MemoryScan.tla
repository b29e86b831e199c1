----------------------------- MODULE MemoryScan -----------------------------
(***************************************************************************)
(* The raw scans of memory in GhidraTools: printable runs in blocks, for   *)
(* one query or for many, and byte patterns.                               *)
(*                                                                         *)
(* A byte is 0 when it is not printable, a letter otherwise (lower case    *)
(* already).  A block is the sequence of its bytes; an address is the      *)
(* number of a block and a place in it.  A loop is a function from the     *)
(* number of its turns to the state after them.                            *)
(***************************************************************************)
EXTENDS Integers, Sequences, FiniteSets, SequencesExt

Printable(b) == b # 0

\* Mutant: only whole chunks are read.
WholeChunk(bytes, done, size) == IF done + size <= Len(bytes) THEN done + size ELSE done

\* Where the next chunk ends: a whole one, or what is left of the block.
ChunkEnd(bytes, done, size) == IF done + size < Len(bytes) THEN done + size ELSE Len(bytes)

ReadOn(all, bytes, size) == all \o SubSeq(bytes, Len(all) + 1, ChunkEnd(bytes, Len(all), size))

\* all_bytes: every chunk is put to the ones before it, and then they are scanned.
Data(bytes, size) ==
    LET read[n \in 0..Len(bytes)] == IF n = 0 THEN <<>> ELSE ReadOn(read[n - 1], bytes, size)
    IN read[Len(bytes)]

\* The inner loop of the scanner: where the run that begins at i ends.
RunEnd(data, i) == Min({j \in i..Len(data) : j = Len(data) \/ ~Printable(data[j + 1])})

\* A run that is long enough and contains the query.
Matches(data, first, last, query, min_length) ==
    /\ last - first + 1 >= min_length
    /\ \E i \in first..last :
        i + Len(query) - 1 <= last /\ SubSeq(data, i, i + Len(query) - 1) = query

Hit(b, first, last) == [block |-> b, place |-> first, last |-> last]

\* One more hit for a query that has room.
Added(found, hit, limit) == IF Len(found) < limit THEN Append(found, hit) ELSE found

\* A turn of the scanner: past a byte that is not printable, or past a run, which
\* is a hit of each query that it matches.
ScanTurn(s, b, data, ask) ==
    LET last == RunEnd(data, s.at)
    IN CASE s.at > Len(data) -> s
         [] s.at <= Len(data) /\ ~Printable(data[s.at]) -> [s EXCEPT !.at = @ + 1]
         [] OTHER -> [at |-> last + 1,
                      hits |-> [q \in DOMAIN s.hits |->
                                  IF Matches(data, s.at, last, q, ask.min_length)
                                  THEN Added(s.hits[q], Hit(b, s.at, last), ask.limit)
                                  ELSE s.hits[q]]]

ScanBlock(hits, b, data, ask) ==
    LET turn[n \in 0..Len(data)] ==
            IF n = 0 THEN [at |-> 1, hits |-> hits] ELSE ScanTurn(turn[n - 1], b, data, ask)
    IN turn[Len(data)].hits

\* No query has room for more.
AllFull(hits, limit) == \A q \in DOMAIN hits : Len(hits[q]) >= limit

NextBlock(hits, b, blocks, ask) ==
    IF AllFull(hits, ask.limit) THEN hits ELSE ScanBlock(hits, b, Data(blocks[b], ask.chunk), ask)

\* batch_search_strings: one pass over the blocks for all queries.
BatchSearch(blocks, queries, ask) ==
    LET after[b \in 0..Len(blocks)] ==
            IF b = 0 THEN [q \in queries |-> <<>>] ELSE NextBlock(after[b - 1], b, blocks, ask)
    IN after[Len(blocks)]

\* search_strings_deep is the same pass for one query; it returns from inside the
\* block with its last hit, after which a list takes no more.
SearchDeep(blocks, query, ask) == BatchSearch(blocks, {query}, ask)[query]

\* The end of a region of "size" bytes, or of the memory it begins in.
RegionEnd(bytes, from, size) == IF from + size - 1 < Len(bytes) THEN from + size - 1 ELSE Len(bytes)

\* extract_strings_from_blob: one region, and an empty query takes every run.
ExtractStrings(bytes, from, size, ask) ==
    LET hits == SearchDeep(<<SubSeq(bytes, from, RegionEnd(bytes, from, size))>>, <<>>, ask)
    IN [i \in DOMAIN hits |-> Hit(1, hits[i].place + from - 1, hits[i].last + from - 1)]

\* Memory.findBytes: the first place from "from" on; 0 for none.
FirstAt(bytes, needle, from) ==
    LET places == {i \in from..Len(bytes) : /\ i + Len(needle) - 1 <= Len(bytes)
                                            /\ SubSeq(bytes, i, i + Len(needle) - 1) = needle}
    IN IF places = {} THEN 0 ELSE Min(places)

\* It goes on with the next address.
NextFrom(place, needle) == place + 1

\* A turn of the loop over a block: the place it stands at is a result.
FindTurn(s, b, bytes, needle, limit) ==
    IF s.at = 0 \/ Len(s.found) >= limit THEN s
    ELSE [found |-> Append(s.found, [block |-> b, place |-> s.at]),
          at |-> IF NextFrom(s.at, needle) > Len(bytes) THEN 0
                 ELSE FirstAt(bytes, needle, NextFrom(s.at, needle))]

FindInBlock(found, b, bytes, needle, limit) ==
    LET turn[n \in 0..Len(bytes)] ==
            IF n = 0 THEN [found |-> found, at |-> FirstAt(bytes, needle, 1)]
            ELSE FindTurn(turn[n - 1], b, bytes, needle, limit)
    IN turn[Len(bytes)].found

\* find_bytes, and the search of transfer_analysis with a limit of two.
FindBytes(blocks, needle, limit) ==
    LET after[b \in 0..Len(blocks)] ==
            IF b = 0 THEN <<>> ELSE FindInBlock(after[b - 1], b, blocks[b], needle, limit)
    IN after[Len(blocks)]

-----------------------------------------------------------------------------
(* Reference definitions.                                                  *)

\* A stretch of printable bytes that is not part of a longer one between two places.
IsStretch(data, first, end, i, j) ==
    /\ i <= j /\ \A k \in i..j : Printable(data[k])
    /\ i = first \/ ~Printable(data[i - 1])
    /\ j = end \/ ~Printable(data[j + 1])

\* The stretches of a block between two places that contain the query.
Stretches(b, data, first, end, query, ask) ==
    {h \in [block : {b}, place : first..end, last : first..end] :
        /\ IsStretch(data, first, end, h.place, h.last)
        /\ Matches(data, h.place, h.last, query, ask.min_length)}

AllStretches(blocks, query, ask) ==
    UNION {Stretches(b, blocks[b], 1, Len(blocks[b]), query, ask) : b \in DOMAIN blocks}

PlacesIn(b, bytes, needle) ==
    {h \in [block : {b}, place : DOMAIN bytes] :
        /\ h.place + Len(needle) - 1 <= Len(bytes)
        /\ SubSeq(bytes, h.place, h.place + Len(needle) - 1) = needle}

AllPlaces(blocks, needle) == UNION {PlacesIn(b, blocks[b], needle) : b \in DOMAIN blocks}

Before(x, y) == x.block < y.block \/ (x.block = y.block /\ x.place < y.place)

\* The first "limit" of a set of results in the order of their addresses.
FirstOf(found, all, limit) ==
    /\ \A i, j \in DOMAIN found : i < j => Before(found[i], found[j])
    /\ \A i \in DOMAIN found : found[i] \in all
    /\ Len(found) <= limit
    /\ Len(found) = Cardinality(all) \/ Len(found) = limit
    /\ \A x \in all : \/ \E i \in DOMAIN found : found[i] = x
                      \/ Len(found) = limit /\ \A i \in DOMAIN found : Before(found[i], x)

=============================================================================
