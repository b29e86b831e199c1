------------------------------ MODULE MCQueries ------------------------------
(* Small queries of every kind for TLC.                                    *)
EXTENDS Queries

UpTo2(S) == {<<>>} \union {<<a>> : a \in S} \union {<<a, b>> : a, b \in S}
Distinct2(S) == {s \in UpTo2(S) : Len(s) < 2 \/ s[1] # s[2]}

\* Five functions, acyclic but for a call back to the root, up to two callees each in both orders.
MCCalls == {<<a, b, c, d, e>> : a \in Distinct2(2..5), b \in Distinct2(3..5), c \in Distinct2(4..5),
                                d \in Distinct2({5}), e \in Distinct2({1})}
CallersIn(calls) ==
    [f \in DOMAIN calls |-> SetToSortSeq({g \in DOMAIN calls : f \in ToSet(calls[g])}, LAMBDA a, b : a < b)]
MCGraphs ==
    {[callees |-> c, callers |-> CallersIn(c), root |-> 1, depth |-> n, direction |-> d, budget |-> m] :
        c \in MCCalls, n \in 1..3, d \in {"callees", "callers", "both"}, m \in {3, 99}}

\* Two blocks of bytes; runs that meet the ends of chunks and blocks.
SeqsOf(S, n) == UNION {[1..k -> S] : k \in 0..n}
MCScans ==
    [blocks : {<<a, b>> : a \in SeqsOf({0, 1, 2}, 4), b \in {<<>>, <<1>>, <<2, 1>>, <<0, 2>>}},
     query : {<<1>>, <<2, 1>>}, queries : {{<<1>>, <<2>>, <<>>}},
     min_length : 1..2, limit : 1..2, chunk : {2}, from : {2}, size : {3}]

MCPatterns ==
    [blocks : {<<a, b>> : a \in SeqsOf({1, 2}, 4), b \in SeqsOf({1, 2}, 2)},
     needle : {<<1>>, <<1, 1>>, <<1, 2>>, <<1, 2, 1>>}, limit : {1, 2, 20}]

\* Three ops in one or two blocks: versions of x and y, used before or after they
\* are defined.
Token(n, i) == [name |-> n, id |-> i]
Tokens == {Token("x", 1), Token("x", 2), Token("y", 3)}
Op(line, outs, width) ==
    [line : {line}, out : outs \union {NoToken}, ins : {T \in SUBSET Tokens : Cardinality(T) <= width}]
MCListings ==
    [blocks : UNION {{<<<<a>>, <<b, c>>>>, <<<<a, b>>, <<c>>>>, <<<<>>, <<a, b, c>>>>} :
                a \in Op(1, {Token("x", 1)}, 1), b \in Op(2, {Token("y", 3)}, 2), c \in Op(3, {Token("x", 2)}, 1)},
     var : {Token("", 0), Token("x", 0), Token("x", 1), Token("y", 3)}, limit : {1, 2, 3, 9}]

\* Two source functions, some with the same bytes, two blocks and up to three
\* functions at their places.
MCTransferals ==
    [source : {<<f, g>> : f, g \in [name : {"FUN", "a", "b"}, bytes : {<<1, 2>>, <<1, 1>>, <<1>>},
                                   readable : BOOLEAN]},
     blocks : {<<a, <<1, 2>>>> : a \in SeqsOf({1, 2}, 3)},
     names : {[e \in {[block |-> 1, place |-> 1], [block |-> 2, place |-> 1]} |->
                 IF e.block = 1 THEN m ELSE n] : m, n \in {"FUN", "c"}},
     mode : {"named", "all"}, min_size : {2}, max_size : {2}, refused : {{}, {1}}]

\* Up to two projects of two units; a project's id is its own.
Project == [unit : 1..2, profile : {"fast", "deep"}, name : {"n"},
            status : {"complete", "analyzing", "error", "corrupt"}, opened : 0..2]
MCDisks == {disk \in UpTo2(Project) : \A i, j \in DOMAIN disk :
                i # j => <<disk[i].unit, disk[i].profile>> # <<disk[j].unit, disk[j].profile>>}
MCLookups ==
    [disk : MCDisks, by : {"analysis_id"}, unit : {1}, profile : {"fast"}, name : {"n"}]
    \union [disk : MCDisks, by : {"unit_id", "name"}, unit : {1}, profile : {"any", "deep"}, name : {"n"}]

=============================================================================
