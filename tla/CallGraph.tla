----------------------------- MODULE CallGraph -----------------------------
(***************************************************************************)
(* get_call_graph: a depth-first traversal from one function, once along   *)
(* its callees and once along its callers, under a budget of nodes and     *)
(* edges.  The recursion is an explicit stack; a traversal is a function   *)
(* from the number of its turns to the state after them.                   *)
(*                                                                         *)
(* A program is two functions: callees[f] is the sequence of functions     *)
(* that f calls, callers[f] that of the functions which the references to  *)
(* f are in.  Labels are one to one with functions and left out.           *)
(***************************************************************************)
EXTENDS Integers, Sequences, FiniteSets, SequencesExt

\* What a traversal looks at from f, in this order.
Around(ask, f) == IF ask.direction = "callees" THEN ask.callees[f] ELSE ask.callers[f]

\* A frame: the function, its depth and what is left of its loop.
Frame(ask, f, level) == [f |-> f, level |-> level, rest |-> Around(ask, f)]

\* budget_exhausted.
Exhausted(ask, t) == Cardinality(t.nodes) >= ask.budget \/ Cardinality(t.edges) >= ask.budget

Edge(ask, f, g) == IF ask.direction = "callees" THEN <<f, g>> ELSE <<g, f>>

\* The loop goes into the function it has just added.
Deeper(ask, frame) == frame.level < ask.depth

\* The end of the loop on top of the stack.
Return(t) == [t EXCEPT !.stack = Front(@)]

\* One more function of the loop on top of the stack, entered unless it was before.
Visit(ask, t) ==
    LET frame == Last(t.stack)
        g == Head(frame.rest)
        on == [t.stack EXCEPT ![Len(t.stack)].rest = Tail(@)]
        enters == Deeper(ask, frame) /\ g \notin t.visited
    IN [nodes |-> t.nodes \union {g},
        edges |-> t.edges \union {Edge(ask, frame.f, g)},
        truncated |-> t.truncated,
        visited |-> IF enters THEN t.visited \union {g} ELSE t.visited,
        stack |-> IF enters THEN Append(on, Frame(ask, g, frame.level + 1)) ELSE on]

\* One turn: of the loop, its end, or the end that an exhausted budget makes of it.
Step(ask, t) ==
    CASE t.stack = <<>> -> t
      [] t.stack # <<>> /\ Last(t.stack).rest = <<>> -> Return(t)
      [] t.stack # <<>> /\ Last(t.stack).rest # <<>> /\ Exhausted(ask, t) ->
            [Return(t) EXCEPT !.truncated = TRUE]
      [] OTHER -> Visit(ask, t)

\* The turns there can be: of every function one for each function around it, and
\* one for the end of its loop.
TurnsOf(ask) == UNION {{f} \X (0..Len(Around(ask, f))) : f \in DOMAIN ask.callees}
Turns(ask) == Cardinality(TurnsOf(ask))

\* Mutant: the second traversal begins with what the first has visited.
NotCleared(visited) == visited

\* visited.clear().
Cleared(visited) == {}

\* A traversal goes on with the nodes and edges of the one before it, and enters the
\* root unless it is visited.
Start(ask, t) ==
    LET visited == Cleared(t.visited)
    IN [nodes |-> t.nodes \union {ask.root}, edges |-> t.edges, truncated |-> t.truncated,
        visited |-> visited \union {ask.root},
        stack |-> IF ask.root \in visited THEN <<>> ELSE <<Frame(ask, ask.root, 0)>>]

Traverse(ask, t) ==
    LET after[n \in 0..Turns(ask)] == IF n = 0 THEN Start(ask, t) ELSE Step(ask, after[n - 1])
    IN after[Turns(ask)]

Unvisited == [nodes |-> {}, edges |-> {}, truncated |-> FALSE, visited |-> {}, stack |-> <<>>]

Towards(ask, direction) == [ask EXCEPT !.direction = direction]

\* direction "both": the callers come second and go on with what there is.
Graph(ask) ==
    IF ask.direction = "both"
    THEN Traverse(Towards(ask, "callers"), Traverse(Towards(ask, "callees"), Unvisited))
    ELSE Traverse(ask, Unvisited)

-----------------------------------------------------------------------------
(* Reference definitions.                                                  *)

\* A set of functions and what is around them.
Widened(ask, S) == S \union UNION {ToSet(Around(ask, f)) : f \in S}

\* The functions at most n steps away from the root.
Within(ask, n) ==
    LET near[k \in Nat] == IF k = 0 THEN {ask.root} ELSE Widened(ask, near[k - 1])
    IN near[n]

Directions(ask) == IF ask.direction = "both" THEN {"callees", "callers"} ELSE {ask.direction}

WithinAsked(ask, n) == UNION {Within(Towards(ask, d), n) : d \in Directions(ask)}

\* An edge from f to g that one of the directions asked for has.
IsCall(ask, f, g) == \/ "callees" \in Directions(ask) /\ g \in ToSet(ask.callees[f])
                     \/ "callers" \in Directions(ask) /\ f \in ToSet(ask.callers[g])

=============================================================================
