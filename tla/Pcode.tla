------------------------------- MODULE Pcode -------------------------------
(***************************************************************************)
(* get_pcode: the printed p-code of a function, whole or the forward slice *)
(* of a variable, under a limit of lines.                                  *)
(*                                                                         *)
(* A function is a sequence of basic blocks, a block a sequence of ops, an *)
(* op [line, out, ins].  A token is [name, id]; out is NoToken where an op *)
(* has no output.  Lines tell ops apart: they hold the address, and in SSA *)
(* form an output is defined once.  A loop is a function from the number   *)
(* of its turns to the state after them.                                   *)
(***************************************************************************)
EXTENDS Integers, Sequences, FiniteSets, SequencesExt

NoToken == [name |-> "", id |-> 0]

\* all_ops, as a sequence and as a set.
AllOps(blocks) == FlattenSeq(blocks)
Ops(blocks) == UNION {ToSet(blocks[b]) : b \in DOMAIN blocks}

\* slice_var is a name, for all its versions, or one version (its id).
IsSeed(token, var) == token.name = var.name /\ var.id \in {0, token.id}

Seeds(blocks, var) ==
    {t \in UNION {{o.out} \union o.ins : o \in Ops(blocks)} : t # NoToken /\ IsSeed(t, var)}

\* Mutant: one pass over the ops.
OnePass(before, after) == TRUE

\* The while loop ends with a pass that kept nothing.
NothingChanged(before, after) == before.keep = after.keep

\* An op that defines the variable or uses what is tracked is kept, and its output
\* tracked.
Look(s, o, seeds) ==
    IF o.line \notin s.keep /\ (o.out \in seeds \/ o.ins \intersect s.tracked # {})
    THEN [keep |-> s.keep \union {o.line}, tracked |-> s.tracked \union ({o.out} \ {NoToken})]
    ELSE s

\* One pass of the for loop: ops in order, each sees what was tracked before it.
Pass(ops, seeds, state) ==
    LET after[n \in 0..Len(ops)] == IF n = 0 THEN state ELSE Look(after[n - 1], ops[n], seeds)
    IN after[Len(ops)]

\* One more pass, unless the one before it was the last.
PassAgain(s, ops, seeds) ==
    LET after == Pass(ops, seeds, s.state)
    IN IF s.over THEN s ELSE [state |-> after, over |-> NothingChanged(s.state, after)]

\* _forward_slice: passes until one changes nothing; every pass but the last keeps
\* a line more.
ForwardSlice(blocks, var) ==
    LET ops == AllOps(blocks)
        seeds == Seeds(blocks, var)
        pass[n \in 0..(Len(ops) + 1)] ==
            IF n = 0 THEN [state |-> [keep |-> {}, tracked |-> seeds], over |-> FALSE]
            ELSE PassAgain(pass[n - 1], ops, seeds)
    IN pass[Len(ops) + 1].state.keep

\* truncated: more ops than were shown.
MoreThanShown(printed, total) == total > Len(printed.ops)

\* An op that is to be printed is, while there is room.
PrintOp(s, o, kept, limit) ==
    IF o.line \in kept /\ s.lines < limit
    THEN [lines |-> s.lines + 1, ops |-> Append(s.ops, o)]
    ELSE s

PrintOps(s, block, kept, limit) ==
    LET after[n \in 0..Len(block)] ==
            IF n = 0 THEN s ELSE PrintOp(after[n - 1], block[n], kept, limit)
    IN after[Len(block)]

\* A block with something to print has a header, which counts as a line.
PrintBlock(s, block, kept, limit) ==
    IF (\E o \in ToSet(block) : o.line \in kept) /\ s.lines < limit
    THEN PrintOps([s EXCEPT !.lines = @ + 1], block, kept, limit)
    ELSE s

\* The printing loop.
Printed(blocks, kept, limit) ==
    LET after[b \in 0..Len(blocks)] ==
            IF b = 0 THEN [lines |-> 0, ops |-> <<>>]
            ELSE PrintBlock(after[b - 1], blocks[b], kept, limit)
    IN after[Len(blocks)]

\* The answer; a variable without a seed is an error.
GetPcode(blocks, var, limit) ==
    LET kept == IF var.name = "" THEN {o.line : o \in Ops(blocks)} ELSE ForwardSlice(blocks, var)
        printed == Printed(blocks, kept, limit)
    IN [error |-> var.name # "" /\ Seeds(blocks, var) = {}, kept |-> kept, lines |-> printed.lines,
        ops |-> printed.ops, truncated |-> MoreThanShown(printed, Cardinality(kept))]

-----------------------------------------------------------------------------
(* Reference definition.                                                   *)

\* A set of lines with all that define the variable or use it, and with all that use
\* what one of them defines.
Closed(blocks, seeds, lines) ==
    /\ \A o \in Ops(blocks) : o.out \in seeds \/ o.ins \intersect seeds # {} => o.line \in lines
    /\ \A o, u \in Ops(blocks) :
        o.line \in lines /\ o.out # NoToken /\ o.out \in u.ins => u.line \in lines

\* The ops that consume the variable, transitively, or define a version of it: the
\* least set that is closed.
SliceClosure(blocks, var, kept) ==
    /\ Closed(blocks, Seeds(blocks, var), kept)
    /\ \A S \in SUBSET kept : Closed(blocks, Seeds(blocks, var), S) => S = kept

=============================================================================
