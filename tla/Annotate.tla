------------------------------ MODULE Annotate ------------------------------
(***************************************************************************)
(* annotate(), the only tool that writes to a binary: preview, the human's *)
(* confirmation, the audit record that must precede the write, and the     *)
(* commit on a worker thread the caller may have stopped waiting for.      *)
(*                                                                         *)
(* Calls interleave at every await.  The steps on a thread run under       *)
(* _backend_lock and are atomic: the preview, the commit, an eviction.     *)
(* _audit_write runs on the event loop, in one step with what precedes and *)
(* follows it; what the journal keeps of its records is AuditJournal's.    *)
(* One binary, open or not; names are compared without regard to case.     *)
(***************************************************************************)
EXTENDS Naturals, FiniteSets

CONSTANTS
    Calls,      \* annotate() calls
    Functions,  \* functions of the binary, by entry address
    Actions,    \* "rename", and actions that write another attribute
    Values,     \* names, comments and prototypes
    Contains,   \* <<n, m>>: the name m has n as a proper substring
    Start,      \* the attributes of each function after analysis
    Nil

Programs == [Functions -> [Actions -> Values]]

ASSUME AnnotateAssumption ==
    /\ Functions \subseteq Nat /\ IsFiniteSet(Functions)
    /\ "rename" \in Actions
    /\ Functions \intersect Values = {}
    /\ Start \in Programs
    /\ Nil \notin Functions \union Values \union Programs \union [Functions -> Values]

VARIABLES
    mem,      \* the open program, or Nil when evicted
    saved,    \* the program in the project on disk
    index,    \* name index of the handle's GhidraTools, or Nil before a lookup
    journal,  \* audit records: <<call, outcome>>, with the call's preview
    call      \* where each call stands, its arguments and its preview

vars == <<mem, saved, index, journal, call>>

States == {"idle", "previewed", "committing", "abandoned", "committed", "raised",
           "applied", "declined", "refused", "failed", "late", "lost"}
Pending == {"committing", "abandoned"}
InFlight == Pending \union {"previewed", "committed", "raised"}

CallType == [state : States, target : Functions \union Values \union {Nil},
             action : Actions, addr : Functions \union {Nil},
             old : Values \union {Nil}, new : Values \union {Nil}]

NotCalled == [state |-> "idle", target |-> Nil, action |-> "rename", addr |-> Nil,
              old |-> Nil, new |-> Nil]

TypeOK ==
    /\ mem \in Programs \union {Nil}
    /\ saved \in Programs
    /\ index \in [Functions -> Values] \union {Nil}
    /\ journal \subseteq Calls \X {"applied", "declined", "failed"}
    /\ call \in [Calls -> CallType]

Init ==
    /\ mem = Nil
    /\ saved = Start
    /\ index = Nil
    /\ journal = {}
    /\ call = [c \in Calls |-> NotCalled]

-----------------------------------------------------------------------------
\* _get_handle hot-loads an evicted program.
Opened == IF mem = Nil THEN saved ELSE mem

NamesOf(program) == [f \in Functions |-> program[f]["rename"]]

\* The index survives until invalidate_cache or an eviction.
Index == IF index = Nil THEN NamesOf(Opened) ELSE index

\* _find_function: by address; by name, where the last function indexed under a
\* name wins; or the first function whose name has the target as a substring.
Found(target) ==
    LET exact == {f \in Functions : Index[f] = target}
        similar == {f \in Functions : <<target, Opened[f]["rename"]>> \in Contains}
    IN  IF target \in Functions THEN {target}
        ELSE IF exact # {} THEN {f \in exact : \A g \in exact : g <= f}
        ELSE {f \in similar : \A g \in similar : f <= g}

\* A lookup opens the program and, unless by address, builds the index.
Looked(target) ==
    /\ mem' = Opened
    /\ index' = IF target \in Functions THEN index ELSE Index

\* Mutant: the commit takes the function the target resolves to now.
Resolves(p, f) == TRUE

\* The target still resolves to the address that was previewed.
StillThere(p, f) == f = p.addr

Written(p, f) == [Opened EXCEPT ![f][p.action] = p.new]

\* Mutant: the record takes the call's state for its outcome.
NotedAsIs(c, outcome) == journal' \in {journal, journal \union {<<c, call[c].state>>}}

\* The best-effort _audit_write: its failure is only logged.
Noted(c, outcome) == journal' \in {journal, journal \union {<<c, outcome>>}}

\* Mutant: the required record is written with best effort.
RecordedIfPossible(c) == Noted(c, "applied")

\* _audit_write(..., required=True), when it does not raise.
Recorded(c) == journal' = journal \union {<<c, "applied">>}

MoveTo(c, state) == call' = [call EXCEPT ![c].state = state]

\* Resolve the target and read the current value.
Preview(c) ==
    /\ call[c].state = "idle"
    /\ \E target \in Functions \union Values, action \in Actions, new \in Values :
          /\ Looked(target)
          /\ \/ \E f \in Found(target) :
                   call' = [call EXCEPT ![c] =
                       [state |-> "previewed", target |-> target, action |-> action,
                        addr |-> f, old |-> Opened[f][action], new |-> new]]
             \/ Found(target) = {} /\ MoveTo(c, "failed")
    /\ UNCHANGED <<saved, journal>>

\* Declined, or no answer can be had; noted unless the request was cancelled.
Decline(c) ==
    /\ call[c].state = "previewed"
    /\ Noted(c, "declined")
    /\ MoveTo(c, "declined")
    /\ UNCHANGED <<mem, saved, index>>

\* Confirmed: the record, then the commit is handed to a thread; or the record
\* cannot be written and the call is refused.
Confirm(c) ==
    /\ call[c].state = "previewed"
    /\ \/ Recorded(c) /\ MoveTo(c, "committing")
       \/ MoveTo(c, "refused") /\ UNCHANGED journal
    /\ UNCHANGED <<mem, saved, index>>

\* Mutant: the program is saved when it is evicted, not in the commit.
SavedLater(program) == saved

\* save_program: the program as it is in memory, whoever changed it.
Saved(program) == program

\* The worker thread: written in a transaction, saved, the caches dropped.
CommitSaves(c) ==
    /\ call[c].state \in Pending
    /\ \E f \in Found(call[c].target) :
          StillThere(call[c], f) /\ mem' = Written(call[c], f)
    /\ saved' = Saved(mem')
    /\ index' = Nil
    /\ MoveTo(c, IF call[c].state = "committing" THEN "committed" ELSE "late")
    /\ UNCHANGED journal

\* The transaction ends well and the save raises: the change stays in memory.
CommitUnsaved(c) ==
    /\ call[c].state \in Pending
    /\ \E f \in Found(call[c].target) :
          StillThere(call[c], f) /\ mem' = Written(call[c], f)
    /\ index' = IF call[c].target \in Functions THEN index ELSE Index
    /\ MoveTo(c, IF call[c].state = "committing" THEN "raised" ELSE "late")
    /\ UNCHANGED <<saved, journal>>

\* The target moved, or the write raises and the transaction is rolled back.
CommitRaises(c) ==
    /\ call[c].state \in Pending
    /\ Looked(call[c].target)
    /\ MoveTo(c, IF call[c].state = "committing" THEN "raised" ELSE "late")
    /\ UNCHANGED <<saved, journal>>

\* The tool's budget runs out (wait_for), or the client cancels, which is not
\* noted.  The thread goes on.
Abandon(c) ==
    /\ call[c].state = "committing"
    /\ Noted(c, "failed")
    /\ MoveTo(c, "abandoned")
    /\ UNCHANGED <<mem, saved, index>>

\* The coroutine resumes with the thread's result.
Answer(c) ==
    /\ \/ call[c].state = "committed" /\ MoveTo(c, "applied") /\ UNCHANGED journal
       \/ call[c].state = "raised" /\ MoveTo(c, "failed") /\ Noted(c, "failed")
    /\ UNCHANGED <<mem, saved, index>>

\* _eviction_monitor unloads the binary without saving it.
Evict ==
    /\ mem # Nil
    /\ mem' = Nil
    /\ index' = Nil
    /\ UNCHANGED <<saved, journal, call>>

\* The server dies; the project and the journal are there for the next one.
Restart ==
    /\ mem' = Nil
    /\ index' = Nil
    /\ call' = [c \in Calls |->
           IF call[c].state \in InFlight THEN [call[c] EXCEPT !.state = "lost"] ELSE call[c]]
    /\ UNCHANGED <<saved, journal>>

Step(c) ==
    \/ Preview(c) \/ Decline(c) \/ Confirm(c) \/ Abandon(c) \/ Answer(c)
    \/ CommitSaves(c) \/ CommitUnsaved(c) \/ CommitRaises(c)

Next == Evict \/ Restart \/ \E c \in Calls : Step(c)

Spec == Init /\ [][Next]_vars

-----------------------------------------------------------------------------
\* A recorded call for this attribute of this function.
RecordedFor(c, f, a) ==
    <<c, "applied">> \in journal /\ call[c].addr = f /\ call[c].action = a

\* Write-ahead: whatever the program holds, on disk or in memory, that analysis did
\* not put there, the journal has a record that says so.  Through commits nobody
\* waits for any more, failed saves that a later call saves, evictions and crashes,
\* no change goes unrecorded and none lands on a function other than the one shown
\* ("a committed change can never go unrecorded").
WriteAhead ==
    \A f \in Functions, a \in Actions : \A program \in {saved, Opened} :
        program[f][a] # Start[f][a] =>
            \E c \in Calls : RecordedFor(c, f, a) /\ call[c].new = program[f][a]

\* The undo log: for every attribute that was changed, some record has the value it
\* had after analysis as its old value, however calls overlapped ("Each entry
\* records old -> new, so the journal doubles as an undo log").
OriginalRecorded ==
    \A f \in Functions, a \in Actions : \A program \in {saved, Opened} :
        program[f][a] # Start[f][a] =>
            \E c \in Calls : RecordedFor(c, f, a) /\ call[c].old = Start[f][a]

\* What the caller was told is applied is in the project, through evictions and
\* restarts, unless another recorded call wrote over it (save_program: "so the
\* change survives eviction and restart").
AppliedSurvives ==
    \A c \in Calls : call[c].state \in {"committed", "applied"} =>
        LET f == call[c].addr
            a == call[c].action
        IN  \E d \in Calls : RecordedFor(d, f, a) /\ call[d].new = saved[f][a]

\* "capture the current value so the human sees the exact old -> new and so commit
\* can detect drift": a commit only replaces the value that was shown.
CommitsWhatWasShown ==
    [][\A c \in Calls :
          LET p == call[c]
          IN  p.state \in Pending /\ call'[c].state = "committed" =>
                 Opened[p.addr][p.action] = p.old]_vars
=============================================================================
