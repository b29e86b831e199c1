------------------------------- MODULE Calls -------------------------------
(***************************************************************************)
(* A client's messages on their way through the proxy into the server, and *)
(* the answers to them: stdio_to_http and the patched post_writer, the     *)
(* event loop of the server, the worker threads of _run_bounded and        *)
(* asyncio.to_thread, and the one lock they all need.                      *)
(*                                                                         *)
(* What a call does under the lock may never return ("pathologically many  *)
(* minutes"): Return has no fairness here, and the properties that need it *)
(* say so.  A tool call is abandoned when its budget is over; search has   *)
(* no budget, and load() of a large binary and the eviction monitor take   *)
(* the lock on the event loop, where nothing runs until they have it.      *)
(***************************************************************************)
EXTENDS Integers, FiniteSets

CONSTANTS
    MaxMessages,  \* bound: messages of the client
    PoolSize      \* worker threads of the default executor

ASSUME CallsAssumption == MaxMessages \in Nat \ {0} /\ PoolSize \in Nat \ {0}

VARIABLES
    kind,      \* of each message
    stage,     \* where each message, or the work for it, is
    posts,     \* POSTs of each message
    answer,    \* the answer to each request
    resolved,  \* searches that have their handle
    lock,      \* whose work holds _backend_lock; 0 for nobody's
    loop       \* what the event loop waits in: a load(), the Monitor; 0 for nothing

vars == <<kind, stage, posts, answer, resolved, lock, loop>>

Messages == 1..MaxMessages
Requests == {"tool", "search", "load"}
Monitor == MaxMessages + 1

\* sent: in stdin or the stream to post_writer; task: handed to a task that has
\* not run; inline: post_writer awaits its POST; posted: the server has it;
\* submitted: in the executor's queue; thread: waits for the lock; holds: has it;
\* reads: load() goes on without it; returned: the loop has not seen the result;
\* over: nothing is left to do.
Stages == {"unsent", "sent", "task", "inline", "posted", "submitted", "thread", "holds",
           "reads", "returned", "over"}

At(s) == {m \in Messages : stage[m] = s}

\* Worker threads in use; load() waits on the loop's own.
Busy == {m \in Messages : kind[m] # "load" /\ stage[m] \in {"thread", "holds"}}

\* Types, the executor's bound, and what loop says of the one load() in progress.
TypeOK ==
    /\ kind \in [Messages -> Requests \union {"none", "note"}]
    /\ stage \in [Messages -> Stages]
    /\ posts \in [Messages -> Nat]
    /\ answer \in [Messages -> {"none", "result", "timeout"}]
    /\ resolved \subseteq Messages
    /\ lock \in {0} \union Messages
    /\ loop \in {0, Monitor} \union Messages
    /\ Cardinality(Busy) <= PoolSize
    /\ \A m \in Messages : kind[m] = "load" /\ stage[m] \in {"thread", "holds", "reads"} <=> m = loop

Init ==
    /\ kind = [m \in Messages |-> "none"]
    /\ stage = [m \in Messages |-> "unsent"]
    /\ posts = [m \in Messages |-> 0]
    /\ answer = [m \in Messages |-> "none"]
    /\ resolved = {}
    /\ lock = 0
    /\ loop = 0

Goto(m, s) == stage' = [stage EXCEPT ![m] = s]

-----------------------------------------------------------------------------
(* The client and the proxy.                                               *)

Send(m) ==
    /\ stage[m] = "unsent"
    /\ \A n \in Messages : n < m => stage[n] # "unsent"
    /\ \E k \in Requests \union {"note"} : kind' = [kind EXCEPT ![m] = k]
    /\ Goto(m, "sent")
    /\ UNCHANGED <<posts, answer, resolved, lock, loop>>

\* Mutant: every message is handed to a task.
NoneInline(m) == FALSE

\* post_writer awaits the POST of what is no request.
PostedInline(m) == kind[m] = "note"

\* stdio_to_http and post_writer take the next message.
Read(m) ==
    /\ stage[m] = "sent" /\ At("inline") = {}
    /\ \A n \in Messages : n < m => stage[n] # "sent"
    /\ Goto(m, IF PostedInline(m) THEN "inline" ELSE "task")
    /\ UNCHANGED <<kind, posts, answer, resolved, lock, loop>>

\* Mutant: the coroutine reads the loop variable, as upstream's does.
LastRead(m) == CHOOSE n \in Messages : /\ stage[n] \notin {"unsent", "sent"}
                                       /\ \A k \in Messages : k > n => stage[k] \in {"unsent", "sent"}

\* The context that the coroutine of m has bound.
Context(m) == m

\* A task runs: its request reaches the server.
PostRequest(m) ==
    /\ stage[m] = "task"
    /\ posts' = [posts EXCEPT ![Context(m)] = @ + 1]
    /\ stage' = [stage EXCEPT ![m] = "over", ![Context(m)] = "posted"]
    /\ UNCHANGED <<kind, answer, resolved, lock, loop>>

PostNote(m) ==
    /\ stage[m] = "inline" \/ (stage[m] = "task" /\ kind[m] = "note")
    /\ posts' = [posts EXCEPT ![m] = @ + 1]
    /\ Goto(m, "over")
    /\ UNCHANGED <<kind, answer, resolved, lock, loop>>

-----------------------------------------------------------------------------
(* The event loop of the server.                                           *)

\* A handler starts: load() waits where it is, the others give work to a thread.
Start(m) ==
    /\ loop = 0 /\ stage[m] = "posted"
    /\ IF kind[m] = "load"
       THEN Goto(m, "thread") /\ loop' = m
       ELSE Goto(m, "submitted") /\ UNCHANGED loop
    /\ UNCHANGED <<kind, posts, answer, resolved, lock>>

\* Mutant: the budget ends with the wait in the executor's queue.
OnlyQueued(m) == kind[m] = "tool" /\ stage[m] = "submitted"

\* wait_for is still waiting for the thread of a bounded call.
Budgeted(m) == kind[m] = "tool" /\ stage[m] \in {"submitted", "thread", "holds"}

\* The budget is over: the caller gets an error; a thread that runs goes on, work
\* that is still queued is cancelled.
TimeOut(m) ==
    /\ loop = 0 /\ Budgeted(m) /\ answer[m] = "none"
    /\ answer' = [answer EXCEPT ![m] = "timeout"]
    /\ IF stage[m] = "submitted" THEN Goto(m, "over") ELSE UNCHANGED stage
    /\ UNCHANGED <<kind, posts, resolved, lock, loop>>

\* The loop sees a result.  A search has its handle now, and goes on with it.
Deliver(m) ==
    /\ loop = 0 /\ stage[m] = "returned"
    /\ IF kind[m] = "search" /\ m \notin resolved
       THEN /\ resolved' = resolved \union {m}
            /\ Goto(m, "submitted") /\ UNCHANGED answer
       ELSE /\ answer' = [answer EXCEPT ![m] = IF @ = "none" THEN "result" ELSE @]
            /\ Goto(m, "over") /\ UNCHANGED resolved
    /\ UNCHANGED <<kind, posts, lock, loop>>

\* _eviction_monitor wakes up, or comes to a candidate, and waits for the lock there.
MonitorWakes ==
    /\ loop = 0
    /\ loop' = Monitor
    /\ UNCHANGED <<kind, stage, posts, answer, resolved, lock>>

\* It lists the programs, or evicts one, under the lock.
MonitorReads ==
    /\ loop = Monitor /\ lock = 0
    /\ loop' = 0
    /\ UNCHANGED <<kind, stage, posts, answer, resolved, lock>>

-----------------------------------------------------------------------------
(* Worker threads, and the loop inside load().                             *)

FreeThread == Cardinality(Busy) < PoolSize

PickUp(m) ==
    /\ stage[m] = "submitted" /\ FreeThread
    /\ Goto(m, "thread")
    /\ UNCHANGED <<kind, posts, answer, resolved, lock, loop>>

\* The work of m may begin.
LockFree(m) == lock = 0

TakeLock(m) ==
    /\ stage[m] = "thread" /\ LockFree(m)
    /\ lock' = m
    /\ Goto(m, "holds")
    /\ UNCHANGED <<kind, posts, answer, resolved, loop>>

\* Mutant: an abandoned thread keeps the lock.
KeptIfAbandoned(m) == IF answer[m] = "timeout" THEN m ELSE 0

\* The lock after the with block of m.
Released(m) == 0

\* A Ghidra call under the lock returns, abandoned or not.
Return(m) ==
    /\ stage[m] = "holds" /\ kind[m] # "load"
    /\ lock' = Released(m)
    /\ Goto(m, "returned")
    /\ UNCHANGED <<kind, posts, answer, resolved, loop>>

\* load() has copied the table of programs, and gives the lock up.
EndCopy(m) ==
    /\ stage[m] = "holds" /\ kind[m] = "load"
    /\ lock' = Released(m)
    /\ Goto(m, "reads")
    /\ UNCHANGED <<kind, posts, answer, resolved, loop>>

\* It counts the functions of the program it found there, without the lock.
EndLoad(m) ==
    /\ stage[m] = "reads"
    /\ loop' = 0
    /\ answer' = [answer EXCEPT ![m] = "result"]
    /\ Goto(m, "over")
    /\ UNCHANGED <<kind, posts, resolved, lock>>

MessageStep(m) ==
    \/ Send(m) \/ Read(m) \/ PostRequest(m) \/ PostNote(m)
    \/ Start(m) \/ TimeOut(m) \/ Deliver(m)
    \/ PickUp(m) \/ TakeLock(m) \/ Return(m)
    \/ EndCopy(m) \/ EndLoad(m)

Next == (\E m \in Messages : MessageStep(m)) \/ MonitorWakes \/ MonitorReads

Spec == Init /\ [][Next]_vars

Proxy == \E m \in Messages : Read(m) \/ PostRequest(m) \/ PostNote(m)
Loop == \E m \in Messages : Start(m) \/ TimeOut(m) \/ Deliver(m)
Threads == \E m \in Messages : PickUp(m) \/ TakeLock(m) \/ EndCopy(m) \/ EndLoad(m)

\* The proxy, the event loop whenever it runs, and the threads go on.  Each step
\* happens at most twice for a message, so no choice between them starves one.
Fairness == WF_vars(Proxy) /\ SF_vars(Loop) /\ WF_vars(Threads) /\ WF_vars(MonitorReads)

FairSpec == Spec /\ Fairness

-----------------------------------------------------------------------------
(* Properties.                                                             *)

\* Every request that post_writer has taken is POSTed once, under its own id, or
\* still has its task: none is lost in a burst, none is sent twice.
PostedOnce ==
    \A m \in Messages :
        posts[m] = IF stage[m] \in {"unsent", "sent", "task", "inline"} THEN 0 ELSE 1

\* What is no request reaches the server before everything that came after it.
NotesInOrder ==
    [][\A m, n \in Messages :
        posts'[m] > posts[m] /\ n < m /\ kind[n] = "note" => posts[n] > 0]_vars

\* A bounded call is answered although what holds the lock may never return,
\* provided that the event loop runs again and again.
BoundedAnswered ==
    []<>(loop = 0) => \A m \in Messages :
        (stage[m] = "posted" /\ kind[m] = "tool") ~> answer[m] # "none"

\* Once the calls that hold the lock return, abandoned ones included, normal
\* service resumes: every request is answered.
ServiceResumes ==
    WF_vars(\E m \in Messages : Return(m)) => \A m \in Messages :
        (stage[m] = "sent" /\ kind[m] \in Requests) ~> answer[m] # "none"

\* What _run_bounded's docstring says of other calls while an abandoned thread
\* holds the lock: they time out rather than hang.
OthersTimeOut ==
    \A m \in Messages :
        (stage[m] = "posted" /\ kind[m] = "tool") ~> answer[m] # "none"

=============================================================================
