---------------------------- MODULE CallsProofs ----------------------------
(***************************************************************************)
(* Types, the bound of the thread pool, and delivery by the proxy, for any *)
(* number of messages and worker threads.                                  *)
(***************************************************************************)
EXTENDS Calls, FiniteSetTheorems, TLAPS

\* load() runs on the loop, never through the executor; only load() reads off the lock.
LoadOnLoop ==
    \A m \in Messages : /\ kind[m] = "load" => stage[m] \notin {"submitted", "returned"}
                        /\ stage[m] = "reads" => kind[m] = "load"

\* TypeOK but for the number of busy threads.
Typed ==
    /\ kind \in [Messages -> Requests \union {"none", "note"}]
    /\ stage \in [Messages -> Stages]
    /\ posts \in [Messages -> Nat]
    /\ answer \in [Messages -> {"none", "result", "timeout"}]
    /\ resolved \subseteq Messages
    /\ lock \in {0} \union Messages
    /\ loop \in {0, Monitor} \union Messages
    /\ \A m \in Messages : kind[m] = "load" /\ stage[m] \in {"thread", "holds", "reads"} <=> m = loop

Bounded == Typed /\ LoadOnLoop /\ Cardinality(Busy) <= PoolSize

\* Busy threads can be counted.
LEMMA BusyFinite == IsFiniteSet(Busy) /\ Cardinality(Busy) \in Nat
<1>1. IsFiniteSet(Messages)
  BY FS_Interval, CallsAssumption DEF Messages
<1>2. Busy \subseteq Messages
  BY DEF Busy
<1> QED BY <1>1, <1>2, FS_Subset, FS_CardinalityType

\* No thread is busy at first.
LEMMA BoundedInit == Init => Bounded
<1> SUFFICES ASSUME Init PROVE Bounded
  OBVIOUS
<1>1. Typed /\ LoadOnLoop
  BY DEF Init, Typed, LoadOnLoop, Messages, Stages, Requests
<1>2. Busy = {}
  BY DEF Init, Busy
<1> QED BY <1>1, <1>2, FS_EmptySet, CallsAssumption DEF Bounded

\* A step that brings no message into a thread keeps the bound.
LEMMA BoundKept ==
    ASSUME Bounded, Busy' \subseteq Busy
    PROVE  Cardinality(Busy') <= PoolSize
<1>1. Cardinality(Busy') <= Cardinality(Busy) /\ Cardinality(Busy') \in Nat
  BY BusyFinite, FS_Subset, FS_CardinalityType
<1> QED BY <1>1, BusyFinite, CallsAssumption DEF Bounded

\* Every step keeps the types.
LEMMA TypedNext ==
    ASSUME Bounded, Next
    PROVE  Typed' /\ LoadOnLoop'
<1> USE DEF Bounded
<1>1. 0 \notin Messages /\ Monitor \notin Messages /\ Monitor # 0
  BY CallsAssumption DEF Messages, Monitor
<1>2. ASSUME NEW m \in Messages, Send(m) PROVE Typed' /\ LoadOnLoop'
  BY <1>1, <1>2 DEF Send, Goto, Typed, LoadOnLoop, Stages, Requests
<1>3. ASSUME NEW m \in Messages, Read(m) PROVE Typed' /\ LoadOnLoop'
  BY <1>1, <1>3 DEF Read, PostedInline, Goto, Typed, LoadOnLoop, Stages
<1>4. ASSUME NEW m \in Messages, PostRequest(m) PROVE Typed' /\ LoadOnLoop'
  BY <1>1, <1>4 DEF PostRequest, Context, Typed, LoadOnLoop, Stages
<1>5. ASSUME NEW m \in Messages, PostNote(m) PROVE Typed' /\ LoadOnLoop'
  BY <1>1, <1>5 DEF PostNote, Goto, Typed, LoadOnLoop, Stages
<1>6. ASSUME NEW m \in Messages, Start(m) PROVE Typed' /\ LoadOnLoop'
  BY <1>1, <1>6 DEF Start, Goto, Typed, LoadOnLoop, Stages
<1>7. ASSUME NEW m \in Messages, TimeOut(m) PROVE Typed' /\ LoadOnLoop'
  BY <1>1, <1>7 DEF TimeOut, Budgeted, Goto, Typed, LoadOnLoop, Stages
<1>8. ASSUME NEW m \in Messages, Deliver(m) PROVE Typed' /\ LoadOnLoop'
  BY <1>1, <1>8 DEF Deliver, Goto, Typed, LoadOnLoop, Stages
<1>9. ASSUME NEW m \in Messages, PickUp(m) PROVE Typed' /\ LoadOnLoop'
  BY <1>1, <1>9 DEF PickUp, Goto, Typed, LoadOnLoop, Stages
<1>10. ASSUME NEW m \in Messages, TakeLock(m) PROVE Typed' /\ LoadOnLoop'
  BY <1>1, <1>10 DEF TakeLock, Goto, Typed, LoadOnLoop, Stages
<1>11. ASSUME NEW m \in Messages, Return(m) PROVE Typed' /\ LoadOnLoop'
  BY <1>1, <1>11 DEF Return, Released, Goto, Typed, LoadOnLoop, Stages
<1>12. ASSUME NEW m \in Messages, EndCopy(m) PROVE Typed' /\ LoadOnLoop'
  BY <1>1, <1>12 DEF EndCopy, Released, Goto, Typed, LoadOnLoop, Stages
<1>13. ASSUME NEW m \in Messages, EndLoad(m) PROVE Typed' /\ LoadOnLoop'
  BY <1>1, <1>13 DEF EndLoad, Goto, Typed, LoadOnLoop, Stages
<1>14. ASSUME MonitorWakes \/ MonitorReads PROVE Typed' /\ LoadOnLoop'
  BY <1>1, <1>14 DEF MonitorWakes, MonitorReads, Typed, LoadOnLoop
<1> QED BY <1>2, <1>3, <1>4, <1>5, <1>6, <1>7, <1>8, <1>9, <1>10, <1>11, <1>12, <1>13, <1>14
        DEF Next, MessageStep

\* Only PickUp brings a message into a thread, and only when one is free.
LEMMA PoolKept ==
    ASSUME Bounded, Next
    PROVE  Cardinality(Busy') <= PoolSize
<1> USE DEF Bounded
<1>1. ASSUME NEW m \in Messages, PickUp(m) PROVE Cardinality(Busy') <= PoolSize
  <2>1. Busy' \subseteq Busy \union {m} /\ m \notin Busy
    BY <1>1 DEF PickUp, Goto, Busy, Typed
  <2>2. /\ IsFiniteSet(Busy \union {m})
        /\ Cardinality(Busy \union {m}) = Cardinality(Busy) + 1
    BY <2>1, BusyFinite, FS_AddElement
  <2>3. Cardinality(Busy') <= Cardinality(Busy \union {m}) /\ Cardinality(Busy') \in Nat
    BY <2>1, <2>2, FS_Subset, FS_CardinalityType
  <2>4. Cardinality(Busy) < PoolSize
    BY <1>1 DEF PickUp, FreeThread
  <2> QED BY <2>2, <2>3, <2>4, BusyFinite, CallsAssumption
<1>2. ASSUME NEW m \in Messages,
             Send(m) \/ Read(m) \/ PostRequest(m) \/ PostNote(m)
      PROVE  Busy' \subseteq Busy
  BY <1>2 DEF Send, Read, PostedInline, PostRequest, Context, PostNote, Goto, Busy, Typed
<1>3. ASSUME NEW m \in Messages, Start(m) \/ TimeOut(m) \/ Deliver(m)
      PROVE  Busy' \subseteq Busy
  BY <1>3 DEF Start, TimeOut, Deliver, Goto, Busy, Typed
<1>4. ASSUME NEW m \in Messages, TakeLock(m) \/ Return(m) \/ EndCopy(m) \/ EndLoad(m)
      PROVE  Busy' \subseteq Busy
  BY <1>4 DEF TakeLock, Return, EndCopy, EndLoad, Goto, Busy, Typed
<1>5. ASSUME MonitorWakes \/ MonitorReads PROVE Busy' \subseteq Busy
  BY <1>5 DEF MonitorWakes, MonitorReads, Busy
<1> QED BY <1>1, <1>2, <1>3, <1>4, <1>5, BoundKept DEF Next, MessageStep

\* Values stay in their types, no more threads are busy than the pool has, and
\* loop names the load(), if it is one, that the event loop waits in.
THEOREM TypeCorrect == Spec => []TypeOK
<1>1. Bounded /\ [Next]_vars => Bounded'
  <2>1. ASSUME Bounded, Next PROVE Bounded'
    BY <2>1, TypedNext, PoolKept DEF Bounded
  <2>2. ASSUME Bounded, UNCHANGED vars PROVE Bounded'
    BY <2>2 DEF vars, Bounded, Typed, LoadOnLoop, Busy
  <2> QED BY <2>1, <2>2
<1>2. Bounded => TypeOK
  BY DEF Bounded, Typed, TypeOK
<1> QED BY <1>1, <1>2, BoundedInit, PTL DEF Spec

-----------------------------------------------------------------------------
\* The part of the types that delivery needs.
Domains ==
    /\ kind \in [Messages -> Requests \union {"none", "note"}]
    /\ stage \in [Messages -> Stages]
    /\ posts \in [Messages -> Nat]

Unread == {"unsent", "sent"}

\* The client sends in order, and messages are read in the order of sending.
SentInOrder == \A n, m \in Messages : n < m /\ stage[n] = "unsent" => stage[m] = "unsent"
ReadInOrder == \A n, m \in Messages : n < m /\ stage[n] \in Unread => stage[m] \in Unread

\* While post_writer awaits a POST, nothing that came later has been read.
InlineIsLast == \A n, m \in Messages : n < m /\ stage[n] = "inline" => stage[m] \in Unread

\* What is no request is awaited: it never gets a task, nor to the server's loop.
NotesStayInline ==
    \A m \in Messages : kind[m] = "note" => stage[m] \in {"sent", "inline", "over"}

\* A message without a kind is not sent yet, and the reverse.
SentHasKind == \A m \in Messages : kind[m] = "none" <=> stage[m] = "unsent"

Delivery ==
    /\ Domains /\ PostedOnce /\ SentInOrder /\ ReadInOrder /\ InlineIsLast
    /\ NotesStayInline /\ SentHasKind

\* No message is sent at first.
LEMMA DeliveryInit == Init => Delivery
BY DEF Init, Delivery, Domains, PostedOnce, SentInOrder, ReadInOrder, InlineIsLast,
   NotesStayInline, SentHasKind, Messages, Requests, Stages, Unread

\* The steps of the server move messages that were posted, and keep them posted.
LEMMA ServerKeepsDelivery ==
    ASSUME Delivery, NEW m \in Messages,
           NEW s \in {"submitted", "thread", "holds", "reads", "returned", "over"},
           stage[m] \in {"posted", "submitted", "thread", "holds", "reads", "returned"},
           stage' = [stage EXCEPT ![m] = s], posts' = posts, kind' = kind
    PROVE  Delivery'
<1>1. stage'[m] = s /\ \A n \in Messages \ {m} : stage'[n] = stage[n]
  BY DEF Delivery, Domains
<1>2. kind[m] # "note"
  BY DEF Delivery, NotesStayInline
<1>3. Domains'
  BY DEF Delivery, Domains, Stages
<1>4. PostedOnce'
  BY <1>1 DEF Delivery, PostedOnce
<1>5. SentInOrder'
  BY <1>1 DEF Delivery, SentInOrder
<1>6. ReadInOrder'
  BY <1>1 DEF Delivery, ReadInOrder, Unread
<1>7. InlineIsLast'
  BY <1>1 DEF Delivery, InlineIsLast, Unread
<1>8. NotesStayInline' /\ SentHasKind'
  BY <1>1, <1>2 DEF Delivery, NotesStayInline, SentHasKind
<1> QED BY <1>3, <1>4, <1>5, <1>6, <1>7, <1>8 DEF Delivery

\* A POST of m: it counts, and m is in the hands of the server or done with.
Posted(m, s) ==
    /\ posts' = [posts EXCEPT ![m] = @ + 1]
    /\ stage' = [stage EXCEPT ![m] = s]
    /\ kind' = kind

\* It keeps the order and counts the message it moves.
LEMMA PostKeepsDelivery ==
    ASSUME Delivery, NEW m \in Messages, NEW s \in {"posted", "over"}, Posted(m, s),
           stage[m] \in {"task", "inline"}, s = "posted" => kind[m] # "note"
    PROVE  Delivery'
<1>1. stage'[m] = s /\ posts'[m] = posts[m] + 1
  BY DEF Delivery, Domains, Posted
<1>2. \A n \in Messages \ {m} : stage'[n] = stage[n] /\ posts'[n] = posts[n]
  BY DEF Delivery, Domains, Posted
<1>3. kind' = kind
  BY DEF Posted
<1>4. Domains'
  BY DEF Delivery, Domains, Posted, Stages
<1>5. PostedOnce'
  BY <1>1, <1>2 DEF Delivery, PostedOnce
<1>6. SentInOrder' /\ ReadInOrder'
  BY <1>1, <1>2 DEF Delivery, SentInOrder, ReadInOrder, Unread
<1>7. InlineIsLast'
  BY <1>1, <1>2 DEF Delivery, InlineIsLast, Unread
<1>8. NotesStayInline' /\ SentHasKind'
  BY <1>1, <1>2, <1>3 DEF Delivery, NotesStayInline, SentHasKind
<1> QED BY <1>4, <1>5, <1>6, <1>7, <1>8 DEF Delivery

\* What leaves messages alone keeps it all.
LEMMA StutterKeepsDelivery ==
    ASSUME Delivery, UNCHANGED <<kind, stage, posts>>
    PROVE  Delivery'
BY DEF Delivery, Domains, PostedOnce, SentInOrder, ReadInOrder, InlineIsLast,
   NotesStayInline, SentHasKind

\* Every step keeps delivery.
LEMMA DeliveryNext == Delivery /\ [Next]_vars => Delivery'
<1> SUFFICES ASSUME Delivery, [Next]_vars PROVE Delivery'
  OBVIOUS
<1>1. ASSUME NEW m \in Messages, Send(m) PROVE Delivery'
  <2>1. /\ stage[m] = "unsent" /\ stage'[m] = "sent" /\ posts' = posts
        /\ kind'[m] \in Requests \union {"note"}
        /\ \A n \in Messages \ {m} : stage'[n] = stage[n] /\ kind'[n] = kind[n]
    BY <1>1 DEF Send, Goto, Delivery, Domains
  <2>2. \A n \in Messages : n < m => stage[n] # "unsent"
    BY <1>1 DEF Send
  <2>3. Domains'
    BY <1>1 DEF Send, Goto, Delivery, Domains, Stages
  <2>4. PostedOnce'
    BY <2>1 DEF Delivery, PostedOnce
  <2>5. SentInOrder' /\ ReadInOrder' /\ InlineIsLast'
    BY <2>1, <2>2 DEF Delivery, SentInOrder, ReadInOrder, InlineIsLast, Unread
  <2>6. NotesStayInline' /\ SentHasKind'
    BY <2>1 DEF Delivery, NotesStayInline, SentHasKind, Requests
  <2> QED BY <2>3, <2>4, <2>5, <2>6 DEF Delivery
<1>2. ASSUME NEW m \in Messages, Read(m) PROVE Delivery'
  <2>1. /\ stage[m] = "sent" /\ posts' = posts /\ kind' = kind
        /\ stage'[m] = IF kind[m] = "note" THEN "inline" ELSE "task"
        /\ \A n \in Messages \ {m} : stage'[n] = stage[n]
    BY <1>2 DEF Read, PostedInline, Goto, Delivery, Domains
  <2>2. /\ \A n \in Messages : stage[n] # "inline"
        /\ \A n \in Messages : n < m => stage[n] \notin Unread
    BY <1>2, <2>1 DEF Read, At, Unread, Delivery, SentInOrder
  <2>3. \A n \in Messages : m < n => stage[n] \in Unread
    BY <2>1 DEF Delivery, ReadInOrder, Unread
  <2>4. Domains'
    BY <1>2 DEF Read, PostedInline, Goto, Delivery, Domains, Stages
  <2>5. PostedOnce'
    BY <2>1 DEF Delivery, PostedOnce
  <2>6. SentInOrder' /\ ReadInOrder' /\ InlineIsLast'
    BY <2>1, <2>2, <2>3 DEF Delivery, SentInOrder, ReadInOrder, InlineIsLast, Unread, Messages
  <2>7. NotesStayInline' /\ SentHasKind'
    BY <2>1 DEF Delivery, NotesStayInline, SentHasKind
  <2> QED BY <2>4, <2>5, <2>6, <2>7 DEF Delivery
<1>3. ASSUME NEW m \in Messages, PostRequest(m) PROVE Delivery'
  <2>1. Posted(m, "posted")
    BY <1>3 DEF PostRequest, Context, Posted, Delivery, Domains
  <2>2. stage[m] = "task" /\ kind[m] # "note"
    BY <1>3 DEF PostRequest, Delivery, NotesStayInline
  <2> QED BY <2>1, <2>2, PostKeepsDelivery
<1>4. ASSUME NEW m \in Messages, PostNote(m) PROVE Delivery'
  <2>1. Posted(m, "over")
    BY <1>4 DEF PostNote, Goto, Posted, Delivery, Domains
  <2>2. stage[m] = "inline"
    BY <1>4 DEF PostNote, Delivery, NotesStayInline
  <2> QED BY <2>1, <2>2, PostKeepsDelivery
<1>5. ASSUME NEW m \in Messages, Start(m) PROVE Delivery'
  BY <1>5, ServerKeepsDelivery DEF Start, Goto
<1>6. ASSUME NEW m \in Messages, TimeOut(m) PROVE Delivery'
  <2>1. stage' = [stage EXCEPT ![m] = "over"] \/ UNCHANGED stage
    BY <1>6 DEF TimeOut, Goto
  <2>2. CASE UNCHANGED stage
    BY <1>6, <2>2, StutterKeepsDelivery DEF TimeOut
  <2> QED BY <1>6, <2>1, <2>2, ServerKeepsDelivery DEF TimeOut, Budgeted
<1>7. ASSUME NEW m \in Messages, Deliver(m) PROVE Delivery'
  BY <1>7, ServerKeepsDelivery DEF Deliver, Goto
<1>8. ASSUME NEW m \in Messages, PickUp(m) \/ TakeLock(m) PROVE Delivery'
  BY <1>8, ServerKeepsDelivery DEF PickUp, TakeLock, Goto
<1>9. ASSUME NEW m \in Messages, Return(m) \/ EndCopy(m) \/ EndLoad(m) PROVE Delivery'
  BY <1>9, ServerKeepsDelivery DEF Return, EndCopy, EndLoad, Goto
<1>10. CASE MonitorWakes \/ MonitorReads \/ UNCHANGED vars
  BY <1>10, StutterKeepsDelivery DEF MonitorWakes, MonitorReads, vars
<1> QED BY <1>1, <1>2, <1>3, <1>4, <1>5, <1>6, <1>7, <1>8, <1>9, <1>10 DEF Next, MessageStep

\* The inductive invariant of the proxy's part.
THEOREM DeliveryInOrder == Spec => []Delivery
BY DeliveryInit, DeliveryNext, PTL DEF Spec

\* Every request that post_writer has taken is POSTed once, or still has its task.
THEOREM EachPostedOnce == Spec => []PostedOnce
<1>1. Delivery => PostedOnce
  BY DEF Delivery
<1> QED BY <1>1, DeliveryInOrder, PTL

\* Only the two posting actions count a POST.
LEMMA OnlyPostsCount ==
    ASSUME Delivery, Next, NEW m \in Messages, posts'[m] > posts[m]
    PROVE  stage[m] \in {"task", "inline"}
<1>1. PICK k \in Messages : PostRequest(k) \/ PostNote(k) \/ posts' = posts
  BY DEF Next, MessageStep, MonitorWakes, MonitorReads, Send, Read, Start, TimeOut, Deliver,
         PickUp, TakeLock, Return, EndCopy, EndLoad
<1>2. posts[m] \in Nat
  BY DEF Delivery, Domains
<1>3. PostRequest(k) \/ PostNote(k)
  BY <1>1, <1>2
<1>4. posts' = [posts EXCEPT ![k] = @ + 1] /\ stage[k] \in {"task", "inline"}
  BY <1>3 DEF PostRequest, PostNote, Context
<1>5. m = k
  BY <1>2, <1>4 DEF Delivery, Domains
<1> QED BY <1>4, <1>5

\* What is no request reaches the server before everything that came after it.
THEOREM NotesPostedInOrder == Spec => NotesInOrder
<1> DEFINE Step == \A m, n \in Messages :
        posts'[m] > posts[m] /\ n < m /\ kind[n] = "note" => posts[n] > 0
<1>1. Delivery /\ [Next]_vars => [Step]_vars
  <2> SUFFICES ASSUME Delivery, Next, NEW m \in Messages, NEW n \in Messages,
                      posts'[m] > posts[m], n < m, kind[n] = "note"
               PROVE  posts[n] > 0
    OBVIOUS
  <2>1. stage[m] \in {"task", "inline"}
    BY OnlyPostsCount
  <2>2. stage[n] = "over"
    BY <2>1 DEF Delivery, NotesStayInline, ReadInOrder, InlineIsLast, Unread
  <2> QED BY <2>2 DEF Delivery, PostedOnce
<1> QED BY <1>1, DeliveryInOrder, PTL DEF Spec, NotesInOrder

=============================================================================
