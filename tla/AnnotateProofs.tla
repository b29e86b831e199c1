--------------------------- MODULE AnnotateProofs ---------------------------
(***************************************************************************)
(* The audit journal against the program, for any number of calls,         *)
(* functions, attributes and values.                                       *)
(***************************************************************************)
EXTENDS Annotate, AuditJournal, FiniteSetTheorems, TLAPS

LEMMA NilFacts ==
  /\ Nil \notin Functions /\ Nil \notin Values /\ Nil \notin Programs
  /\ Nil \notin [Functions -> Values]
  BY AnnotateAssumption

\* What a lookup sees and returns.
LEMMA LookupTypes ==
  ASSUME TypeOK
  PROVE  /\ Opened \in Programs
         /\ Index \in [Functions -> Values]
         /\ \A target \in Functions \union Values \union {Nil} :
               Found(target) \subseteq Functions
  <1>1. Opened \in Programs
    BY DEF TypeOK, Opened
  <1>2. Index \in [Functions -> Values]
    BY <1>1, AnnotateAssumption DEF TypeOK, Index, NamesOf, Programs
  <1>3. ASSUME NEW target \in Functions \union Values \union {Nil}
        PROVE  Found(target) \subseteq Functions
    BY DEF Found
  <1> QED BY <1>1, <1>2, <1>3

LEMMA WrittenType ==
  ASSUME TypeOK, NEW c \in Calls, NEW f \in Functions, call[c].new \in Values
  PROVE  /\ Written(call[c], f) \in Programs
         /\ \A g \in Functions, a \in Actions :
               Written(call[c], f)[g][a] =
                  IF g = f /\ a = call[c].action THEN call[c].new ELSE Opened[g][a]
  BY LookupTypes DEF TypeOK, Written, Programs, CallType

\* A step of a call moves it and leaves its arguments and its preview alone.
LEMMA MoveToType ==
  ASSUME TypeOK, NEW c \in Calls, NEW state \in States, MoveTo(c, state)
  PROVE  /\ call' \in [Calls -> CallType]
         /\ \A d \in Calls :
               /\ call'[d].target = call[d].target /\ call'[d].action = call[d].action
               /\ call'[d].addr = call[d].addr /\ call'[d].old = call[d].old
               /\ call'[d].new = call[d].new
               /\ call'[d].state = IF d = c THEN state ELSE call[d].state
  BY DEF TypeOK, CallType, MoveTo

\* What the journal relies on: a call has its preview from the moment it is
\* previewed, a commit starts only after its record, and only a call that was
\* previewed has one.
CallsOK ==
    \A c \in Calls :
        /\ call[c].state \in InFlight \union {"applied"} =>
              call[c].addr \in Functions /\ call[c].new \in Values
        /\ call[c].state \in Pending \union {"committed", "raised", "applied"} =>
              <<c, "applied">> \in journal
        /\ <<c, "applied">> \in journal => call[c].state # "idle"
        /\ call[c].state = "idle" => call[c].addr \notin Functions

\* What a step may do to the program, the journal and the calls.
Frame ==
    /\ journal \subseteq journal'
    /\ saved' \in {saved, Opened'}
    /\ \A f \in Functions, a \in Actions :
          \/ Opened'[f][a] \in {Opened[f][a], saved[f][a]}
          \/ \E c \in Calls : /\ call[c].state \in Pending
                              /\ call[c].addr = f /\ call[c].action = a
                              /\ call[c].new = Opened'[f][a]
    /\ \A c \in Calls : call[c].state # "idle" =>
          /\ call'[c].addr = call[c].addr /\ call'[c].action = call[c].action
          /\ call'[c].old = call[c].old /\ call'[c].new = call[c].new
    /\ \A c \in Calls : call[c].state = "idle" /\ call'[c].addr \in Functions =>
          call'[c].action \in Actions
          /\ call'[c].old = Opened[call'[c].addr][call'[c].action]

\* The new program of a commit, saved or not.
LEMMA CommitFrame ==
  ASSUME TypeOK, CallsOK, NEW c \in Calls, NEW f \in Found(call[c].target),
         call[c].state \in Pending, StillThere(call[c], f), mem' = Written(call[c], f)
  PROVE  /\ mem' \in Programs /\ Opened' = mem'
         /\ \A g \in Functions, a \in Actions :
               Opened'[g][a] = Opened[g][a] \/
                  (call[c].addr = g /\ call[c].action = a /\ call[c].new = Opened'[g][a])
  <1>1. f \in Functions /\ call[c].new \in Values /\ f = call[c].addr
    BY LookupTypes DEF TypeOK, CallType, CallsOK, InFlight, StillThere
  <1>2. mem' \in Programs /\ mem' # Nil
    BY <1>1, WrittenType, NilFacts
  <1> QED BY <1>1, <1>2, WrittenType DEF Opened

\* Every step keeps the types and the calls, and stays within the frame.
LEMMA StepFrame ==
  ASSUME TypeOK, CallsOK, [Next]_vars
  PROVE  TypeOK' /\ CallsOK' /\ Frame
  <1> DEFINE Goal == TypeOK' /\ CallsOK' /\ Frame
  <1> USE DEF States, Pending, InFlight
  <1>1. Opened \in Programs
    BY LookupTypes
  <1>2. ASSUME NEW target \in Functions \union Values \union {Nil}, Looked(target)
        PROVE  /\ mem' \in Programs /\ Opened' = Opened
               /\ index' \in [Functions -> Values] \union {Nil}
    BY <1>2, LookupTypes, NilFacts DEF Looked, Opened, TypeOK
  <1>3. ASSUME NEW c \in Calls, Preview(c) PROVE Goal
    <2>1. PICK target \in Functions \union Values, action \in Actions, new \in Values :
             /\ Looked(target)
             /\ \/ \E f \in Found(target) :
                      call' = [call EXCEPT ![c] =
                          [state |-> "previewed", target |-> target, action |-> action,
                           addr |-> f, old |-> Opened[f][action], new |-> new]]
                \/ Found(target) = {} /\ MoveTo(c, "failed")
      BY <1>3 DEF Preview
    <2>2. /\ mem' \in Programs /\ Opened' = Opened
          /\ index' \in [Functions -> Values] \union {Nil}
          /\ saved' = saved /\ journal' = journal /\ call[c].state = "idle"
      BY <1>2, <1>3, <2>1 DEF Preview
    <2>3. CASE Found(target) = {} /\ MoveTo(c, "failed")
      <3>1. call' \in [Calls -> CallType]
        BY <2>3, MoveToType
      <3>2. \A d \in Calls :
               /\ call'[d].target = call[d].target /\ call'[d].action = call[d].action
               /\ call'[d].addr = call[d].addr /\ call'[d].old = call[d].old
               /\ call'[d].new = call[d].new
               /\ call'[d].state = IF d = c THEN "failed" ELSE call[d].state
        BY <2>3, MoveToType
      <3> QED BY <2>2, <3>1, <3>2 DEF TypeOK, CallsOK, Frame
    <2>4. ASSUME NEW f \in Found(target),
                 call' = [call EXCEPT ![c] =
                     [state |-> "previewed", target |-> target, action |-> action,
                      addr |-> f, old |-> Opened[f][action], new |-> new]]
          PROVE  Goal
      <3>1. f \in Functions /\ Opened[f][action] \in Values
        BY <1>1, LookupTypes DEF Programs
      <3>2. call' \in [Calls -> CallType]
        BY <2>4, <3>1 DEF TypeOK, CallType
      <3>3. /\ call'[c].state = "previewed" /\ call'[c].addr = f /\ call'[c].new = new
            /\ call'[c].action = action /\ call'[c].old = Opened[f][action]
            /\ \A d \in Calls \ {c} : call'[d] = call[d]
        BY <2>4 DEF TypeOK
      <3>4. CallsOK'
        BY <2>2, <3>1, <3>3 DEF CallsOK
      <3>5. Frame
        BY <2>2, <3>3 DEF Frame, CallsOK
      <3>6. TypeOK'
        BY <2>2, <3>2 DEF TypeOK
      <3> QED BY <3>4, <3>5, <3>6
    <2> QED BY <2>1, <2>3, <2>4
  <1>4. ASSUME NEW c \in Calls, NEW state \in States \ {"idle"}, MoveTo(c, state),
               call[c].state # "idle",
               state \in InFlight \union {"applied"} => call[c].state \in InFlight,
               state \in Pending \union {"committed", "raised", "applied"} =>
                  <<c, "applied">> \in journal',
               journal \subseteq journal', TypeOK',
               \A d \in Calls : <<d, "applied">> \in journal' \ journal => d = c
        PROVE  /\ CallsOK'
               /\ \A d \in Calls :
                     /\ call'[d].addr = call[d].addr /\ call'[d].action = call[d].action
                     /\ call'[d].old = call[d].old /\ call'[d].new = call[d].new
    <2>1. \A d \in Calls :
             /\ call'[d].addr = call[d].addr /\ call'[d].action = call[d].action
             /\ call'[d].old = call[d].old /\ call'[d].new = call[d].new
             /\ call'[d].state = IF d = c THEN state ELSE call[d].state
      BY <1>4, MoveToType
    <2> QED BY <1>4, <2>1 DEF CallsOK
  <1>5. ASSUME NEW c \in Calls, Decline(c) PROVE Goal
    <2>1. TypeOK'
      BY <1>5, MoveToType DEF Decline, Noted, TypeOK
    <2> QED BY <1>4, <1>5, <2>1 DEF Decline, Noted, Frame, Opened, CallsOK
  <1>6. ASSUME NEW c \in Calls, Confirm(c) PROVE Goal
    <2>1. TypeOK'
      BY <1>6, MoveToType DEF Confirm, Recorded, TypeOK
    <2> QED BY <1>4, <1>6, <2>1 DEF Confirm, Recorded, Frame, Opened, CallsOK
  <1>7. ASSUME NEW c \in Calls, Abandon(c) PROVE Goal
    <2>1. TypeOK'
      BY <1>7, MoveToType DEF Abandon, Noted, TypeOK
    <2> QED BY <1>4, <1>7, <2>1 DEF Abandon, Noted, Frame, Opened, CallsOK
  <1>8. ASSUME NEW c \in Calls, Answer(c) PROVE Goal
    <2>1. TypeOK'
      BY <1>8, MoveToType DEF Answer, Noted, TypeOK
    <2> QED BY <1>4, <1>8, <2>1 DEF Answer, Noted, Frame, Opened, CallsOK
  <1>9. ASSUME NEW c \in Calls, CommitSaves(c) PROVE Goal
    <2>1. PICK f \in Found(call[c].target) : StillThere(call[c], f) /\ mem' = Written(call[c], f)
      BY <1>9 DEF CommitSaves
    <2>2. /\ mem' \in Programs /\ Opened' = mem' /\ saved' = mem'
          /\ \A g \in Functions, a \in Actions :
                Opened'[g][a] = Opened[g][a] \/
                   (call[c].addr = g /\ call[c].action = a /\ call[c].new = Opened'[g][a])
      BY <1>9, <2>1, CommitFrame DEF CommitSaves, Saved
    <2>3. TypeOK'
      BY <1>9, <2>2, MoveToType DEF CommitSaves, TypeOK
    <2> QED BY <1>4, <1>9, <2>2, <2>3 DEF CommitSaves, Frame, CallsOK
  <1>10. ASSUME NEW c \in Calls, CommitUnsaved(c) PROVE Goal
    <2>1. PICK f \in Found(call[c].target) : StillThere(call[c], f) /\ mem' = Written(call[c], f)
      BY <1>10 DEF CommitUnsaved
    <2>2. /\ mem' \in Programs /\ Opened' = mem'
          /\ \A g \in Functions, a \in Actions :
                Opened'[g][a] = Opened[g][a] \/
                   (call[c].addr = g /\ call[c].action = a /\ call[c].new = Opened'[g][a])
      BY <1>10, <2>1, CommitFrame DEF CommitUnsaved
    <2>3. TypeOK'
      BY <1>10, <2>2, LookupTypes, MoveToType DEF CommitUnsaved, TypeOK
    <2> QED BY <1>4, <1>10, <2>2, <2>3 DEF CommitUnsaved, Frame, CallsOK
  <1>11. ASSUME NEW c \in Calls, CommitRaises(c) PROVE Goal
    <2>1. /\ mem' \in Programs /\ Opened' = Opened
          /\ index' \in [Functions -> Values] \union {Nil}
      BY <1>2, <1>11 DEF CommitRaises, TypeOK, CallType
    <2>2. TypeOK'
      BY <1>11, <2>1, MoveToType DEF CommitRaises, TypeOK
    <2> QED BY <1>4, <1>11, <2>1, <2>2 DEF CommitRaises, Frame, CallsOK
  <1>12. ASSUME Evict PROVE Goal
    <2>1. Opened' = saved
      BY <1>12 DEF Evict, Opened
    <2> QED BY <1>12, <2>1 DEF Evict, TypeOK, CallsOK, Frame
  <1>13. ASSUME Restart PROVE Goal
    <2>1. Opened' = saved
      BY <1>13 DEF Restart, Opened
    <2>2. /\ call' \in [Calls -> CallType]
          /\ \A d \in Calls :
                /\ call'[d].addr = call[d].addr /\ call'[d].action = call[d].action
                /\ call'[d].old = call[d].old /\ call'[d].new = call[d].new
                /\ call'[d].state = IF call[d].state \in InFlight THEN "lost" ELSE call[d].state
      BY <1>13 DEF Restart, TypeOK, CallType
    <2>3. TypeOK'
      BY <1>13, <2>2 DEF Restart, TypeOK
    <2>4. CallsOK'
      <3> SUFFICES ASSUME NEW d \in Calls
                   PROVE  /\ call'[d].state \in InFlight \union {"applied"} =>
                                call'[d].addr \in Functions /\ call'[d].new \in Values
                          /\ call'[d].state \in Pending \union {"committed", "raised", "applied"} =>
                                <<d, "applied">> \in journal'
                          /\ <<d, "applied">> \in journal' => call'[d].state # "idle"
                          /\ call'[d].state = "idle" => call'[d].addr \notin Functions
        BY DEF CallsOK
      <3>1. journal' = journal
        BY <1>13 DEF Restart
      <3>2. CASE call[d].state \in InFlight
        BY <2>2, <3>2
      <3>3. CASE call[d].state \notin InFlight
        BY <2>2, <3>1, <3>3 DEF CallsOK
      <3> QED BY <3>2, <3>3
    <2>5. Frame
      BY <1>13, <2>1, <2>2 DEF Restart, Frame, CallsOK
    <2> QED BY <2>3, <2>4, <2>5
  <1>14. CASE UNCHANGED vars
    BY <1>14 DEF vars, TypeOK, CallsOK, Frame, Opened
  <1> QED
    BY <1>3, <1>5, <1>6, <1>7, <1>8, <1>9, <1>10, <1>11, <1>12, <1>13, <1>14 DEF Next, Step
\* Types, and the calls' discipline, hold throughout.
THEOREM TypeCorrect == Spec => [](TypeOK /\ CallsOK)
  <1>1. Init => TypeOK /\ CallsOK
    BY AnnotateAssumption
       DEF Init, TypeOK, CallsOK, NotCalled, CallType, States, InFlight, Pending
  <1>2. TypeOK /\ CallsOK /\ [Next]_vars => (TypeOK /\ CallsOK)'
    BY StepFrame
  <1> QED BY <1>1, <1>2, PTL DEF Spec

\* A record stays, and stays with its call.
LEMMA RecordsStay ==
  ASSUME TypeOK, CallsOK, Frame, NEW c \in Calls, NEW f \in Functions, NEW a \in Actions,
         RecordedFor(c, f, a)
  PROVE  RecordedFor(c, f, a)' /\ call'[c].new = call[c].new /\ call'[c].old = call[c].old
  BY DEF Frame, CallsOK, RecordedFor

\* A call whose commit may run is recorded for the attribute it writes.
LEMMA PendingRecorded ==
  ASSUME CallsOK, NEW c \in Calls, call[c].state \in Pending
  PROVE  RecordedFor(c, call[c].addr, call[c].action)
  BY DEF CallsOK, RecordedFor

-----------------------------------------------------------------------------
(* What the program holds is in the journal.                               *)

\* Write-ahead, as an invariant: every change of the program is recorded first.
THEOREM ChangesRecorded == Spec => []WriteAhead
  <1>1. Init => WriteAhead
    BY DEF Init, WriteAhead, Opened
  <1>2. TypeOK /\ CallsOK /\ WriteAhead /\ [Next]_vars => WriteAhead'
    <2> SUFFICES ASSUME TypeOK, CallsOK, WriteAhead, [Next]_vars PROVE WriteAhead'
      OBVIOUS
    <2>1. Frame
      BY StepFrame
    <2>2. ASSUME NEW f \in Functions, NEW a \in Actions, Opened'[f][a] # Start[f][a]
          PROVE  \E c \in Calls : RecordedFor(c, f, a)' /\ call'[c].new = Opened'[f][a]
      <3>1. CASE Opened'[f][a] \in {Opened[f][a], saved[f][a]}
        <4>1. PICK c \in Calls : RecordedFor(c, f, a) /\ call[c].new = Opened'[f][a]
          BY <2>2, <3>1 DEF WriteAhead
        <4> QED BY <2>1, <4>1, RecordsStay
      <3>2. ASSUME NEW c \in Calls, call[c].state \in Pending, call[c].addr = f,
                   call[c].action = a, call[c].new = Opened'[f][a]
            PROVE  \E d \in Calls : RecordedFor(d, f, a)' /\ call'[d].new = Opened'[f][a]
        BY <2>1, <3>2, PendingRecorded, RecordsStay
      <3> QED BY <2>1, <3>1, <3>2 DEF Frame
    <2>3. ASSUME NEW f \in Functions, NEW a \in Actions, saved'[f][a] # Start[f][a]
          PROVE  \E c \in Calls : RecordedFor(c, f, a)' /\ call'[c].new = saved'[f][a]
      <3>1. CASE saved' = saved
        <4>1. PICK c \in Calls : RecordedFor(c, f, a) /\ call[c].new = saved'[f][a]
          BY <2>3, <3>1 DEF WriteAhead
        <4> QED BY <2>1, <4>1, RecordsStay
      <3>2. CASE saved' = Opened'
        BY <2>2, <2>3, <3>2
      <3> QED BY <2>1, <3>1, <3>2 DEF Frame
    <2> QED BY <2>2, <2>3 DEF WriteAhead
  <1> QED BY <1>1, <1>2, TypeCorrect, PTL DEF Spec

\* A call's old value is the one after analysis, or a record has that one.
OldKnown ==
    \A c \in Calls, f \in Functions, a \in Actions :
        call[c].addr = f /\ call[c].action = a =>
            \/ call[c].old = Start[f][a]
            \/ \E d \in Calls : RecordedFor(d, f, a) /\ call[d].old = Start[f][a]

\* The journal is an undo log: the value after analysis of every attribute that was
\* changed is in some record.
THEOREM OriginalsRecorded == Spec => []OriginalRecorded
  <1> DEFINE Inv == OriginalRecorded /\ OldKnown
  <1>1. Init => Inv
    BY NilFacts DEF Init, OriginalRecorded, OldKnown, Opened, NotCalled
  <1>2. TypeOK /\ CallsOK /\ TypeOK' /\ Inv /\ [Next]_vars => Inv'
    <2> SUFFICES ASSUME TypeOK, CallsOK, TypeOK', Inv, [Next]_vars PROVE Inv'
      OBVIOUS
    <2>1. Frame
      BY StepFrame
    <2>2. ASSUME NEW f \in Functions, NEW a \in Actions,
                 \E d \in Calls : RecordedFor(d, f, a) /\ call[d].old = Start[f][a]
          PROVE  \E d \in Calls : RecordedFor(d, f, a)' /\ call'[d].old = Start[f][a]
      BY <2>1, <2>2, RecordsStay
    <2>3. OldKnown'
      <3> SUFFICES ASSUME NEW c \in Calls, NEW f \in Functions, NEW a \in Actions,
                          call'[c].addr = f, call'[c].action = a
                   PROVE  \/ call'[c].old = Start[f][a]
                          \/ \E d \in Calls : RecordedFor(d, f, a)' /\ call'[d].old = Start[f][a]
        BY DEF OldKnown
      <3>1. CASE call[c].state = "idle"
        BY <2>1, <2>2, <3>1 DEF Frame, OriginalRecorded
      <3>2. CASE call[c].state # "idle"
        BY <2>1, <2>2, <3>2 DEF Frame, OldKnown
      <3> QED BY <3>1, <3>2
    <2>4. ASSUME NEW f \in Functions, NEW a \in Actions, Opened'[f][a] # Start[f][a]
          PROVE  \E d \in Calls : RecordedFor(d, f, a)' /\ call'[d].old = Start[f][a]
      <3>1. CASE Opened'[f][a] \in {Opened[f][a], saved[f][a]}
        BY <2>2, <2>4, <3>1 DEF OriginalRecorded
      <3>2. ASSUME NEW c \in Calls, call[c].state \in Pending, call[c].addr = f,
                   call[c].action = a
            PROVE  \E d \in Calls : RecordedFor(d, f, a)' /\ call'[d].old = Start[f][a]
        <4>1. RecordedFor(c, f, a)
          BY <3>2, PendingRecorded
        <4> QED BY <2>2, <3>2, <4>1 DEF OldKnown
      <3> QED BY <2>1, <3>1, <3>2 DEF Frame
    <2>5. ASSUME NEW f \in Functions, NEW a \in Actions, saved'[f][a] # Start[f][a]
          PROVE  \E d \in Calls : RecordedFor(d, f, a)' /\ call'[d].old = Start[f][a]
      BY <2>1, <2>2, <2>4, <2>5 DEF Frame, OriginalRecorded
    <2> QED BY <2>3, <2>4, <2>5 DEF OriginalRecorded
  <1> QED BY <1>1, <1>2, TypeCorrect, PTL DEF Spec

\* A call is answered "applied" only after its own commit was saved.
LEMMA NewlyCommitted ==
  ASSUME TypeOK, [Next]_vars, NEW c \in Calls,
         call'[c].state \in {"committed", "applied"},
         call[c].state \notin {"committed", "applied"}
  PROVE  CommitSaves(c)
  <1>1. ASSUME NEW d \in Calls, NEW state \in States \ {"committed", "applied"}, MoveTo(d, state)
        PROVE  FALSE
    BY <1>1, MoveToType
  <1>2. ASSUME NEW d \in Calls, Preview(d) PROVE FALSE
    BY <1>1, <1>2 DEF Preview, TypeOK, States
  <1>3. ASSUME NEW d \in Calls, Decline(d) \/ Confirm(d) \/ Abandon(d) PROVE FALSE
    BY <1>1, <1>3 DEF Decline, Confirm, Abandon, States
  <1>4. ASSUME NEW d \in Calls, CommitUnsaved(d) \/ CommitRaises(d) PROVE FALSE
    BY <1>1, <1>4 DEF CommitUnsaved, CommitRaises, States
  <1>5. ASSUME NEW d \in Calls, Answer(d) PROVE FALSE
    <2>1. CASE call[d].state = "committed" /\ MoveTo(d, "applied")
      BY <2>1, MoveToType DEF States
    <2>2. CASE MoveTo(d, "failed")
      BY <1>1, <2>2 DEF States
    <2> QED BY <1>5, <2>1, <2>2 DEF Answer
  <1>6. ASSUME NEW d \in Calls, CommitSaves(d) PROVE d = c
    BY <1>6, MoveToType DEF CommitSaves, States
  <1>7. CASE Restart
    BY <1>7 DEF Restart, TypeOK, CallType
  <1>8. CASE Evict \/ UNCHANGED vars
    BY <1>8 DEF Evict, vars
  <1> QED BY <1>2, <1>3, <1>4, <1>5, <1>6, <1>7, <1>8 DEF Next, Step

\* What the program in memory has over the project on disk was written by a
\* recorded call.
MemoryAhead ==
    \A f \in Functions, a \in Actions : Opened[f][a] # saved[f][a] =>
        \E c \in Calls : RecordedFor(c, f, a) /\ call[c].new = Opened[f][a]

\* What a caller was told is applied is on disk, or a recorded call wrote over it.
THEOREM AppliedStays == Spec => []AppliedSurvives
  <1> DEFINE Inv == AppliedSurvives /\ MemoryAhead
  <1>1. Init => Inv
    BY DEF Init, AppliedSurvives, MemoryAhead, Opened, NotCalled
  <1>2. TypeOK /\ CallsOK /\ Inv /\ [Next]_vars => Inv'
    <2> SUFFICES ASSUME TypeOK, CallsOK, Inv, [Next]_vars PROVE Inv'
      OBVIOUS
    <2>1. Frame /\ TypeOK' /\ CallsOK'
      BY StepFrame
    <2>2. ASSUME NEW f \in Functions, NEW a \in Actions, NEW v,
                 \E d \in Calls : RecordedFor(d, f, a) /\ call[d].new = v
          PROVE  \E d \in Calls : RecordedFor(d, f, a)' /\ call'[d].new = v
      BY <2>1, <2>2, RecordsStay
    <2>3. ASSUME NEW f \in Functions, NEW a \in Actions
          PROVE  \/ Opened'[f][a] = saved[f][a]
                 \/ \E d \in Calls : RecordedFor(d, f, a)' /\ call'[d].new = Opened'[f][a]
      <3>1. CASE Opened'[f][a] = saved[f][a]
        BY <3>1
      <3>2. CASE Opened'[f][a] = Opened[f][a]
        BY <2>2, <3>2 DEF MemoryAhead
      <3>3. ASSUME NEW c \in Calls, call[c].state \in Pending, call[c].addr = f,
                   call[c].action = a, call[c].new = Opened'[f][a]
            PROVE  \E d \in Calls : RecordedFor(d, f, a)' /\ call'[d].new = Opened'[f][a]
        BY <2>1, <3>3, PendingRecorded, RecordsStay
      <3> QED BY <2>1, <3>1, <3>2, <3>3 DEF Frame
    <2>4. MemoryAhead'
      <3> SUFFICES ASSUME NEW f \in Functions, NEW a \in Actions, Opened'[f][a] # saved'[f][a]
                   PROVE  \E d \in Calls : RecordedFor(d, f, a)' /\ call'[d].new = Opened'[f][a]
        BY DEF MemoryAhead
      <3> QED BY <2>1, <2>3 DEF Frame
    <2>5. ASSUME NEW c \in Calls, NEW f \in Functions, NEW a \in Actions,
                 call'[c].state \in {"committed", "applied"},
                 call'[c].addr = f, call'[c].action = a
          PROVE  \E d \in Calls : RecordedFor(d, f, a)' /\ call'[d].new = saved'[f][a]
      <3>1. CASE call[c].state \in {"committed", "applied"}
        <4>1. call[c].addr = f /\ call[c].action = a
          BY <2>1, <2>5, <3>1 DEF Frame
        <4>2. \E d \in Calls : RecordedFor(d, f, a) /\ call[d].new = saved[f][a]
          BY <3>1, <4>1 DEF AppliedSurvives
        <4>3. \E d \in Calls : RecordedFor(d, f, a)' /\ call'[d].new = saved[f][a]
          BY <2>2, <4>2
        <4> QED BY <2>1, <2>3, <4>3 DEF Frame
      <3>2. CASE call[c].state \notin {"committed", "applied"}
        <4>1. CommitSaves(c)
          BY <2>5, <3>2, NewlyCommitted
        <4>2. PICK g \in Found(call[c].target) :
                 StillThere(call[c], g) /\ mem' = Written(call[c], g)
          BY <4>1 DEF CommitSaves
        <4>3. call[c].state \in Pending /\ saved' = mem'
          BY <4>1 DEF CommitSaves, Saved
        <4>4. call[c].addr = f /\ call[c].action = a /\ call[c].new \in Values /\ g = f
          BY <2>1, <2>5, <4>2, <4>3 DEF Frame, Pending, InFlight, StillThere, CallsOK
        <4>5. saved'[f][a] = call[c].new
          BY <4>2, <4>3, <4>4, WrittenType
        <4>6. RecordedFor(c, f, a)
          BY <4>3, <4>4, PendingRecorded
        <4> QED BY <2>2, <4>5, <4>6
      <3> QED BY <3>1, <3>2
    <2>6. ASSUME NEW c \in Calls, call'[c].state \in {"committed", "applied"}
          PROVE  call'[c].addr \in Functions /\ call'[c].action \in Actions
      BY <2>1, <2>6 DEF CallsOK, InFlight, TypeOK, CallType
    <2> QED BY <2>4, <2>5, <2>6 DEF AppliedSurvives
  <1> QED BY <1>1, <1>2, TypeCorrect, PTL DEF Spec

-----------------------------------------------------------------------------
(***************************************************************************)
(* The files behind the journal.  With one server in the directory the     *)
(* rotated journal implements the abstract log, whatever the limits, the   *)
(* renames that are refused and the points where the server dies.          *)
(***************************************************************************)

\* Type correctness of the files, the server's position and the counters.
THEOREM JournalTypeCorrect == JournalSpec => []JournalTypeOK
  <1>1. JournalInit => JournalTypeOK
    BY JournalAssumption DEF JournalInit, JournalTypeOK, Slots
  <1>2. JournalTypeOK /\ [JournalNext]_journalVars => JournalTypeOK'
    <2> SUFFICES ASSUME JournalTypeOK, [JournalNext]_journalVars PROVE JournalTypeOK'
      OBVIOUS
    <2> USE JournalAssumption DEF JournalTypeOK, Slots
    <2>1. ASSUME NEW s \in Servers, Begin(s) PROVE JournalTypeOK'
      BY <2>1 DEF Begin, FirstShift
    <2>2. ASSUME NEW s \in Servers, Shift(s) PROVE JournalTypeOK'
      <3> DEFINE i == slot[s]
      <3>1. i \in Slots /\ i + 1 \in Slots /\ (i # 0 => i - 1 \in 0..MaxBackups - 1)
        OBVIOUS
      <3>2. files' \in [Slots -> SUBSET (0..MaxRecords)]
        <4>1. CASE files[i] = {}
          BY <2>2, <4>1 DEF Shift
        <4>2. CASE files[i] # {}
          BY <2>2, <3>1, <4>2 DEF Shift, Renamed
        <4> QED BY <4>1, <4>2
      <3>3. pc' \in [Servers -> {"idle", "rotate", "append"}]
            /\ slot' \in [Servers -> 0..MaxBackups - 1]
        BY <2>2, <3>1 DEF Shift
      <3> QED BY <2>2, <3>2, <3>3 DEF Shift
    <2>3. ASSUME NEW s \in Servers, ShiftFails(s) PROVE JournalTypeOK'
      BY <2>3 DEF ShiftFails
    <2>4. ASSUME NEW s \in Servers, AppendRecord(s) PROVE JournalTypeOK'
      BY <2>4 DEF AppendRecord, Appended
    <2>5. ASSUME NEW s \in Servers, Die(s) PROVE JournalTypeOK'
      BY <2>5 DEF Die
    <2>6. CASE UNCHANGED journalVars
      BY <2>6 DEF journalVars
    <2> QED BY <2>1, <2>2, <2>3, <2>4, <2>5, <2>6 DEF JournalNext
  <1> QED BY <1>1, <1>2, PTL DEF JournalSpec

\* Every record in a file has been written.
Numbered == \A i \in Slots : files[i] \subseteq 0..(next - 1)

\* While the server rotates there is something in the journal, and the file that
\* the next rename overwrites is empty, unless it is the oldest backup.
RoomToShift ==
    \A s \in Servers : pc[s] = "rotate" =>
        /\ files[0] # {}
        /\ slot[s] + 1 < MaxBackups => files[slot[s] + 1] = {}

JournalInv == JournalTypeOK /\ Numbered /\ FilesInOrder /\ NoHole /\ RoomToShift

LEMMA InitInv == JournalInit => JournalInv
  BY JournalAssumption
     DEF JournalInit, JournalInv, JournalTypeOK, Slots, Numbered, FilesInOrder, NoHole, Retained, RoomToShift

\* The newest record is in the journal itself when that is not empty.
LEMMA NewestInJournal ==
  ASSUME JournalInv, files[0] # {}
  PROVE  next > 0 /\ next - 1 \in files[0]
  <1> USE JournalAssumption DEF JournalInv, JournalTypeOK, Slots, Numbered
  <1>1. PICK x \in files[0] : x \in Nat /\ x <= next - 1
    OBVIOUS
  <1>2. PICK j \in Slots : next - 1 \in files[j]
    BY <1>1 DEF NoHole, Retained
  <1>3. j = 0
    BY <1>1, <1>2 DEF FilesInOrder
  <1> QED BY <1>1, <1>2, <1>3

\* One rename: what was in the oldest backup may be gone, and nothing else.
LEMMA ShiftStep ==
  ASSUME JournalInv, JournalTypeOK', NEW s \in Servers, Servers = {s}, Shift(s)
  PROVE  /\ JournalInv'
         /\ \E old \in SUBSET Retained :
               /\ old # Retained
               /\ \A x \in old, y \in Retained \ old : x < y
               /\ Retained' = Retained \ old
  <1> USE JournalAssumption
  <1> DEFINE i == slot[s]
             old == files[i + 1]
  <1>1. /\ i \in 0..MaxBackups - 1 /\ i \in Slots /\ i + 1 \in Slots
        /\ files[0] # {}
        /\ i + 1 < MaxBackups => files[i + 1] = {}
    BY DEF JournalInv, JournalTypeOK, Slots, RoomToShift, Shift
  <1>2. CASE files[i] = {}
    <2>1. files' = files /\ next' = next /\ i # 0
      BY <1>1, <1>2 DEF Shift
    <2>2. Numbered' /\ FilesInOrder' /\ NoHole' /\ Retained' = Retained
      BY <2>1 DEF JournalInv, Numbered, FilesInOrder, NoHole, Retained
    <2>3. RoomToShift'
      BY <1>1, <1>2, <2>1 DEF Shift, RoomToShift, JournalInv, JournalTypeOK
    <2>4. next - 1 \in Retained
      BY <1>1, NewestInJournal DEF Retained, Slots
    <2>5. {} \in SUBSET Retained /\ {} # Retained /\ Retained' = Retained \ {}
      BY <2>2, <2>4
    <2>6. JournalInv'
      BY <2>2, <2>3 DEF JournalInv
    <2> QED BY <2>5, <2>6
  <1>3. CASE files[i] # {}
    <2>1. /\ \A j \in Slots : files'[j] = IF j = i + 1 THEN files[i]
                                          ELSE IF j = i THEN {} ELSE files[j]
          /\ next' = next
      BY <1>1, <1>3 DEF Shift, Renamed, JournalInv, JournalTypeOK
    <2>2. next > 0 /\ next - 1 \in files[0] /\ next - 1 \in Retained
      BY <1>1, NewestInJournal DEF Retained, Slots
    <2>3. \A j \in Slots : j # i + 1 => \A x \in old, y \in files[j] : x < y
      <3>1. old # {} => i + 1 = MaxBackups
        BY <1>1
      <3> QED BY <1>1, <3>1 DEF JournalInv, FilesInOrder, Slots
    <2>4. \A x, j, y : j \in Slots /\ x \in old /\ y \in files[j] /\ j # i + 1 => x # y
      BY <1>1, <2>3 DEF JournalInv, JournalTypeOK, Slots
    <2>5. Retained' = Retained \ old
      <3>1. \A j \in Slots : files'[j] \subseteq Retained \ old
        BY <1>1, <2>1, <2>4 DEF Retained
      <3>2. \A j \in Slots : j # i + 1 => \E k \in Slots : files[j] \subseteq files'[k]
        BY <1>1, <2>1
      <3> QED BY <3>1, <3>2 DEF Retained
    <2>6. \A x \in old, y \in Retained \ old : x < y
      BY <2>3 DEF Retained
    <2>7. next - 1 \notin old
      BY <1>1, <2>2, <2>4 DEF Slots
    <2>8. Numbered'
      BY <1>1, <2>1 DEF JournalInv, Numbered
    <2>9. FilesInOrder'
      BY <1>1, <2>1 DEF JournalInv, FilesInOrder, Slots
    <2>10. NoHole'
      <3>1. ASSUME NEW x \in Retained', NEW y \in x..(next - 1) PROVE y \in Retained'
        <4>1. x \in Retained /\ x \notin old /\ x \in Nat
          BY <2>5, <3>1 DEF JournalInv, Retained, JournalTypeOK
        <4>2. y \in Retained
          BY <3>1, <4>1 DEF JournalInv, NoHole
        <4>3. y \notin old
          BY <2>6, <3>1, <4>1, <1>1 DEF JournalInv, JournalTypeOK
        <4> QED BY <2>5, <4>2, <4>3
      <3> QED BY <2>1, <2>2, <2>5, <2>7, <3>1 DEF NoHole
    <2>11. RoomToShift'
      <3>1. CASE i = 0
        BY <3>1 DEF Shift, RoomToShift, JournalInv, JournalTypeOK
      <3>2. CASE i # 0
        <4>1. slot'[s] = i - 1
          BY <3>2 DEF Shift, JournalInv, JournalTypeOK
        <4>2. i \in Nat /\ files'[i] = {} /\ files'[0] = files[0]
          BY <1>1, <2>1, <3>2 DEF Slots
        <4> QED BY <1>1, <4>1, <4>2 DEF RoomToShift
      <3> QED BY <3>1, <3>2
    <2>12. old \in SUBSET Retained /\ old # Retained
      BY <1>1, <2>2, <2>7 DEF Retained
    <2> QED BY <2>5, <2>6, <2>8, <2>9, <2>10, <2>11, <2>12 DEF JournalInv
  <1> QED BY <1>2, <1>3

\* The append: the new record is the newest and goes to the journal itself.
LEMMA AppendStep ==
  ASSUME JournalInv, JournalTypeOK', NEW s \in Servers, Servers = {s}, AppendRecord(s)
  PROVE  /\ JournalInv'
         /\ \/ UNCHANGED <<Retained, next>>
            \/ Retained' = Retained \union {next} /\ next' = next + 1
  <1> USE JournalAssumption
  <1>1. CASE UNCHANGED <<files, next>>
    <2>1. UNCHANGED <<Retained, next>>
      BY <1>1 DEF Retained
    <2> QED BY <1>1, <2>1 DEF AppendRecord, JournalInv, JournalTypeOK, Numbered, FilesInOrder,
                          NoHole, RoomToShift
  <1>2. CASE files' = [files EXCEPT ![0] = @ \union {next}] /\ next' = next + 1
    <2>1. \A j \in Slots : files'[j] = IF j = 0 THEN files[0] \union {next} ELSE files[j]
      BY <1>2 DEF JournalInv, JournalTypeOK, Slots
    <2>2. 0 \in Slots /\ next \in Nat
      BY DEF JournalInv, JournalTypeOK, Slots
    <2>3. Retained' = Retained \union {next}
      BY <2>1, <2>2 DEF Retained
    <2>4. Numbered'
      BY <1>2, <2>1, <2>2 DEF JournalInv, Numbered, JournalTypeOK
    <2>5. FilesInOrder'
      BY <2>1, <2>2 DEF JournalInv, FilesInOrder, Numbered, Slots
    <2>6. NoHole'
      <3>1. \A x \in Retained : x \in 0..(next - 1)
        BY DEF JournalInv, Retained, Numbered
      <3> QED BY <1>2, <2>2, <2>3, <3>1 DEF JournalInv, NoHole
    <2>7. RoomToShift'
      BY <1>2 DEF AppendRecord, RoomToShift, JournalInv, JournalTypeOK
    <2> QED BY <1>2, <2>3, <2>4, <2>5, <2>6, <2>7 DEF JournalInv
  <1> QED BY <1>1, <1>2 DEF AppendRecord, Appended

\* The other steps move the server and leave the files.
LEMMA QuietStep ==
  ASSUME JournalInv, JournalTypeOK', NEW s \in Servers, Servers = {s},
         Begin(s) \/ ShiftFails(s) \/ Die(s) \/ UNCHANGED journalVars
  PROVE  JournalInv' /\ UNCHANGED <<Retained, next>>
  <1> USE JournalAssumption
  <1>1. UNCHANGED <<files, next>>
    BY DEF Begin, ShiftFails, Die, journalVars
  <1>2. UNCHANGED <<Retained, next>> /\ Numbered' /\ FilesInOrder' /\ NoHole'
    BY <1>1 DEF Retained, JournalInv, Numbered, FilesInOrder, NoHole
  <1>3. CASE Begin(s)
    <2>1. Full(files[0]) => files[0] # {}
      <3>1. Cardinality({}) = 0
        BY FS_EmptySet
      <3> QED BY <3>1 DEF Full
    <2>2. RoomToShift'
      BY <1>1, <1>3, <2>1 DEF Begin, RoomToShift, FirstShift, JournalInv, JournalTypeOK
    <2> QED BY <1>2, <2>2 DEF JournalInv
  <1>4. CASE ShiftFails(s) \/ Die(s) \/ UNCHANGED journalVars
    <2>1. RoomToShift'
      BY <1>1, <1>4 DEF ShiftFails, Die, journalVars, RoomToShift, JournalInv, JournalTypeOK
    <2> QED BY <1>2, <2>1 DEF JournalInv
  <1> QED BY <1>3, <1>4

\* The inductive invariant of a journal that one server writes.
THEOREM JournalInvariant ==
  ASSUME NEW s \in Servers, Servers = {s} PROVE JournalSpec => []JournalInv
  <1>1. JournalInv /\ JournalTypeOK' /\ [JournalNext]_journalVars => JournalInv'
    BY ShiftStep, AppendStep, QuietStep DEF JournalNext
  <1> QED BY <1>1, InitInv, JournalTypeCorrect, PTL DEF JournalSpec

\* The journal of one server never has a hole.
THEOREM JournalWhole ==
  ASSUME NEW s \in Servers, Servers = {s} PROVE JournalSpec => []NoHole
  BY JournalInvariant, PTL DEF JournalInv

\* And its files stay in order.
THEOREM JournalInOrder ==
  ASSUME NEW s \in Servers, Servers = {s} PROVE JournalSpec => []FilesInOrder
  BY JournalInvariant, PTL DEF JournalInv

\* The files of one server implement the abstract log.
THEOREM JournalImplementsLog ==
  ASSUME NEW s \in Servers, Servers = {s} PROVE JournalSpec => LogSpec
  <1>1. JournalInit => Log!Init
    BY DEF JournalInit, Log!Init, Retained, Slots
  <1>2. JournalInv /\ JournalTypeOK' /\ [JournalNext]_journalVars => [Log!Next]_<<Retained, next>>
    <2> SUFFICES ASSUME JournalInv, JournalTypeOK', [JournalNext]_journalVars PROVE [Log!Next]_<<Retained, next>>
      OBVIOUS
    <2>1. CASE Shift(s)
      <3>1. next' = next
        BY <2>1 DEF Shift
      <3> QED BY <2>1, <3>1, ShiftStep DEF Log!Next, Log!Trim
    <2>2. CASE AppendRecord(s)
      BY <2>2, AppendStep DEF Log!Next, Log!Write
    <2>3. CASE Begin(s) \/ ShiftFails(s) \/ Die(s) \/ UNCHANGED journalVars
      BY <2>3, QuietStep
    <2> QED BY <2>1, <2>2, <2>3 DEF JournalNext
  <1> QED BY <1>1, <1>2, JournalInvariant, JournalTypeCorrect, PTL DEF JournalSpec, LogSpec, Log!Spec
\* The lines of a file can be counted.
LEMMA FilesFinite ==
  ASSUME JournalTypeOK, NEW i \in Slots
  PROVE  IsFiniteSet(files[i]) /\ Cardinality(files[i]) \in Nat
  <1>1. IsFiniteSet(0..MaxRecords)
    BY JournalAssumption, FS_Interval
  <1>2. files[i] \subseteq 0..MaxRecords
    BY DEF JournalTypeOK
  <1> QED BY <1>1, <1>2, FS_Subset, FS_CardinalityType

\* Until a rename is refused, the server that is about to append has room for it.
RoomToAppend ==
    faults = 0 => \A s \in Servers : pc[s] = "append" => Cardinality(files[0]) < FileCap

SizesInv == BoundedDisk /\ RoomToAppend

\* At first there is nothing to count.
LEMMA SizesInit == JournalInit => SizesInv
  BY JournalAssumption, FS_EmptySet DEF JournalInit, SizesInv, BoundedDisk, RoomToAppend

\* A rename moves a size along, and leaves an empty file behind.
LEMMA ShiftSizes ==
  ASSUME JournalTypeOK, SizesInv, NEW s \in Servers, Servers = {s}, Shift(s)
  PROVE  SizesInv'
  <1> DEFINE i == slot[s]
  <1>1. i \in Slots /\ i + 1 \in Slots /\ 0 \in Slots /\ Cardinality({}) = 0
    BY JournalAssumption, FS_EmptySet DEF JournalTypeOK, Slots
  <1>2. ASSUME NEW j \in Slots PROVE files'[j] = {} \/ \E k \in Slots : files'[j] = files[k]
    BY <1>1, <1>2 DEF Shift, Renamed, JournalTypeOK
  <1>3. BoundedDisk'
    <2> SUFFICES ASSUME faults = 0, NEW j \in Slots PROVE Cardinality(files'[j]) <= FileCap
      BY DEF BoundedDisk, Shift, Slots
    <2>1. CASE files'[j] = {}
      BY <1>1, <2>1, JournalAssumption
    <2>2. CASE \E k \in Slots : files'[j] = files[k]
      BY <2>2 DEF SizesInv, BoundedDisk
    <2> QED BY <1>2, <2>1, <2>2
  <1>4. ASSUME i = 0 PROVE files'[0] = {}
    BY <1>1, <1>4, JournalAssumption DEF Shift, Renamed, JournalTypeOK, Slots
  <1>5. i # 0 => pc'[s] # "append"
    BY DEF Shift
  <1>6. ASSUME i = 0 PROVE Cardinality(files'[0]) < FileCap
    <2>1. files'[0] = {}
      BY <1>4, <1>6
    <2> QED BY <1>1, <2>1, JournalAssumption
  <1>7. RoomToAppend'
    BY <1>5, <1>6 DEF RoomToAppend
  <1> QED BY <1>3, <1>7 DEF SizesInv

\* An append adds one line to a file that has room for it.
LEMMA AppendSizes ==
  ASSUME JournalTypeOK, SizesInv, NEW s \in Servers, Servers = {s}, AppendRecord(s)
  PROVE  SizesInv'
  <1>1. RoomToAppend'
    BY DEF AppendRecord, RoomToAppend, JournalTypeOK
  <1>2. BoundedDisk'
    <2> SUFFICES ASSUME faults = 0, NEW j \in Slots PROVE Cardinality(files'[j]) <= FileCap
      BY DEF BoundedDisk, AppendRecord, Slots
    <2>1. CASE files'[j] = files[j]
      BY <2>1 DEF SizesInv, BoundedDisk
    <2>2. CASE files'[j] # files[j]
      <3>1. j = 0 /\ files'[0] = files[0] \union {next} /\ pc[s] = "append" /\ 0 \in Slots
        BY <2>2, JournalAssumption DEF AppendRecord, Appended, JournalTypeOK, Slots
      <3>2. Cardinality(files[0]) < FileCap
        BY <3>1 DEF SizesInv, RoomToAppend
      <3>3. IsFiniteSet(files[0]) /\ Cardinality(files[0]) \in Nat
        BY <3>1, FilesFinite
      <3>4. Cardinality(files'[0]) \in {Cardinality(files[0]), Cardinality(files[0]) + 1}
        <4>1. \/ Cardinality(files[0] \union {next}) = Cardinality(files[0])
              \/ Cardinality(files[0] \union {next}) = Cardinality(files[0]) + 1
          BY <3>3, FS_AddElement
        <4> QED BY <3>1, <4>1
      <3> QED BY <3>1, <3>2, <3>3, <3>4, JournalAssumption
    <2> QED BY <2>1, <2>2
  <1> QED BY <1>1, <1>2 DEF SizesInv

\* The other steps write no file; only one that finds room goes on to append.
LEMMA QuietSizes ==
  ASSUME JournalTypeOK, SizesInv, NEW s \in Servers, Servers = {s},
         Begin(s) \/ ShiftFails(s) \/ Die(s) \/ UNCHANGED journalVars
  PROVE  SizesInv'
  <1> USE DEF SizesInv, BoundedDisk, RoomToAppend
  <1>1. CASE Begin(s)
    <2>1. 0 \in Slots /\ Cardinality(files[0]) \in Nat
      BY FilesFinite, JournalAssumption DEF Slots
    <2>2. pc'[s] = "append" => Cardinality(files[0]) < FileCap
      BY <1>1, <2>1, JournalAssumption DEF Begin, Full, JournalTypeOK
    <2> QED BY <1>1, <2>2 DEF Begin, Slots
  <1>2. CASE ShiftFails(s)
    <2>1. faults' # 0
      BY <1>2 DEF ShiftFails, JournalTypeOK
    <2> QED BY <2>1
  <1>3. CASE Die(s)
    BY <1>3 DEF Die, JournalTypeOK, Slots
  <1>4. CASE UNCHANGED journalVars
    BY <1>4 DEF journalVars, Slots
  <1> QED BY <1>1, <1>2, <1>3, <1>4

\* Unless a rename is refused, no file of one server outgrows the limit.
THEOREM DiskBounded ==
  ASSUME NEW s \in Servers, Servers = {s} PROVE JournalSpec => []BoundedDisk
  <1>1. JournalTypeOK /\ SizesInv /\ [JournalNext]_journalVars => SizesInv'
    BY ShiftSizes, AppendSizes, QuietSizes DEF JournalNext
  <1>2. SizesInv => BoundedDisk
    BY DEF SizesInv
  <1> QED BY <1>1, <1>2, SizesInit, JournalTypeCorrect, PTL DEF JournalSpec

=============================================================================
