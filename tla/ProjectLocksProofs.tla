------------------------- MODULE ProjectLocksProofs -------------------------
(***************************************************************************)
(* One writer, for any number of processes.                                *)
(***************************************************************************)
EXTENDS ProjectLocks, FiniteSetTheorems, TLAPS

\* What may be at, and the steps that remove.
Where == {New, Idle, Dead} \union (Operations \X Steps)
Closing == {"release", "unlock"}
Deleting == {"delete"} \X Closing
Removing == Operations \X {"hold", "rmtree"}

\* Only these operations close; a delete that closes has a write handle.
Removals ==
    \A p \in Procs :
        /\ at[p] \in Operations \X Closing => at[p] \in {"close", "delete", "purge"} \X Closing
        /\ at[p] \in Deleting => project[p] = "write"
        /\ p \notin since[p]

\* Until a removal or a probe is excused: who has the project open is alone and holds
\* the lock on the inode that the directory has, and who is about to unlink or remove
\* has looked before that.
OwnersLock == \A p \in jvm : held[p] # 0 /\ held[p] = hold_file /\ dir
Alone == \A p, q \in jvm : p = q
LookedBefore == \A p \in Procs : at[p] \in Removing => jvm \subseteq since[p]

LockedOut == ~excused => OwnersLock /\ Alone /\ LookedBefore

Good == TypeOK /\ Removals /\ LockedOut

\* There are more inodes than processes.
LEMMA Fresh ==
    ASSUME TypeOK, hold_file = 0
    PROVE  FreshInode \in Inodes \ {0} /\ \A q \in Procs : held[q] # FreshInode
<1> DEFINE T == {held[p] : p \in Procs}
           N == Cardinality(Procs)
<1>1. N \in Nat
  BY LocksAssumption, FS_CardinalityType
<1>2. IsFiniteSet(T) /\ Cardinality(T) <= N
  <2>1. held \in Surjection(Procs, T)
    BY DEF Surjection, TypeOK
  <2> QED BY <2>1, LocksAssumption, FS_Surjection
<1>3. Cardinality(1..(N + 1)) = N + 1
  BY <1>1, FS_Interval
<1>4. ~(1..(N + 1) \subseteq T)
  <2> SUFFICES ASSUME 1..(N + 1) \subseteq T PROVE FALSE
    OBVIOUS
  <2>1. Cardinality(1..(N + 1)) <= Cardinality(T)
    BY <1>2, FS_Subset
  <2>2. Cardinality(T) \in Nat
    BY <1>2, FS_CardinalityType
  <2> QED BY <1>1, <1>2, <1>3, <2>1, <2>2
<1>5. PICK i \in 1..(N + 1) : i \notin T
  BY <1>4
<1>6. i \in Inodes \ {0} /\ i # hold_file /\ \A q \in Procs : held[q] # i
  BY <1>1, <1>5 DEF Inodes
<1> QED BY <1>6 DEF FreshInode

\* Where p goes.
Moves(p, x) == at' = [at EXCEPT ![p] = x]

\* The operation of a step.
LEMMA AtOperation ==
    ASSUME NEW p \in Procs, NEW step, AtStep(p, step)
    PROVE  \E op \in Operations : at[p] = <<op, step>> /\ at[p][1] = op
BY DEF AtStep

\* An operation that is done leaves its process idle or at the sweep.
LEMMA DoneMoves ==
    ASSUME NEW p \in Procs, Done(p), at \in [Procs -> Where]
    PROVE  \E x \in {Idle, <<"sweep", "probe">>} : Moves(p, x)
BY DEF Done, Moves

\* A failed attempt goes on to the next probe, or is done.
LEMMA FailMoves ==
    ASSUME NEW p \in Procs, OpenFails(p), at \in [Procs -> Where],
           NEW op \in Operations, at[p][1] = op
    PROVE  \E x \in {Idle} \union (Operations \X {"probe"}) : Moves(p, x)
<1>1. CASE op = "load"
  <2>1. Moves(p, <<"reload", "probe">>)
    BY <1>1 DEF OpenFails, Become, Moves
  <2> QED BY <2>1 DEF Operations
<1>2. CASE op \in {"open", "eager"}
  <2>1. Moves(p, <<op, "probe">>)
    BY <1>2 DEF OpenFails, Goto, Moves
  <2> QED BY <2>1
<1>3. CASE op \notin {"load", "open", "eager"}
  <2>1. Done(p)
    BY <1>3 DEF OpenFails
  <2> QED BY <2>1, DoneMoves DEF Operations
<1> QED BY <1>1, <1>2, <1>3

\* A second attempt starts with .lock.
LEMMA RetryMoves ==
    ASSUME NEW p \in Procs, Retry(p)
    PROVE  \E x \in Operations \X {"file"} : Moves(p, x)
<1>1. PICK op \in {"again", "retry"} : Become(p, op, "file")
  BY DEF Retry
<1>2. Moves(p, <<op, "file">>)
  BY <1>1 DEF Become, Moves
<1> QED BY <1>2 DEF Operations

\* A move to x.
LEMMA MoveKeepsTypes ==
    ASSUME at \in [Procs -> Where], NEW p \in Procs, NEW x \in Where, Moves(p, x)
    PROVE  at' \in [Procs -> Where]
BY DEF Moves

-----------------------------------------------------------------------------
\* Steps that touch neither the channel lock nor what is known of it.
Quiet == UNCHANGED <<hold_file, held, jvm, since, excused>> /\ (dir => dir') /\ dir' \in BOOLEAN

\* The handles of p, and of no other process, change within their types.
Handles(p) ==
    /\ project' \in [Procs -> {"closed", "view", "write"}]
    /\ \A q \in Procs \ {p} : project'[q] = project[q]
    /\ project'[p] = "write" => project[p] = "write"
    /\ loaded' \subseteq {q \in Procs : project'[q] # "closed"}
    /\ lock_file' \in {"none", "channel", "plain"}

\* Where p may go, by what it is to close.
MayGo(p, x) ==
    /\ x \in Operations \X Closing => x \in {"close", "delete", "purge"} \X Closing
    /\ x \in Deleting => project'[p] = "write"

\* A quiet step to a step that removes nothing keeps the invariant.
LEMMA QuietKeeps ==
    ASSUME Good, NEW p \in Procs, NEW x \in Where \ Removing, Moves(p, x), MayGo(p, x),
           Quiet, Handles(p)
    PROVE  Good'
<1> USE DEF Good
<1>1. at' \in [Procs -> Where]
  BY MoveKeepsTypes DEF TypeOK, Where
<1>2. at'[p] = x /\ \A q \in Procs \ {p} : at'[q] = at[q]
  BY DEF Moves, TypeOK
<1>3. TypeOK'
  BY <1>1 DEF TypeOK, Where, Quiet, Handles, Inodes
<1>4. Removals'
  <2>1. \A q \in Procs : q \notin since'[q]
    BY DEF Removals, Quiet
  <2>2. ASSUME NEW q \in Procs
        PROVE  /\ at'[q] \in Operations \X Closing => at'[q] \in {"close", "delete", "purge"} \X Closing
               /\ at'[q] \in Deleting => project'[q] = "write"
    <3>1. CASE q = p
      BY <1>2, <3>1 DEF MayGo
    <3>2. CASE q # p
      BY <1>2, <3>2 DEF Removals, Handles
    <3> QED BY <3>1, <3>2
  <2> QED BY <2>1, <2>2 DEF Removals
<1>5. LockedOut'
  <2> SUFFICES ASSUME ~excused PROVE (OwnersLock /\ Alone /\ LookedBefore)'
    BY DEF LockedOut, Quiet
  <2>1. OwnersLock /\ Alone /\ LookedBefore
    BY DEF LockedOut
  <2>2. OwnersLock' /\ Alone'
    BY <2>1 DEF OwnersLock, Alone, Quiet
  <2>3. LookedBefore'
    BY <1>2, <2>1 DEF LookedBefore, Quiet
  <2> QED BY <2>2, <2>3
<1> QED BY <1>3, <1>4, <1>5

\* Viewing the project keeps the handles in their types.
LEMMA ViewHandles ==
    ASSUME TypeOK, NEW p \in Procs, View(p), lock_file' = lock_file
    PROVE  Handles(p)
BY DEF View, Handles, TypeOK

\* Steps without a handle.
LEMMA SameHandles ==
    ASSUME TypeOK, NEW p \in Procs, UNCHANGED <<project, loaded>>,
           lock_file' \in {"none", "channel", "plain"}
    PROVE  Handles(p)
BY DEF Handles, TypeOK

\* Where nothing is closed or removed.
Calm == {Idle} \union (Operations \X {"probe", "clear", "lock", "file", "channel"})

LEMMA CalmIsNeither ==
    \A x \in Calm : x \in Where /\ x \notin Operations \X Closing /\ x \notin Removing
<1>1. Idle \in Where /\ Idle \notin Operations \X Closing /\ Idle \notin Removing
  BY DEF Where, Removing, Closing, Idle, Operations
<1>2. ASSUME NEW x \in Operations \X {"probe", "clear", "lock", "file", "channel"}
      PROVE  x \in Where /\ x \notin Operations \X Closing /\ x \notin Removing
  BY DEF Where, Removing, Closing, Steps
<1> QED BY <1>1, <1>2 DEF Calm

LEMMA CalmKeeps ==
    ASSUME Good, NEW p \in Procs, NEW x \in Calm, Moves(p, x), Quiet, Handles(p)
    PROVE  Good'
<1>1. MayGo(p, x)
  BY CalmIsNeither DEF MayGo, Deleting, Operations
<1> QED BY <1>1, CalmIsNeither, QuietKeeps

\* Operations begin quietly.
LEMMA BeginKeeps ==
    ASSUME Good, NEW p \in Procs,
           Boot(p) \/ BeginOpen(p) \/ OpenView(p) \/ BeginClose(p) \/ BeginDrop(p)
    PROVE  Good'
<1>0. TypeOK
  BY DEF Good
<1>1. CASE Boot(p)
  <2>1. Quiet /\ Handles(p)
    BY <1>0, <1>1, SameHandles DEF Boot, Quiet, TypeOK
  <2>2. \/ Moves(p, Idle) \/ Moves(p, <<"eager", "file">>) \/ Moves(p, <<"sweep", "probe">>)
    BY <1>1 DEF Boot, Become, Moves
  <2>3. Idle \in Calm /\ <<"eager", "file">> \in Calm /\ <<"sweep", "probe">> \in Calm
    BY DEF Calm, Operations
  <2> QED BY <2>1, <2>2, <2>3, CalmKeeps
<1>2. CASE BeginOpen(p)
  <2>1. Quiet /\ Handles(p)
    BY <1>0, <1>2, SameHandles DEF BeginOpen, Quiet, TypeOK
  <2>2. Moves(p, <<"open", "file">>) \/ Moves(p, <<"load", "probe">>)
    BY <1>2 DEF BeginOpen, Become, Moves
  <2>3. <<"open", "file">> \in Calm /\ <<"load", "probe">> \in Calm
    BY DEF Calm, Operations
  <2> QED BY <2>1, <2>2, <2>3, CalmKeeps
<1>3. CASE OpenView(p)
  <2>1. Quiet /\ Handles(p)
    BY <1>0, <1>3, ViewHandles DEF OpenView, Quiet, TypeOK
  <2>2. Moves(p, Idle)
    BY <1>0, <1>3 DEF OpenView, Moves, TypeOK
  <2> QED BY <2>1, <2>2, CalmKeeps DEF Calm
<1>4. CASE BeginClose(p)
  <2>1. Quiet /\ Handles(p)
    BY <1>0, <1>4, SameHandles DEF BeginClose, Quiet, TypeOK
  <2>2. PICK op \in {"close", "delete", "purge"} :
          Become(p, op, IF op = "delete" /\ project[p] = "view" THEN "probe" ELSE "release")
    BY <1>4 DEF BeginClose
  <2>3. CASE op = "delete" /\ project[p] = "view"
    <3>1. Moves(p, <<op, "probe">>)
      BY <2>2, <2>3 DEF Become, Moves
    <3>2. <<op, "probe">> \in Calm
      BY DEF Calm, Operations
    <3> QED BY <2>1, <3>1, <3>2, CalmKeeps
  <2>4. CASE ~(op = "delete" /\ project[p] = "view")
    <3>1. Moves(p, <<op, "release">>)
      BY <2>2, <2>4 DEF Become, Moves
    <3>2. <<op, "release">> \in Where \ Removing
      BY DEF Where, Removing, Operations, Steps
    <3>3. MayGo(p, <<op, "release">>)
      BY <1>0, <1>4, <2>4 DEF BeginClose, MayGo, Deleting, Closing, TypeOK
    <3> QED BY <2>1, <3>1, <3>2, <3>3, QuietKeeps
  <2> QED BY <2>3, <2>4
<1>5. CASE BeginDrop(p)
  <2>1. Quiet /\ Handles(p)
    BY <1>0, <1>5, SameHandles DEF BeginDrop, Quiet, TypeOK
  <2>2. Moves(p, <<"drop", "probe">>)
    BY <1>5 DEF BeginDrop, Become, Moves
  <2>3. <<"drop", "probe">> \in Calm
    BY DEF Calm, Operations
  <2> QED BY <2>1, <2>2, <2>3, CalmKeeps
<1> QED BY <1>1, <1>2, <1>3, <1>4, <1>5

\* A step of Ghidra's that fails is quiet.
LEMMA FailKeeps ==
    ASSUME Good, NEW p \in Procs, OpenFails(p), NEW step, AtStep(p, step)
    PROVE  Good'
<1>0. TypeOK
  BY DEF Good
<1>1. PICK op \in Operations : at[p][1] = op
  BY AtOperation
<1>2. at \in [Procs -> Where]
  BY <1>0 DEF TypeOK, Where
<1>3. PICK x \in {Idle} \union (Operations \X {"probe"}) : Moves(p, x)
  BY <1>1, <1>2, FailMoves
<1>4. x \in Calm
  BY DEF Calm
<1>5. Quiet /\ Handles(p)
  BY <1>0, SameHandles DEF OpenFails, Quiet, TypeOK
<1> QED BY <1>3, <1>4, <1>5, CalmKeeps

\* So are the writing and the removal of .lock.
LEMMA LockFileKeeps ==
    ASSUME Good, NEW p \in Procs, UnlinkLock(p) \/ WriteLockFile(p) \/ RemoveLockFile(p)
    PROVE  Good'
<1>0. TypeOK
  BY DEF Good
<1>00. at \in [Procs -> Where]
  BY <1>0 DEF TypeOK, Where
<1>1. CASE UnlinkLock(p)
  <2>1. Quiet /\ Handles(p)
    BY <1>0, <1>1, SameHandles DEF UnlinkLock, Quiet, TypeOK
  <2>2. Done(p) \/ Retry(p)
    BY <1>1 DEF UnlinkLock
  <2>3. PICK x \in {Idle, <<"sweep", "probe">>} \union (Operations \X {"file"}) : Moves(p, x)
    BY <1>00, <2>2, DoneMoves, RetryMoves
  <2>4. x \in Calm
    BY DEF Calm, Operations
  <2> QED BY <2>1, <2>3, <2>4, CalmKeeps
<1>2. CASE WriteLockFile(p)
  <2>1. CASE OpenFails(p)
    BY <1>2, <2>1, FailKeeps DEF WriteLockFile
  <2>2. CASE ~OpenFails(p)
    <3>1. /\ lock_file' = "channel" /\ dir' = TRUE /\ Goto(p, "channel")
          /\ UNCHANGED <<hold_file, held, project, jvm, loaded, since, excused>>
      BY <1>2, <2>2 DEF WriteLockFile
    <3>2. Quiet /\ Handles(p)
      BY <1>0, <3>1, SameHandles DEF Quiet
    <3>3. PICK op \in Operations : at[p][1] = op
      BY <1>2, AtOperation DEF WriteLockFile
    <3>4. Moves(p, <<op, "channel">>)
      BY <3>1, <3>3 DEF Goto, Moves
    <3>5. <<op, "channel">> \in Calm
      BY DEF Calm
    <3> QED BY <3>2, <3>4, <3>5, CalmKeeps
  <2> QED BY <2>1, <2>2
<1>3. CASE RemoveLockFile(p)
  <2>1. Quiet /\ Handles(p)
    BY <1>0, <1>3, SameHandles DEF RemoveLockFile, Quiet, TypeOK
  <2>2. PICK op \in Operations : at[p] = <<op, "release">> /\ at[p][1] = op
    BY <1>3, AtOperation DEF RemoveLockFile
  <2>3. Moves(p, <<op, "unlock">>)
    BY <1>3, <2>2 DEF RemoveLockFile, Goto, Moves
  <2>4. <<op, "unlock">> \in Where \ Removing
    BY DEF Where, Removing, Steps
  <2>5. op \in {"close", "delete", "purge"} /\ (op = "delete" => project[p] = "write")
    BY <2>2 DEF Good, Removals, Closing, Deleting
  <2>6. MayGo(p, <<op, "unlock">>)
    BY <1>3, <2>5 DEF RemoveLockFile, MayGo, Closing, Deleting
  <2> QED BY <2>1, <2>3, <2>4, <2>6, QuietKeeps
<1> QED BY <1>1, <1>2, <1>3

-----------------------------------------------------------------------------
\* Unless it is excused, a probe leaves the lock where it is, and when it finds no
\* lock, nobody has the project open.
LEMMA LooksIdle ==
    ASSUME Good, NEW p \in Procs, LooksAt(p), ~excused'
    PROVE  ~excused /\ held' = held /\ p \notin jvm /\ (~LockHeld(p) => jvm = {})
<1> USE DEF Good, TypeOK
<1>1. ~excused /\ (held[p] = 0 \/ held[p] # hold_file)
  BY DEF LooksAt
<1>2. OwnersLock /\ Alone
  BY <1>1 DEF LockedOut
<1>3. p \notin jvm
  BY <1>1, <1>2 DEF OwnersLock
<1>4. held' = held
  BY <1>1 DEF LooksAt
<1>5. ASSUME ~LockHeld(p), NEW q \in jvm PROVE FALSE
  BY <1>2, <1>3, <1>5 DEF LockHeld, ChannelHeld, Holders, OwnersLock
<1> QED BY <1>1, <1>3, <1>4, <1>5

\* A probe may lead to a removal only when it finds no lock.
LEMMA LookKeeps ==
    ASSUME Good, NEW p \in Procs, NEW x \in Where, Moves(p, x), LooksAt(p), Handles(p),
           UNCHANGED <<dir, hold_file, jvm>>,
           x \notin Operations \X Closing, x \in Removing => ~LockHeld(p)
    PROVE  Good'
<1> USE DEF Good
<1>1. at' \in [Procs -> Where]
  BY MoveKeepsTypes DEF TypeOK, Where
<1>2. at'[p] = x /\ \A q \in Procs \ {p} : at'[q] = at[q]
  BY DEF Moves, TypeOK
<1>3. since' = [since EXCEPT ![p] = {}]
  BY DEF LooksAt
<1>4. TypeOK'
  <2>1. held' \in [Procs -> Inodes] /\ (\A q \in Procs : held'[q] # 0 => held[q] # 0)
    <3>1. 0 \in Inodes
      BY LocksAssumption, FS_CardinalityType DEF Inodes
    <3>2. held \in [Procs -> Inodes]
      BY DEF TypeOK
    <3>3. held' = held \/ held' = [held EXCEPT ![p] = 0]
      BY DEF LooksAt
    <3> QED BY <3>1, <3>2, <3>3
  <2>2. excused' \in BOOLEAN
    BY DEF LooksAt, TypeOK
  <2> QED BY <1>1, <1>3, <2>1, <2>2 DEF TypeOK, Where, Handles
<1>5. Removals'
  <2>1. \A q \in Procs : q \notin since'[q]
    BY <1>3 DEF Removals, TypeOK
  <2>2. ASSUME NEW q \in Procs
        PROVE  /\ at'[q] \in Operations \X Closing => at'[q] \in {"close", "delete", "purge"} \X Closing
               /\ at'[q] \in Deleting => project'[q] = "write"
    <3>1. CASE q = p
      BY <1>2, <3>1 DEF Deleting, Operations
    <3>2. CASE q # p
      BY <1>2, <3>2 DEF Removals, Handles
    <3> QED BY <3>1, <3>2
  <2> QED BY <2>1, <2>2 DEF Removals
<1>6. LockedOut'
  <2> SUFFICES ASSUME ~excused' PROVE (OwnersLock /\ Alone /\ LookedBefore)'
    BY DEF LockedOut
  <2>1. ~excused /\ held' = held /\ (~LockHeld(p) => jvm = {})
    BY LooksIdle
  <2>2. OwnersLock /\ Alone /\ LookedBefore
    BY <2>1 DEF LockedOut
  <2>3. OwnersLock' /\ Alone'
    BY <2>1, <2>2 DEF OwnersLock, Alone
  <2>4. LookedBefore'
    BY <1>2, <1>3, <2>1, <2>2 DEF LookedBefore, TypeOK
  <2> QED BY <2>3, <2>4
<1> QED BY <1>4, <1>5, <1>6

\* The two probes.
LEMMA ProbeKeeps ==
    ASSUME Good, NEW p \in Procs, Probe(p)
    PROVE  Good'
<1>0. TypeOK /\ at \in [Procs -> Where] /\ lock_file' = lock_file
  BY DEF Good, TypeOK, Where, Probe
<1>1. PICK op \in Operations : at[p][1] = op
  BY AtOperation DEF Probe
<1>2. LooksAt(p) /\ UNCHANGED <<dir, hold_file, jvm>>
  BY DEF Probe
<1>3. CASE LockHeld(p)
  <2>1. Refused(p)
    BY <1>3 DEF Probe
  <2>2. Done(p) /\ (View(p) \/ UNCHANGED <<project, loaded>>)
    BY <2>1 DEF Refused
  <2>3. Handles(p)
    BY <1>0, <2>2, ViewHandles, SameHandles DEF TypeOK
  <2>4. PICK x \in {Idle, <<"sweep", "probe">>} : Moves(p, x)
    BY <1>0, <2>2, DoneMoves
  <2>5. x \in Calm
    BY DEF Calm, Operations
  <2>6. x \in Where /\ x \notin Operations \X Closing /\ x \notin Removing
    BY <2>5, CalmIsNeither
  <2> QED BY <1>2, <2>3, <2>4, <2>6, LookKeeps
<1>4. CASE ~LockHeld(p)
  <2>1. Admitted(p)
    BY <1>4 DEF Probe
  <2>2. Handles(p)
    BY <1>0, <2>1, SameHandles DEF Admitted, TypeOK
  <2>3. PICK x \in {Idle, <<"sweep", "probe">>} \union (Operations \X {"clear", "file", "rmtree"}) :
          Moves(p, x)
    <3>1. CASE op = "reload"
      BY <1>0, <1>1, <2>1, <3>1, DoneMoves DEF Admitted
    <3>2. CASE op # "reload"
      <4>1. PICK step \in {"clear", "file", "rmtree"} : Goto(p, step)
        BY <1>1, <2>1, <3>2 DEF Admitted
      <4>2. Moves(p, <<op, step>>)
        BY <1>1, <4>1 DEF Goto, Moves
      <4> QED BY <4>2
    <3> QED BY <3>1, <3>2
  <2>4. x \in Where /\ x \notin Operations \X Closing
    <3>1. CASE x \in {Idle, <<"sweep", "probe">>}
      BY <3>1, CalmIsNeither DEF Calm, Operations
    <3>2. CASE x \in Operations \X {"clear", "file", "rmtree"}
      BY <3>2 DEF Where, Closing, Steps
    <3> QED BY <3>1, <3>2
  <2> QED BY <1>2, <1>4, <2>2, <2>3, <2>4, LookKeeps
<1> QED BY <1>3, <1>4

LEMMA ClearProbeKeeps ==
    ASSUME Good, NEW p \in Procs, ClearProbe(p)
    PROVE  Good'
<1>0. TypeOK /\ at \in [Procs -> Where] /\ lock_file' = lock_file
  BY DEF Good, TypeOK, Where, ClearProbe
<1>1. PICK op \in Operations : at[p][1] = op
  BY AtOperation DEF ClearProbe
<1>2. LooksAt(p) /\ UNCHANGED <<dir, hold_file, jvm>>
  BY DEF ClearProbe
<1>3. Handles(p)
  BY <1>0, SameHandles DEF ClearProbe, TypeOK
<1>4. CASE LockHeld(p)
  <2>1. Done(p) \/ Retry(p)
    BY <1>4 DEF ClearProbe
  <2>2. PICK x \in {Idle, <<"sweep", "probe">>} \union (Operations \X {"file"}) : Moves(p, x)
    BY <1>0, <2>1, DoneMoves, RetryMoves
  <2>3. x \in Calm
    BY DEF Calm, Operations
  <2>4. x \in Where /\ x \notin Operations \X Closing /\ x \notin Removing
    BY <2>3, CalmIsNeither
  <2> QED BY <1>2, <1>3, <2>2, <2>4, LookKeeps
<1>5. CASE ~LockHeld(p)
  <2>1. Moves(p, <<op, "hold">>)
    BY <1>1, <1>5 DEF ClearProbe, Goto, Moves
  <2>2. <<op, "hold">> \in Where /\ <<op, "hold">> \notin Operations \X Closing
    BY DEF Where, Closing, Steps
  <2> QED BY <1>2, <1>3, <1>5, <2>1, <2>2, LookKeeps
<1> QED BY <1>4, <1>5

-----------------------------------------------------------------------------
\* Unless it is excused, who unlinks or removes finds that nobody has the project open.
LEMMA RemovesNobodys ==
    ASSUME Good, NEW p \in Procs, at[p] \in Removing, ~excused, ~Hits(p)
    PROVE  jvm = {}
<1> SUFFICES ASSUME NEW q \in jvm PROVE FALSE
  OBVIOUS
<1>1. OwnersLock /\ jvm \subseteq since[p] /\ q \in Procs
  BY DEF Good, LockedOut, LookedBefore, TypeOK
<1>2. q # p
  BY <1>1 DEF Good, Removals
<1>3. held[q] # 0 /\ held[q] = hold_file
  BY <1>1 DEF OwnersLock
<1> QED BY <1>1, <1>2, <1>3 DEF Hits, Holders

\* A removal keeps the invariant.
LEMMA RemovalKeeps ==
    ASSUME Good, NEW p \in Procs, at[p] \in Removing, NEW x \in Where \ Removing, Moves(p, x),
           x \notin Operations \X Closing, Handles(p),
           hold_file' = 0, dir' \in BOOLEAN, excused' = (excused \/ Hits(p)),
           UNCHANGED <<held, jvm, since>>
    PROVE  Good'
<1> USE DEF Good
<1>1. at' \in [Procs -> Where]
  BY MoveKeepsTypes DEF TypeOK, Where
<1>2. at'[p] = x /\ \A q \in Procs \ {p} : at'[q] = at[q]
  BY DEF Moves, TypeOK
<1>3. TypeOK'
  <2>1. 0 \in Inodes
    BY LocksAssumption, FS_CardinalityType DEF Inodes
  <2>2. excused' \in BOOLEAN
    BY DEF TypeOK
  <2> QED BY <1>1, <2>1, <2>2 DEF TypeOK, Where, Handles, Inodes
<1>4. Removals'
  <2>1. \A q \in Procs : q \notin since'[q]
    BY DEF Removals
  <2>2. ASSUME NEW q \in Procs
        PROVE  /\ at'[q] \in Operations \X Closing => at'[q] \in {"close", "delete", "purge"} \X Closing
               /\ at'[q] \in Deleting => project'[q] = "write"
    <3>1. CASE q = p
      BY <1>2, <3>1 DEF Deleting, Operations
    <3>2. CASE q # p
      BY <1>2, <3>2 DEF Removals, Handles
    <3> QED BY <3>1, <3>2
  <2> QED BY <2>1, <2>2 DEF Removals
<1>5. LockedOut'
  <2> SUFFICES ASSUME ~excused' PROVE (OwnersLock /\ Alone /\ LookedBefore)'
    BY DEF LockedOut
  <2>1. jvm' = {}
    BY RemovesNobodys
  <2> QED BY <2>1 DEF OwnersLock, Alone, LookedBefore
<1> QED BY <1>3, <1>4, <1>5

LEMMA UnlinkHoldKeeps ==
    ASSUME Good, NEW p \in Procs, UnlinkHold(p)
    PROVE  Good'
<1>0. TypeOK
  BY DEF Good
<1>1. PICK op \in Operations : at[p] = <<op, "hold">> /\ at[p][1] = op
  BY AtOperation DEF UnlinkHold
<1>2. Moves(p, <<op, "lock">>)
  BY <1>1 DEF UnlinkHold, Goto, Moves
<1>3. <<op, "lock">> \in Where \ Removing /\ <<op, "lock">> \notin Operations \X Closing
  BY DEF Where, Removing, Closing, Steps
<1>4. at[p] \in Removing /\ Handles(p) /\ dir' \in BOOLEAN
  BY <1>0, <1>1, SameHandles DEF UnlinkHold, Removing, TypeOK
<1> QED BY <1>2, <1>3, <1>4, RemovalKeeps DEF UnlinkHold

LEMMA RemoveTreeKeeps ==
    ASSUME Good, NEW p \in Procs, RemoveTree(p)
    PROVE  Good'
<1>0. TypeOK /\ at \in [Procs -> Where]
  BY DEF Good, TypeOK, Where
<1>1. PICK op \in Operations : at[p] = <<op, "rmtree">> /\ at[p][1] = op
  BY AtOperation DEF RemoveTree
<1>2. PICK x \in {Idle, <<"sweep", "probe">>} : Moves(p, x)
  BY <1>0, DoneMoves DEF RemoveTree
<1>3. x \in Where \ Removing /\ x \notin Operations \X Closing
  BY CalmIsNeither DEF Calm, Operations
<1>4. at[p] \in Removing
  BY <1>1 DEF Removing
<1>5. Handles(p)
  BY <1>0 DEF RemoveTree, Handles, TypeOK
<1>6. /\ hold_file' = 0 /\ dir' \in BOOLEAN /\ excused' = (excused \/ Hits(p))
      /\ UNCHANGED <<held, jvm, since>>
  BY DEF RemoveTree
<1> QED BY <1>2, <1>3, <1>4, <1>5, <1>6, RemovalKeeps

-----------------------------------------------------------------------------
\* Who takes the lock finds that no other process has the project open.
LEMMA LockChannelKeeps ==
    ASSUME Good, NEW p \in Procs, LockChannel(p)
    PROVE  Good'
<1> USE DEF Good
<1>0. at \in [Procs -> Where]
  BY DEF TypeOK, Where
<1>1. CASE OpenFails(p)
  BY <1>1, FailKeeps DEF LockChannel
<1>2. CASE ~dir /\ Done(p) /\ UNCHANGED <<dir, lock_file, hold_file, held, project, jvm, loaded, since, excused>>
  <2>1. Quiet /\ Handles(p)
    BY <1>2, SameHandles DEF Quiet, TypeOK
  <2>2. PICK x \in {Idle, <<"sweep", "probe">>} : Moves(p, x)
    BY <1>0, <1>2, DoneMoves
  <2>3. x \in Calm
    BY DEF Calm, Operations
  <2> QED BY <2>1, <2>2, <2>3, CalmKeeps
<1>3. CASE dir /\ ~ChannelHeld(p) /\ ~OpenFails(p)
  <2>1. /\ hold_file' = IF hold_file = 0 THEN FreshInode ELSE hold_file
        /\ held' = [held EXCEPT ![p] = hold_file']
        /\ project' = [project EXCEPT ![p] = "write"]
        /\ jvm' = jvm \union {p}
        /\ loaded' \in {loaded, loaded \union {p}}
        /\ since' = [q \in Procs |-> IF q = p THEN since[q] ELSE since[q] \union {p}]
        /\ Done(p)
        /\ UNCHANGED <<dir, lock_file, excused>>
    BY <1>3 DEF LockChannel
  <2>2. hold_file' \in Inodes \ {0}
    BY <2>1, Fresh DEF TypeOK
  <2>3. PICK x \in {Idle, <<"sweep", "probe">>} : Moves(p, x)
    BY <1>0, <2>1, DoneMoves
  <2>4. x \in Where /\ x \notin Operations \X Closing /\ x \notin Removing
    BY CalmIsNeither DEF Calm, Operations
  <2>5. at' \in [Procs -> Where]
    BY <2>3, <2>4, MoveKeepsTypes, <1>0
  <2>6. at'[p] = x /\ \A q \in Procs \ {p} : at'[q] = at[q]
    BY <2>3, <1>0 DEF Moves
  <2>7. TypeOK'
    <3>1. held' \in [Procs -> Inodes'] /\ Inodes' = Inodes /\ hold_file' \in Inodes'
      BY <2>1, <2>2 DEF TypeOK, Inodes
    <3>2. since' \in [Procs -> SUBSET Procs]
      BY <2>1 DEF TypeOK
    <3>3. /\ project' \in [Procs -> {"closed", "view", "write"}]
          /\ loaded' \subseteq {q \in Procs : project'[q] # "closed"}
          /\ \A q \in Procs : held'[q] # 0 \/ project'[q] = "write" => q \in jvm'
          /\ jvm' \subseteq Procs
      BY <2>1 DEF TypeOK
    <3> QED BY <2>1, <2>5, <3>1, <3>2, <3>3 DEF TypeOK, Where
  <2>8. Removals'
    <3>1. \A q \in Procs : q \notin since'[q]
      BY <2>1 DEF Removals, TypeOK
    <3>2. ASSUME NEW q \in Procs
          PROVE  /\ at'[q] \in Operations \X Closing => at'[q] \in {"close", "delete", "purge"} \X Closing
                 /\ at'[q] \in Deleting => project'[q] = "write"
      <4>1. CASE q = p
        BY <2>4, <2>6, <4>1 DEF Deleting, Operations
      <4>2. CASE q # p
        BY <2>1, <2>6, <4>2 DEF Removals, TypeOK
      <4> QED BY <4>1, <4>2
    <3> QED BY <3>1, <3>2 DEF Removals
  <2>9. LockedOut'
    <3> SUFFICES ASSUME ~excused PROVE (OwnersLock /\ Alone /\ LookedBefore)'
      BY <2>1 DEF LockedOut
    <3>1. OwnersLock /\ Alone /\ LookedBefore
      BY DEF LockedOut
    <3>2. jvm \subseteq {p}
      BY <1>3, <3>1 DEF OwnersLock, ChannelHeld, Holders, TypeOK
    <3>3. jvm' = {p}
      BY <2>1, <3>2
    <3>4. held'[p] = hold_file'
      BY <2>1 DEF TypeOK
    <3>5. OwnersLock' /\ Alone'
      BY <1>3, <2>1, <2>2, <3>3, <3>4 DEF OwnersLock, Alone
    <3>6. ASSUME NEW q \in Procs, at'[q] \in Removing PROVE jvm' \subseteq since'[q]
      <4>1. q # p
        BY <2>4, <2>6, <3>6
      <4> QED BY <2>1, <3>3, <4>1
    <3> QED BY <3>5, <3>6 DEF LookedBefore
  <2> QED BY <2>7, <2>8, <2>9
<1> QED BY <1>1, <1>2, <1>3 DEF LockChannel

\* Who gives up the lock was alone, so a deletion after it removes nobody's project.
LEMMA ReleaseChannelKeeps ==
    ASSUME Good, NEW p \in Procs, ReleaseChannel(p)
    PROVE  Good'
<1> USE DEF Good
<1>0. at \in [Procs -> Where]
  BY DEF TypeOK, Where
<1>1. PICK op \in {"close", "delete", "purge"} :
        at[p][1] = op /\ (op = "delete" => project[p] = "write")
  <2>1. PICK op \in Operations : at[p] = <<op, "unlock">> /\ at[p][1] = op
    BY AtOperation DEF ReleaseChannel
  <2> QED BY <2>1 DEF Removals, Closing, Deleting
<1>2. PICK x \in {Idle, <<"sweep", "probe">>, <<"purge", "probe">>, <<"delete", "rmtree">>} :
        Moves(p, x) /\ (x \in Removing => op = "delete")
  <2>1. CASE op = "close"
    <3>1. PICK x \in {Idle, <<"sweep", "probe">>} : Moves(p, x)
      BY <1>0, <1>1, <2>1, DoneMoves DEF ReleaseChannel
    <3>2. x \notin Removing
      BY CalmIsNeither DEF Calm, Operations
    <3> QED BY <3>1, <3>2
  <2>2. CASE op = "delete"
    <3>1. Moves(p, <<"delete", "rmtree">>)
      BY <1>1, <2>2 DEF ReleaseChannel, Goto, Moves
    <3> QED BY <2>2, <3>1
  <2>3. CASE op = "purge"
    <3>1. Moves(p, <<"purge", "probe">>)
      BY <1>1, <2>3 DEF ReleaseChannel, Goto, Moves
    <3>2. <<"purge", "probe">> \notin Removing
      BY DEF Removing
    <3> QED BY <3>1, <3>2
  <2> QED BY <2>1, <2>2, <2>3
<1>3. x \in Where /\ x \notin Operations \X Closing
  <2>1. CASE x # <<"delete", "rmtree">>
    BY <2>1, CalmIsNeither DEF Calm, Operations
  <2>2. CASE x = <<"delete", "rmtree">>
    BY <2>2 DEF Where, Closing, Operations, Steps
  <2> QED BY <2>1, <2>2
<1>4. at' \in [Procs -> Where]
  BY <1>0, <1>2, <1>3, MoveKeepsTypes
<1>5. at'[p] = x /\ \A q \in Procs \ {p} : at'[q] = at[q]
  BY <1>0, <1>2 DEF Moves
<1>6. /\ project' = [project EXCEPT ![p] = "closed"]
      /\ loaded' = loaded \ {p}
      /\ since' = [since EXCEPT ![p] = {}]
      /\ UNCHANGED <<dir, lock_file, excused>>
  BY DEF ReleaseChannel
<1>7. \/ /\ project[p] = "write"
         /\ hold_file' = 0 /\ held' = [held EXCEPT ![p] = 0] /\ jvm' = jvm \ {p}
      \/ project[p] # "write" /\ UNCHANGED <<hold_file, held, jvm>>
  BY DEF ReleaseChannel
<1>8. TypeOK'
  <2>1. 0 \in Inodes /\ Inodes' = Inodes
    BY LocksAssumption, FS_CardinalityType DEF Inodes
  <2>2. hold_file' \in Inodes /\ held' \in [Procs -> Inodes] /\ jvm' \subseteq Procs
    BY <1>7, <2>1 DEF TypeOK
  <2>3. /\ project' \in [Procs -> {"closed", "view", "write"}]
        /\ loaded' \subseteq {q \in Procs : project'[q] # "closed"}
        /\ since' \in [Procs -> SUBSET Procs]
    BY <1>6 DEF TypeOK
  <2>4. \A q \in Procs : held'[q] # 0 \/ project'[q] = "write" => q \in jvm'
    BY <1>6, <1>7 DEF TypeOK
  <2> QED BY <1>4, <1>6, <2>1, <2>2, <2>3, <2>4 DEF TypeOK, Where
<1>9. Removals'
  <2>1. \A q \in Procs : q \notin since'[q]
    BY <1>6 DEF Removals, TypeOK
  <2>2. ASSUME NEW q \in Procs
        PROVE  /\ at'[q] \in Operations \X Closing => at'[q] \in {"close", "delete", "purge"} \X Closing
               /\ at'[q] \in Deleting => project'[q] = "write"
    <3>1. CASE q = p
      BY <1>3, <1>5, <3>1 DEF Deleting, Operations
    <3>2. CASE q # p
      BY <1>5, <1>6, <3>2 DEF Removals, TypeOK
    <3> QED BY <3>1, <3>2
  <2> QED BY <2>1, <2>2 DEF Removals
<1>10. LockedOut'
  <2> SUFFICES ASSUME ~excused PROVE (OwnersLock /\ Alone /\ LookedBefore)'
    BY <1>6 DEF LockedOut
  <2>1. OwnersLock /\ Alone /\ LookedBefore
    BY DEF LockedOut
  <2>2. CASE project[p] = "write"
    <3>1. p \in jvm
      BY <2>2 DEF TypeOK
    <3>2. jvm' = {}
      BY <1>7, <2>1, <2>2, <3>1 DEF Alone
    <3> QED BY <3>2 DEF OwnersLock, Alone, LookedBefore
  <2>3. CASE project[p] # "write"
    <3>1. UNCHANGED <<hold_file, held, jvm, dir>>
      BY <1>6, <1>7, <2>3
    <3>2. OwnersLock' /\ Alone'
      BY <2>1, <3>1 DEF OwnersLock, Alone
    <3>3. ASSUME NEW q \in Procs, at'[q] \in Removing PROVE jvm' \subseteq since'[q]
      <4>1. q # p
        BY <1>1, <1>2, <1>5, <2>3, <3>3
      <4> QED BY <1>5, <1>6, <2>1, <3>1, <3>3, <4>1 DEF LookedBefore, TypeOK
    <3> QED BY <3>2, <3>3 DEF LookedBefore
  <2> QED BY <2>2, <2>3
<1> QED BY <1>8, <1>9, <1>10

\* A process that ends takes only its own lock along.
LEMMA CrashKeeps ==
    ASSUME Good, NEW p \in Procs, Crash(p)
    PROVE  Good'
<1> USE DEF Good
<1>1. Moves(p, Dead) /\ Dead \in Where
  BY DEF Crash, Moves, Where
<1>2. Dead \notin Operations \X Closing /\ Dead \notin Removing
  BY DEF Dead, Operations, Removing
<1>3. at' \in [Procs -> Where]
  BY <1>1, MoveKeepsTypes DEF TypeOK, Where
<1>4. at'[p] = Dead /\ \A q \in Procs \ {p} : at'[q] = at[q]
  BY <1>1 DEF Moves, TypeOK
<1>5. TypeOK'
  <2>1. 0 \in Inodes /\ Inodes' = Inodes
    BY LocksAssumption, FS_CardinalityType DEF Inodes
  <2> QED BY <1>3, <2>1 DEF Crash, TypeOK, Where
<1>6. Removals'
  <2>1. \A q \in Procs : q \notin since'[q]
    BY DEF Crash, Removals, TypeOK
  <2>2. ASSUME NEW q \in Procs
        PROVE  /\ at'[q] \in Operations \X Closing => at'[q] \in {"close", "delete", "purge"} \X Closing
               /\ at'[q] \in Deleting => project'[q] = "write"
    <3>1. CASE q = p
      BY <1>2, <1>4, <3>1 DEF Deleting, Operations
    <3>2. CASE q # p
      BY <1>4, <3>2 DEF Crash, Removals, TypeOK
    <3> QED BY <3>1, <3>2
  <2> QED BY <2>1, <2>2 DEF Removals
<1>7. LockedOut'
  <2> SUFFICES ASSUME ~excused PROVE (OwnersLock /\ Alone /\ LookedBefore)'
    BY DEF LockedOut, Crash
  <2>1. OwnersLock /\ Alone /\ LookedBefore
    BY DEF LockedOut
  <2>2. OwnersLock' /\ Alone'
    BY <2>1 DEF Crash, OwnersLock, Alone, TypeOK
  <2>3. LookedBefore'
    BY <1>2, <1>4, <2>1 DEF Crash, LookedBefore, TypeOK
  <2> QED BY <2>2, <2>3
<1> QED BY <1>5, <1>6, <1>7

-----------------------------------------------------------------------------
\* At first nobody has the project open.
LEMMA GoodInit == Init => Good
<1> SUFFICES ASSUME Init PROVE Good
  OBVIOUS
<1> USE DEF Init
<1>1. Cardinality(Procs) \in Nat
  BY LocksAssumption, FS_CardinalityType
<1>2. TypeOK
  <2>1. 0 \in Inodes /\ 1 \in Inodes
    BY <1>1 DEF Inodes
  <2>2. held \in [Procs -> Inodes] /\ hold_file \in Inodes
    BY <2>1
  <2>3. at \in [Procs -> {New, Idle, Dead} \union (Operations \X Steps)]
    OBVIOUS
  <2> QED BY <2>2, <2>3 DEF TypeOK
<1>3. \A p \in Procs : at[p] \notin Operations \X Closing /\ at[p] \notin Deleting
  BY DEF Closing, Deleting, New, Operations
<1>4. Removals
  BY <1>3 DEF Removals
<1>5. LockedOut
  BY DEF LockedOut, OwnersLock, Alone, LookedBefore
<1> QED BY <1>2, <1>4, <1>5 DEF Good

\* Every step keeps the inductive invariant.
LEMMA GoodNext == Good /\ [Next]_vars => Good'
<1>1. ASSUME Good, Next PROVE Good'
  BY <1>1, BeginKeeps, LockFileKeeps, ProbeKeeps, ClearProbeKeeps, UnlinkHoldKeeps,
     RemoveTreeKeeps, LockChannelKeeps, ReleaseChannelKeeps, CrashKeeps DEF Next
<1>2. ASSUME Good, UNCHANGED vars PROVE Good'
  BY <1>2 DEF vars, Good, TypeOK, Removals, LockedOut, OwnersLock, Alone, LookedBefore, Inodes
<1> QED BY <1>1, <1>2

\* It holds always.
THEOREM GoodAlways == Spec => []Good
BY GoodInit, GoodNext, PTL DEF Spec

\* Values stay in their types; only a JVM that has the project open keeps the lock.
THEOREM TypeCorrect == Spec => []TypeOK
<1>1. Good => TypeOK
  BY DEF Good
<1> QED BY <1>1, GoodAlways, PTL

\* At most one process has the project open for writing, and its directory stays,
\* but for the two exceptions.
THEOREM OneWriter == Spec => []SingleWriter
<1>1. Good => SingleWriter
  <2> SUFFICES ASSUME Good, ~excused PROVE Cardinality(jvm) <= 1 /\ (jvm = {} \/ dir)
    BY DEF SingleWriter
  <2>1. OwnersLock /\ Alone
    BY DEF Good, LockedOut
  <2>2. CASE jvm = {}
    BY <2>2, FS_EmptySet
  <2>3. CASE jvm # {}
    <3>1. PICK p : jvm = {p}
      BY <2>1, <2>3 DEF Alone
    <3>2. Cardinality(jvm) = 1
      BY <3>1, FS_Singleton
    <3> QED BY <2>1, <2>3, <3>2 DEF OwnersLock
  <2> QED BY <2>2, <2>3
<1> QED BY <1>1, GoodAlways, PTL

=============================================================================
