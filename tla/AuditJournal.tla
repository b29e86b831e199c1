---------------------------- MODULE AuditJournal ----------------------------
(***************************************************************************)
(* The files behind the audit journal: annotate_audit.jsonl and its        *)
(* numbered backups, rotated by size one os.replace at a time, then        *)
(* appended to.  _audit_lock is a lock of one process, so one append at a  *)
(* time runs in each server; the directory may be that of several servers. *)
(* A rename may be refused, and a server may die between two of them.      *)
(*                                                                         *)
(* A record is its number in the order of writing, a file the set of its   *)
(* records.  Only a file with records is ever renamed, so that a missing   *)
(* file and an empty one need not be told apart.                           *)
(***************************************************************************)
EXTENDS Naturals, FiniteSets

CONSTANTS
    Servers,     \* processes that use the project directory
    MaxBackups,  \* _AUDIT_MAX_BACKUPS (5)
    FileCap,     \* _AUDIT_MAX_BYTES (5 MB), counted in records
    MaxRecords,  \* bound: records written
    MaxFaults    \* bound: renames refused

ASSUME JournalAssumption ==
    /\ {MaxBackups, FileCap} \subseteq Nat \ {0}
    /\ {MaxRecords, MaxFaults} \subseteq Nat

VARIABLES
    files,   \* 0: annotate_audit.jsonl; i: annotate_audit.jsonl.i
    pc,      \* where a server stands in _audit_append
    slot,    \* the file it renames next
    next,    \* history: number of the next record
    faults   \* history: renames refused

journalVars == <<files, pc, slot, next, faults>>

Slots == 0..MaxBackups

JournalTypeOK ==
    /\ files \in [Slots -> SUBSET (0..MaxRecords)]
    /\ pc \in [Servers -> {"idle", "rotate", "append"}]
    /\ slot \in [Servers -> 0..MaxBackups - 1]
    /\ next \in 0..MaxRecords
    /\ faults \in 0..MaxFaults

JournalInit ==
    /\ files = [i \in Slots |-> {}]
    /\ pc = [s \in Servers |-> "idle"]
    /\ slot = [s \in Servers |-> 0]
    /\ next = 0
    /\ faults = 0

\* Mutant: one record too many before the journal is rotated.
FullLate(file) == Cardinality(file) > FileCap

Full(file) == Cardinality(file) >= FileCap

\* Mutant: the range starts at _AUDIT_MAX_BACKUPS.
FirstShiftHigh == MaxBackups

\* range(_AUDIT_MAX_BACKUPS - 1, 0, -1), then the journal itself.
FirstShift == MaxBackups - 1

\* Mutant: the journal is opened "w" rather than for appending.
Truncated(file, n) == {n}

\* Mutant: a journal that is still full, its rotation refused, is started afresh.
StartedAfresh(file, n) == IF Full(file) THEN {n} ELSE file \union {n}

Appended(file, n) == file \union {n}

\* Mutant: a file is copied to its successor.
Copied(i) == [files EXCEPT ![i + 1] = files[i]]

\* os.replace of file i over its successor.
Renamed(i) == [files EXCEPT ![i + 1] = files[i], ![i] = {}]

\* _audit_append takes _audit_lock and looks at the journal's size.
Begin(s) ==
    /\ pc[s] = "idle"
    /\ IF Full(files[0])
       THEN pc' = [pc EXCEPT ![s] = "rotate"] /\ slot' = [slot EXCEPT ![s] = FirstShift]
       ELSE pc' = [pc EXCEPT ![s] = "append"] /\ UNCHANGED slot
    /\ UNCHANGED <<files, next, faults>>

\* One os.replace of a file over its successor.  A backup that is missing is
\* skipped; for the journal itself that is the error that ends the rotation.
Shift(s) ==
    LET i == slot[s]
    IN  /\ pc[s] = "rotate"
        /\ files' = IF files[i] = {} THEN files ELSE Renamed(i)
        /\ IF i = 0
           THEN pc' = [pc EXCEPT ![s] = "append"] /\ UNCHANGED slot
           ELSE slot' = [slot EXCEPT ![s] = i - 1] /\ UNCHANGED pc
        /\ UNCHANGED <<next, faults>>

\* An OSError ends the rotation; the record is appended all the same.
ShiftFails(s) ==
    /\ pc[s] = "rotate"
    /\ faults < MaxFaults
    /\ faults' = faults + 1
    /\ pc' = [pc EXCEPT ![s] = "append"]
    /\ UNCHANGED <<files, slot, next>>

\* The line is written, or refused, and the lock released.
AppendRecord(s) ==
    /\ pc[s] = "append"
    /\ pc' = [pc EXCEPT ![s] = "idle"]
    /\ \/ /\ next < MaxRecords
          /\ files' = [files EXCEPT ![0] = Appended(@, next)]
          /\ next' = next + 1
       \/ UNCHANGED <<files, next>>
    /\ UNCHANGED <<slot, faults>>

\* The server dies inside _audit_append.
Die(s) ==
    /\ pc[s] # "idle"
    /\ pc' = [pc EXCEPT ![s] = "idle"]
    /\ UNCHANGED <<files, slot, next, faults>>

JournalNext == \E s \in Servers :
    Begin(s) \/ Shift(s) \/ ShiftFails(s) \/ AppendRecord(s) \/ Die(s)

JournalSpec == JournalInit /\ [][JournalNext]_journalVars

-----------------------------------------------------------------------------
\* The records a reader of the directory finds.
Retained == UNION {files[i] : i \in Slots}

\* The journal has no hole: with a record, a reader finds all the later ones, and
\* the last one written is there, even in the middle of a rotation or after one
\* that was cut short (_rotate_audit_if_needed, _audit_append).
NoHole ==
    /\ \A x \in Retained : x..(next - 1) \subseteq Retained
    /\ next > 0 => next - 1 \in Retained

\* A reader that goes from the highest backup down to the journal reads the
\* records in the order they were written.
FilesInOrder ==
    \A i, j \in Slots : i < j => \A x \in files[i], y \in files[j] : y < x

\* No file outgrows the limit unless a rename was refused: the trail takes at most
\* (_AUDIT_MAX_BACKUPS + 1) times the limit.
BoundedDisk == faults = 0 => \A i \in Slots : Cardinality(files[i]) <= FileCap

\* Rotating and appending, step by step, is writing to the abstract log.
Log == INSTANCE AuditLog WITH log <- Retained
LogSpec == Log!Spec
=============================================================================
