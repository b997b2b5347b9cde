-------------------------- MODULE ConfigStoreProofs --------------------------
(***************************************************************************)
(* Proofs about ConfigStore for any sets of update() calls and hand edits, *)
(* and about write_file_atomically (AtomicFile), which writes its file.    *)
(***************************************************************************)
EXTENDS ConfigStore, SharedFile, TLAPS

LEMMA InitIInv == Init => IInv
<1> SUFFICES ASSUME Init PROVE IInv
  OBVIOUS
<1> USE DEF Init, Null
<1>1. {} \in Config
  BY DEF Config
<1>2. TypeOK
  BY <1>1 DEF TypeOK, Snapshot
<1>3. MutexInv /\ ProcInv
  BY DEF MutexInv, ProcInv, InUpdate
<1>4. WriterInv /\ PollInv /\ SnapshotsReachDiskInOrder /\ PollNeverSkipsAnEdit
  BY DEF WriterInv, PollInv, SnapshotsReachDiskInOrder, PollNeverSkipsAnEdit
<1> QED
  BY <1>2, <1>3, <1>4 DEF IInv

\* What a write leaves of the file: a fresh mtime, or the old one and a twin.
LEMMA WriteOutcome ==
  ASSUME TypeOK, NEW c \in {Absent, Garbage} \cup Config, Write(c)
  PROVE  /\ file' \in [content : {Absent, Garbage} \cup Config, mtime : Nat]
         /\ file'.content = c /\ file'.mtime >= file.mtime
         /\ twin' \in BOOLEAN
         /\ twin' \/ file'.mtime > file.mtime
<1>1. PICK tick \in 0..1 : /\ file' = [content |-> c, mtime |-> file.mtime + tick]
                          /\ twin' = (tick = 0)
  BY DEF Write
<1>2. file.mtime \in Nat
  BY DEF TypeOK
<1>3. file.mtime + tick \in Nat /\ file.mtime + tick >= file.mtime
  BY <1>2
<1>4. file' \in [content : {Absent, Garbage} \cup Config, mtime : Nat]
  BY <1>1, <1>3
<1>5. tick = 0 \/ file.mtime + tick > file.mtime
  BY <1>2
<1> QED
  BY <1>1, <1>3, <1>4, <1>5

(***************************************************************************)
(* Every step of an update() call keeps the invariant.                     *)
(***************************************************************************)
LEMMA UpdateStep ==
  ASSUME IInv, NEW u \in Updates, Update(u)
  PROVE  IInv'
<1> USE DEF IInv, TypeOK, Snapshot, Null, InUpdate, memory, writer, callers, poller,
            disk, history
<1>1. CASE UpdateCopy(u)
  <2>1. TypeOK'
    BY <1>1 DEF UpdateCopy
  <2>2. MutexInv'
    BY <1>1 DEF UpdateCopy, WriteMutexFree, MutexInv
  <2>3. ProcInv'
    BY <1>1 DEF UpdateCopy, ProcInv
  <2>4. (WriterInv /\ PollInv /\ SnapshotsReachDiskInOrder /\ PollNeverSkipsAnEdit)'
    BY <1>1 DEF UpdateCopy, WriterInv, PollInv, SnapshotsReachDiskInOrder,
       PollNeverSkipsAnEdit, Parsed
  <2> QED
    BY <2>1, <2>2, <2>3, <2>4
<1>2. CASE UpdateThrow(u)
  BY <1>2 DEF UpdateThrow, MutexInv, ProcInv, WriterInv, PollInv,
     SnapshotsReachDiskInOrder, PollNeverSkipsAnEdit, Parsed
<1>3. CASE UpdatePublish(u)
  <2>1. copy[u] \cup {u} \in Config
    BY DEF Config
  <2> QED
    BY <1>3, <2>1 DEF UpdatePublish, MutexInv, ProcInv, WriterInv, PollInv,
       SnapshotsReachDiskInOrder, PollNeverSkipsAnEdit, Parsed
<1>4. CASE UpdateEnqueue(u)
  <2>1. copy[u] \cup {u} \in Config
    BY DEF Config
  <2> QED
    BY <1>4, <2>1 DEF UpdateEnqueue, MutexInv, ProcInv, WriterInv, PollInv,
       SnapshotsReachDiskInOrder, PollNeverSkipsAnEdit, Parsed
<1> QED
  BY <1>1, <1>2, <1>3, <1>4 DEF Update

(***************************************************************************)
(* Every step of writer_loop keeps the invariant.                          *)
(***************************************************************************)
LEMMA WriterStep ==
  ASSUME IInv, Writer
  PROVE  IInv'
<1> USE DEF IInv, TypeOK, Snapshot, Null, InUpdate, memory, writer, callers, poller,
            disk, history
<1>0. Null \in Snapshot
  BY DEF Config
<1>1. CASE WriterTake
  <2>1. TypeOK'
    BY <1>0, <1>1 DEF WriterTake, Alive
  <2>2. MutexInv' /\ ProcInv'
    BY <1>1 DEF WriterTake, Alive, MutexInv, ProcInv
  <2>3. WriterInv' /\ SnapshotsReachDiskInOrder'
    BY <1>1 DEF WriterTake, Alive, WriterInv, SnapshotsReachDiskInOrder, ProcInv
  <2>4. PollInv' /\ PollNeverSkipsAnEdit'
    BY <1>1 DEF WriterTake, Alive, PollInv, PollNeverSkipsAnEdit, ProcInv, Parsed
  <2> QED
    BY <2>1, <2>2, <2>3, <2>4
<1>2. CASE WriterWrite
  <2>1. to_write.cfg \in {Absent, Garbage} \cup Config /\ Write(to_write.cfg)
    BY <1>2 DEF WriterWrite
  <2>2. TypeOK'
    BY <1>2, <2>1, WriteOutcome DEF WriterWrite
  <2>3. MutexInv' /\ ProcInv'
    BY <1>2 DEF WriterWrite, MutexInv, ProcInv
  <2>4. WriterInv' /\ SnapshotsReachDiskInOrder'
    BY <1>2 DEF WriterWrite, WriterInv, SnapshotsReachDiskInOrder, ProcInv
  <2>5. PollInv' /\ PollNeverSkipsAnEdit'
    BY <1>2, <2>1, WriteOutcome DEF WriterWrite, PollInv, PollNeverSkipsAnEdit
  <2> QED
    BY <2>2, <2>3, <2>4, <2>5
<1>3. CASE WriterFail
  <2>1. TypeOK'
    BY <1>0, <1>3 DEF WriterFail
  <2>2. MutexInv' /\ ProcInv'
    BY <1>3 DEF WriterFail, MutexInv, ProcInv
  <2>3. WriterInv' /\ SnapshotsReachDiskInOrder'
    BY <1>3 DEF WriterFail, WriterInv, SnapshotsReachDiskInOrder, ProcInv
  <2>4. PollInv' /\ PollNeverSkipsAnEdit'
    BY <1>3 DEF WriterFail, PollInv, PollNeverSkipsAnEdit, ProcInv, Parsed
  <2> QED
    BY <2>1, <2>2, <2>3, <2>4
<1>4. CASE WriterStamp
  <2>1. TypeOK'
    BY <1>0, <1>4 DEF WriterStamp
  <2>2. MutexInv' /\ ProcInv'
    BY <1>4 DEF WriterStamp, MutexInv, ProcInv
  <2>3. WriterInv' /\ SnapshotsReachDiskInOrder'
    BY <1>4 DEF WriterStamp, WriterInv, SnapshotsReachDiskInOrder, ProcInv
  <2>4. PollInv' /\ PollNeverSkipsAnEdit'
    BY <1>4 DEF WriterStamp, PollInv, PollNeverSkipsAnEdit, ProcInv, Parsed
  <2> QED
    BY <2>1, <2>2, <2>3, <2>4
<1> QED
  BY <1>1, <1>2, <1>3, <1>4 DEF Writer

(***************************************************************************)
(* Every step of poll_for_external_changes keeps the invariant.            *)
(***************************************************************************)
LEMMA PollStep ==
  ASSUME IInv, Poll
  PROVE  IInv'
<1> USE DEF IInv, TypeOK, Snapshot, Null, InUpdate, memory, writer, callers, poller,
            disk, history
<1>0. {} \in Config
  BY DEF Config
<1>1. CASE PollStat
  BY <1>1 DEF PollStat, MutexInv, ProcInv, WriterInv, PollInv,
     SnapshotsReachDiskInOrder, PollNeverSkipsAnEdit, Parsed
<1>2. CASE PollCompare
  BY <1>2 DEF PollCompare, MutexInv, ProcInv, WriterInv, PollInv,
     SnapshotsReachDiskInOrder, PollNeverSkipsAnEdit, Parsed
<1>3. CASE PollRead
  BY <1>0, <1>3 DEF PollRead, MutexInv, ProcInv, WriterInv, PollInv,
     SnapshotsReachDiskInOrder, PollNeverSkipsAnEdit, Parsed
<1>4. CASE PollIgnore
  BY <1>4 DEF PollIgnore, MutexInv, ProcInv, WriterInv, PollInv,
     SnapshotsReachDiskInOrder, PollNeverSkipsAnEdit, Parsed
<1>5. CASE PollSwap
  <2>1. applied' \in SUBSET Edits
    BY <1>5 DEF PollSwap
  <2> QED
    BY <1>5, <2>1 DEF PollSwap, MutexInv, ProcInv, WriterInv, PollInv,
       SnapshotsReachDiskInOrder, PollNeverSkipsAnEdit, Parsed
<1> QED
  BY <1>1, <1>2, <1>3, <1>4, <1>5 DEF Poll

(***************************************************************************)
(* The operator's saves keep the invariant.                                *)
(***************************************************************************)
LEMMA OperatorStep ==
  ASSUME IInv, Operator
  PROVE  IInv'
<1> USE DEF IInv, TypeOK, Snapshot, Null, InUpdate, memory, writer, callers, poller,
            disk, history
<1>0. {} \in Config
  BY DEF Config
<1>1. ASSUME NEW e \in Edits, NEW c \in {Absent, Garbage, {}}, EditBegin(e, c)
      PROVE  IInv'
  <2>1. editing' \in {None} \cup Config
    BY <1>1 DEF EditBegin, Config
  <2>0. c \in {Absent, Garbage} \cup Config /\ Write(c)
    BY <1>0, <1>1 DEF EditBegin
  <2>2. TypeOK'
    BY <1>1, <2>0, <2>1, WriteOutcome DEF EditBegin
  <2>3. MutexInv' /\ ProcInv'
    BY <1>1 DEF EditBegin, MutexInv, ProcInv
  <2>4. WriterInv' /\ SnapshotsReachDiskInOrder'
    BY <1>1 DEF EditBegin, WriterInv, SnapshotsReachDiskInOrder
  <2>5. PollInv' /\ PollNeverSkipsAnEdit'
    BY <1>1, <2>0, WriteOutcome DEF EditBegin, PollInv, PollNeverSkipsAnEdit
  <2> QED
    BY <2>2, <2>3, <2>4, <2>5
<1>2. CASE EditEnd
  <2>1. editing \in {Absent, Garbage} \cup Config /\ Write(editing)
    BY <1>2 DEF EditEnd
  <2>2. TypeOK'
    BY <1>2, <2>1, WriteOutcome DEF EditEnd
  <2>3. MutexInv' /\ ProcInv'
    BY <1>2 DEF EditEnd, MutexInv, ProcInv
  <2>4. WriterInv' /\ SnapshotsReachDiskInOrder'
    BY <1>2 DEF EditEnd, WriterInv, SnapshotsReachDiskInOrder
  <2>5. PollInv' /\ PollNeverSkipsAnEdit'
    BY <1>2, <2>1, WriteOutcome DEF EditEnd, PollInv, PollNeverSkipsAnEdit
  <2> QED
    BY <2>2, <2>3, <2>4, <2>5
<1> QED
  BY <1>1, <1>2 DEF Operator

(***************************************************************************)
(* Start, crash and shutdown keep the invariant.                           *)
(***************************************************************************)
LEMMA LifecycleStep ==
  ASSUME IInv, Lifecycle
  PROVE  IInv'
<1> USE DEF IInv, TypeOK, Snapshot, Null, InUpdate, memory, writer, callers, poller,
            disk, history
<1>0. {} \in Config
  BY DEF Config
<1>1. CASE LoadRead
  <2>1. CASE file.content = Absent
    <3>1. {} \in {Absent, Garbage} \cup Config /\ Write({})
      BY <1>0, <1>1, <2>1 DEF LoadRead
    <3>2. TypeOK'
      BY <1>0, <1>1, <2>1, <3>1, WriteOutcome DEF LoadRead, Parsed
    <3>3. MutexInv' /\ ProcInv'
      BY <1>1 DEF LoadRead, MutexInv, ProcInv
    <3>4. WriterInv' /\ SnapshotsReachDiskInOrder'
      BY <1>1 DEF LoadRead, WriterInv, SnapshotsReachDiskInOrder
    <3>5. PollInv' /\ PollNeverSkipsAnEdit'
      <4>1. ppc' = "idle" /\ stamped' = "load" /\ last_mtime' = last_mtime
        BY <1>1 DEF LoadRead, ProcInv
      <4>2. file'.mtime >= file.mtime /\ file'.mtime \in Nat
        BY <3>1, WriteOutcome
      <4>3. last_mtime \in Nat /\ file.mtime \in Nat /\ last_mtime <= file.mtime /\ file.mtime > 0
        BY DEF PollInv
      <4>4. last_mtime' <= file'.mtime /\ file'.mtime > 0
        BY <4>1, <4>2, <4>3
      <4> QED
        BY <4>1, <4>4 DEF PollInv, PollNeverSkipsAnEdit
    <3> QED
      BY <3>2, <3>3, <3>4, <3>5
  <2>2. CASE file.content # Absent
    BY <1>0, <1>1, <2>2 DEF LoadRead, MutexInv, ProcInv, WriterInv, PollInv,
       SnapshotsReachDiskInOrder, PollNeverSkipsAnEdit, Parsed
  <2> QED
    BY <2>1, <2>2
<1>2. CASE LoadPublish
  BY <1>2 DEF LoadPublish, MutexInv, ProcInv, WriterInv, PollInv,
     SnapshotsReachDiskInOrder, PollNeverSkipsAnEdit, Parsed
<1>3. CASE LoadFail
  BY <1>3 DEF LoadFail, MutexInv, ProcInv, WriterInv, PollInv,
     SnapshotsReachDiskInOrder, PollNeverSkipsAnEdit, Parsed
<1>4. CASE Crash
  <2>1. TypeOK'
    BY <1>0, <1>4 DEF Crash, Forget
  <2>2. MutexInv' /\ ProcInv'
    BY <1>4 DEF Crash, Forget, MutexInv, ProcInv
  <2>3. WriterInv' /\ SnapshotsReachDiskInOrder'
    BY <1>4 DEF Crash, Forget, WriterInv, SnapshotsReachDiskInOrder, ProcInv
  <2>4. PollInv' /\ PollNeverSkipsAnEdit'
    BY <1>4 DEF Crash, Forget, PollInv, PollNeverSkipsAnEdit, ProcInv, Parsed
  <2> QED
    BY <2>1, <2>2, <2>3, <2>4
<1>5. CASE Signal
  BY <1>5 DEF Signal, MutexInv, ProcInv, WriterInv, PollInv,
     SnapshotsReachDiskInOrder, PollNeverSkipsAnEdit, Parsed
<1>6. CASE Destroy
  BY <1>6 DEF Destroy, MutexInv, ProcInv, WriterInv, PollInv,
     SnapshotsReachDiskInOrder, PollNeverSkipsAnEdit, Parsed
<1>7. CASE WriterExit
  <2>1. TypeOK'
    BY <1>0, <1>7 DEF WriterExit, Forget
  <2>2. MutexInv' /\ ProcInv'
    BY <1>7 DEF WriterExit, Forget, MutexInv, ProcInv
  <2>3. WriterInv' /\ SnapshotsReachDiskInOrder'
    BY <1>7 DEF WriterExit, Forget, WriterInv, SnapshotsReachDiskInOrder, ProcInv
  <2>4. PollInv' /\ PollNeverSkipsAnEdit'
    BY <1>7 DEF WriterExit, Forget, PollInv, PollNeverSkipsAnEdit, ProcInv, Parsed
  <2> QED
    BY <2>1, <2>2, <2>3, <2>4
<1> QED
  BY <1>1, <1>2, <1>3, <1>4, <1>5, <1>6, <1>7 DEF Lifecycle
-----------------------------------------------------------------------------
\* IInv is an invariant: the base of every theorem below.
LEMMA Invariance == Spec => []IInv
<1>1. IInv /\ [Next]_vars => IInv'
  <2> SUFFICES ASSUME IInv, [Next]_vars PROVE IInv'
    OBVIOUS
  <2>1. CASE UNCHANGED vars
    BY <2>1 DEF vars, memory, writer, callers, poller, disk, history, IInv, TypeOK,
       Snapshot, MutexInv, InUpdate, ProcInv, WriterInv, PollInv, Parsed, Null,
       SnapshotsReachDiskInOrder, PollNeverSkipsAnEdit
  <2> QED
    BY <2>1, UpdateStep, WriterStep, PollStep, OperatorStep, LifecycleStep DEF Next
<1> QED
  BY <1>1, InitIInv, PTL DEF Spec

\* The type invariant of the configuration store.
THEOREM TypeCorrect == Spec => []TypeOK
  BY Invariance, PTL DEF IInv

\* For any number of concurrent update() calls, crashes and failed writes,
\* write_to_disk is given snapshots in publication order.
THEOREM DiskOrder == Spec => []SnapshotsReachDiskInOrder
  BY Invariance, PTL DEF IInv

\* ~ConfigStore leaves no published snapshot behind: the newest one was written,
\* or its write failed.
THEOREM ShutdownDrains == Spec => []DrainedOnExit
<1>1. IInv => DrainedOnExit
  BY DEF IInv, ProcInv, WriterInv, DrainedOnExit, Persisted
<1> QED
  BY <1>1, Invariance, PTL

\* A reload never records the mtime of content it did not load.
THEOREM PollComplete == Spec => []PollNeverSkipsAnEdit
  BY Invariance, PTL DEF IInv

\* write_mutex_ makes concurrent update() calls cumulative: only a reload from
\* disk can take a published change away again.
THEOREM UpdatesCumulative == Spec => UpdatesDoNotClobber
<1>1. IInv /\ [Next]_vars =>
        [\A u \in Updates :
           pc[u] = "mutate" /\ pc'[u] = "enqueue" /\ ~raced => current \subseteq current']_vars
  <2> SUFFICES ASSUME IInv, [Next]_vars, NEW u \in Updates,
                      pc[u] = "mutate", pc'[u] = "enqueue", ~raced
               PROVE  current \subseteq current'
    OBVIOUS
  <2>1. copy[u] = current
    BY DEF IInv, MutexInv
  <2>2. current' = copy[u] \cup {u}
    <3>1. \A v \in Updates : Update(v) => v = u
      BY DEF IInv, MutexInv, InUpdate, TypeOK, Update, UpdateCopy, UpdateThrow,
         UpdatePublish, UpdateEnqueue
    <3>2. ~UNCHANGED pc
      OBVIOUS
    <3>3. ~(Writer \/ Poll \/ Operator \/ Lifecycle)
      BY <3>2 DEF IInv, TypeOK, callers, Writer, WriterTake, WriterWrite, WriterFail,
         WriterStamp, Poll, PollStat, PollCompare, PollRead, PollIgnore, PollSwap,
         Operator, EditBegin, EditEnd, Lifecycle, LoadRead, LoadPublish, LoadFail,
         Crash, Signal, Destroy, WriterExit, Forget
    <3>4. Update(u)
      BY <3>1, <3>2, <3>3 DEF Next, vars, callers
    <3> QED
      BY <3>4 DEF Update, UpdateCopy, UpdateThrow, UpdatePublish, UpdateEnqueue,
         IInv, TypeOK
  <2> QED
    BY <2>1, <2>2
<1> QED
  BY <1>1, Invariance, PTL DEF Spec, UpdatesDoNotClobber

-----------------------------------------------------------------------------
(***************************************************************************)
(* AtomicFile, for any contents, permission bits and size: the invariants, *)
(* and that every step implements a step of AtomicReplace.                 *)
(***************************************************************************)
LEMMA NoFileIsNoFile == NoFile \notin F!File
<1> SUFFICES ASSUME NoFile \in F!File PROVE FALSE
  OBVIOUS
<1>1. NoFile = [val |-> NoFile.val, len |-> NoFile.len, mode |-> NoFile.mode]
  BY DEF F!File
<1> QED
  BY <1>1, AtomicFileAssumption DEF F!File, F!Bounds

LEMMA FileInit == F!Init => F!IInv
<1> SUFFICES ASSUME F!Init PROVE F!IInv
  OBVIOUS
<1> USE DEF F!Init
<1>1. F!TypeOK
  BY DEF F!TypeOK, F!Complete
<1> QED
  BY <1>1 DEF F!IInv, F!CallInv, F!FailureIsUndone, F!Unlinked

\* One step per system call; every one but the rename leaves `path` alone.
LEMMA FileNext == F!IInv /\ [F!Next]_(F!vars) => F!IInv'
<1> SUFFICES ASSUME F!IInv, [F!Next]_(F!vars) PROVE F!IInv'
  OBVIOUS
<1> USE AtomicFileAssumption, NoFileIsNoFile
    DEF F!IInv, F!TypeOK, F!CallInv, F!Complete, F!File, F!Unlinked,
        F!FailureIsUndone, F!Bounds
<1>1. ASSUME NEW v \in Values, NEW m \in Modes, NEW preserve \in BOOLEAN,
             F!Call(v, m, preserve)
      PROVE  F!IInv'
  BY <1>1 DEF F!Call
<1>2. ASSUME NEW m \in Modes, F!Open(m) PROVE F!IInv'
  BY <1>2 DEF F!Open
<1>3. CASE F!Fchmod
  BY <1>3 DEF F!Fchmod
<1>4. ASSUME NEW n \in 1..Size, F!Write(n) PROVE F!IInv'
  BY <1>4 DEF F!Write
<1>5. CASE F!WriteDone
  BY <1>5 DEF F!WriteDone, F!Written
<1>6. CASE F!Fsync
  BY <1>6 DEF F!Fsync
<1>7. CASE F!Close
  BY <1>7 DEF F!Close
<1>8. CASE F!Rename
  BY <1>8 DEF F!Rename
<1>9. ASSUME NEW ok \in BOOLEAN, F!DirSync(ok) PROVE F!IInv'
  BY <1>9 DEF F!DirSync
<1>10. ASSUME NEW unlinked \in BOOLEAN, F!Fail(unlinked) PROVE F!IInv'
  BY <1>10 DEF F!Fail
<1>11. CASE F!ProcessCrash
  BY <1>11 DEF F!ProcessCrash
<1>12. CASE F!PowerLoss
  BY <1>12 DEF F!PowerLoss, F!Surviving
<1>13. CASE UNCHANGED F!vars
  BY <1>13 DEF F!vars
<1> QED
  BY <1>1, <1>2, <1>3, <1>4, <1>5, <1>6, <1>7, <1>8, <1>9, <1>10, <1>11, <1>12, <1>13
  DEF F!Next

\* Between any two system calls of write_file_atomically, whatever failed and
\* whenever power was lost, `path` and what a power loss would bring back are
\* complete, and a call that threw is undone.
THEOREM FileInvariance == F!Spec => []ReplacedOrUntouched
  BY FileInit, FileNext, PTL DEF F!Spec, ReplacedOrUntouched

-----------------------------------------------------------------------------
\* The type invariant.
THEOREM FileTypeCorrect == F!Spec => []F!TypeOK
  BY FileInvariance, PTL DEF ReplacedOrUntouched, F!IInv

\* No reader, no crash and no power loss ever finds a partial file at `path`,
\* whatever the size of the contents and the sequence of failures.
THEOREM NoPartialFile == F!Spec => []F!NeverPartial
<1>1. F!IInv => F!NeverPartial
  BY DEF F!IInv, F!CallInv, F!Complete, F!NeverPartial, F!Surviving
<1> QED
  BY <1>1, FileInvariance, PTL DEF ReplacedOrUntouched

\* An exception leaves `path` as if the call had not been made, and the temp file
\* only where ~TempFile's unlink failed too.
THEOREM FailureIsClean == F!Spec => []F!FailureIsUndone
  BY FileInvariance, PTL DEF ReplacedOrUntouched, F!IInv

\* The contents are never stored under other permissions than the final ones.
THEOREM PermissionsHold == F!Spec => []NeverMorePermissive
<1>1. F!IInv => NeverMorePermissive
  BY DEF F!IInv, F!CallInv, F!Unlinked, F!NeverMorePermissive, NeverMorePermissive
<1> QED
  BY <1>1, FileInvariance, PTL DEF ReplacedOrUntouched

-----------------------------------------------------------------------------
(***************************************************************************)
(* The refinement: Call is Begin, Rename is Replace, DirSync is Return,    *)
(* Fail is Throw, the two crashes are Crash and the rest is stuttering.    *)
(***************************************************************************)
LEMMA SeenComplete ==
  ASSUME NEW f \in F!Complete
  PROVE  /\ F!Seen(f) \in Values \cup {NoFile}
         /\ f # NoFile => F!Seen(f) = f.val
  BY NoFileIsNoFile DEF F!Complete, F!Seen, F!File

LEMMA FileInitRefines == F!Init => F!Abstract!Init
<1> SUFFICES ASSUME F!Init PROVE F!Abstract!Init
  OBVIOUS
<1>1. path \in F!Complete
  BY FileInit DEF F!IInv
<1> QED
  BY <1>1, SeenComplete DEF F!Init, F!Abstract!Init

LEMMA FileNextRefines ==
  F!IInv /\ F!IInv' /\ [F!Next]_(F!vars) =>
    [F!Abstract!Next]_<<F!Seen(path), {F!Seen(f) : f \in fallback},
                      CASE syscall = "idle" -> "idle" [] syscall = "dirsync" -> "replaced"
                        [] OTHER -> "pending">>
<1> DEFINE call == CASE syscall = "idle" -> "idle" [] syscall = "dirsync" -> "replaced"
                     [] OTHER -> "pending"
           back == {F!Seen(f) : f \in fallback}
<1> SUFFICES ASSUME F!IInv, F!IInv', [F!Next]_(F!vars)
             PROVE  F!Abstract!Next \/ UNCHANGED <<F!Seen(path), back, call>>
  OBVIOUS
<1>0. F!Seen(path)' = F!Seen(path') /\ back' = {F!Seen(f) : f \in fallback'}
  BY DEF F!Seen
<1>1. ASSUME NEW v \in Values, NEW m \in Modes, NEW preserve \in BOOLEAN,
             F!Call(v, m, preserve)
      PROVE  F!Abstract!Begin
  BY <1>0, <1>1 DEF F!Call, F!Abstract!Begin
<1>2. CASE (\E m \in Modes : F!Open(m)) \/ F!Fchmod \/ (\E n \in 1..Size : F!Write(n))
           \/ F!WriteDone \/ F!Fsync \/ F!Close
  BY <1>0, <1>2 DEF F!Open, F!Fchmod, F!Write, F!WriteDone, F!Written, F!Fsync, F!Close
<1>3. CASE F!Rename
  <2>1. tmp \in F!Complete /\ tmp # NoFile /\ tmp.val = arg /\ arg \in Values
    BY <1>3 DEF F!Rename, F!IInv, F!CallInv, F!TypeOK, F!Unlinked, F!Complete
  <2>2. F!Seen(path') = arg
    BY <1>3, <2>1, SeenComplete DEF F!Rename
  <2>3. back' = back \cup {F!Seen(path)}
    BY <1>0, <1>3 DEF F!Rename
  <2>4. F!Abstract!Replace(arg)
    BY <1>0, <1>3, <2>2, <2>3 DEF F!Rename, F!Abstract!Replace
  <2> QED
    BY <2>1, <2>4 DEF F!Abstract!Next
<1>4. ASSUME NEW ok \in BOOLEAN, F!DirSync(ok) PROVE F!Abstract!Return
  BY <1>0, <1>4 DEF F!DirSync, F!Abstract!Return
<1>5. ASSUME NEW unlinked \in BOOLEAN, F!Fail(unlinked) PROVE F!Abstract!Next
  BY <1>0, <1>5 DEF F!Fail, F!Unlinked, F!Abstract!Next, F!Abstract!Throw
<1>6. CASE F!ProcessCrash
  BY <1>0, <1>6 DEF F!ProcessCrash, F!Abstract!Next, F!Abstract!Crash
<1>7. CASE F!PowerLoss
  <2>1. path' \in fallback \cup {path}
    BY <1>7 DEF F!PowerLoss, F!Surviving, F!IInv, F!CallInv
  <2>2. F!Seen(path') \in back \cup {F!Seen(path)}
    BY <2>1
  <2>3. call' = "idle" /\ back' = {}
    BY <1>0, <1>7 DEF F!PowerLoss
  <2> QED
    BY <1>0, <2>2, <2>3 DEF F!Abstract!Next, F!Abstract!Crash
<1>8. CASE UNCHANGED F!vars
  BY <1>0, <1>8 DEF F!vars
<1> QED
  BY <1>1, <1>2, <1>3, <1>4, <1>5, <1>6, <1>7, <1>8 DEF F!Next, F!Abstract!Next

\* write_file_atomically implements an atomic replacement.
THEOREM FileRefinement == F!Spec => ImplementsAtomicReplace
  BY FileInitRefines, FileNextRefines, FileInvariance, PTL
  DEF F!Spec, ReplacedOrUntouched, ImplementsAtomicReplace, F!ImplementsAtomicReplace,
      F!Abstract!Spec
=============================================================================
