----------------------------- MODULE ConfigStore -----------------------------
(***************************************************************************)
(* config/config_store.cpp: the holder of the one RuntimeConfig.  Admin    *)
(* handlers call update() from any worker thread, one coroutine polls the  *)
(* file every two seconds, one writer thread persists published snapshots, *)
(* an operator edits the file by hand, and the process may be stopped or   *)
(* may crash at any point.                                                 *)
(*                                                                         *)
(* A configuration is abstracted to the set of changes it contains: the    *)
(* mutations of the update() calls and the hand edits it was derived from. *)
(* The empty set is RuntimeConfig{}, the defaults.                         *)
(***************************************************************************)
EXTENDS Naturals

CONSTANTS
  Updates,    \* the update() calls made by admin handlers, each made once
  Edits,      \* the hand edits an operator makes to the file, each made once
  None,       \* no save of a hand edit is in progress
  Absent,     \* file content: there is no file at path_
  Garbage     \* file content: parse_yaml_config throws on it

Config == SUBSET (Updates \cup Edits)

ASSUME ConfigStoreAssumption ==
  /\ Updates \cap Edits = {}
  /\ \A cfg \in Config : None # cfg /\ Absent # cfg /\ Garbage # cfg
  /\ Absent # Garbage

VARIABLES
  proc,       \* "down", "loading", "up", "stopping", "draining", "exited"
  current,    \* current_, guarded by mutex_
  last_mtime, \* last_mtime_, guarded by mutex_
  pending,    \* pending_write_ and stop_, guarded by writer_mutex_
  to_write,   \* the snapshot writer_loop took, Null while it waits
  wpc,        \* where writer_loop is: "wait", "write", "stamp"
  pc,         \* where each update() call is
  copy,       \* `updated`, the copy an update() call mutates
  ppc,        \* where poll_for_external_changes is
  pmtime,     \* its local `mtime`
  pcfg,       \* its local `config`
  file,       \* the file at path_: its content and its mtime
  twin,       \* its last write fell into the tick of the write before
  editing,    \* the content an operator's editor is about to save, or None
  saved       \* the hand edits made so far

(***************************************************************************)
(* History variables: read by the properties only.                         *)
(*   pub, num  how many snapshots were published; the number of the one    *)
(*             each update() call published                                *)
(*   enq       the number of the newest snapshot put into pending_write_   *)
(*   attempted the number of the newest snapshot write_to_disk was given   *)
(*   dropped   the number of the newest snapshot whose write failed        *)
(*   raced     a reload replaced current_ since the last update() copied it *)
(*   stamped   who wrote last_mtime_ last                                  *)
(*   loaded    the configuration the last reload put into current_         *)
(*   applied   the hand edits that were ever part of current_              *)
(***************************************************************************)
VARIABLES pub, num, enq, attempted, dropped, raced, stamped, loaded, applied

memory  == <<current, last_mtime, pending>>
writer  == <<to_write, wpc>>
callers == <<pc, copy>>
poller  == <<ppc, pmtime, pcfg>>
disk    == <<file, twin, editing, saved>>
history == <<pub, num, enq, attempted, dropped, raced, stamped, loaded, applied>>
vars    == <<proc, memory, writer, callers, poller, disk, history>>

\* A published snapshot and its publication number, from 1; Null is the
\* null shared_ptr.
Snapshot == [cfg : Config, n : Nat]
Null == [cfg |-> {}, n |-> 0]

TypeOK ==
  /\ proc \in {"down", "loading", "up", "stopping", "draining", "exited"}
  /\ current \in Config
  /\ last_mtime \in Nat
  /\ pending \in Snapshot
  /\ to_write \in Snapshot
  /\ wpc \in {"wait", "write", "stamp"}
  /\ pc \in [Updates -> {"new", "mutate", "enqueue", "done", "gone"}]
  /\ copy \in [Updates -> Config]
  /\ ppc \in {"idle", "compare", "read", "swap"}
  /\ pmtime \in Nat
  /\ pcfg \in Config
  /\ file \in [content : {Absent, Garbage} \cup Config, mtime : Nat]
  /\ twin \in BOOLEAN
  /\ editing \in {None} \cup Config
  /\ saved \in SUBSET Edits
  /\ pub \in Nat
  /\ num \in [Updates -> Nat]
  /\ enq \in Nat
  /\ attempted \in Nat
  /\ dropped \in Nat
  /\ raced \in BOOLEAN
  /\ stamped \in {"load", "poll", "writer"}
  /\ loaded \in Config
  /\ applied \in SUBSET Edits

Init ==
  /\ proc = "down"
  /\ current = {} /\ last_mtime = 0
  /\ pending = Null /\ to_write = Null /\ wpc = "wait"
  /\ pc = [u \in Updates |-> "new"] /\ copy = [u \in Updates |-> {}]
  /\ ppc = "idle" /\ pmtime = 0 /\ pcfg = {}
  /\ file = [content |-> Absent, mtime |-> 1] /\ twin = FALSE
  /\ editing = None /\ saved = {}
  /\ pub = 0 /\ num = [u \in Updates |-> 0] /\ enq = 0 /\ attempted = 0 /\ dropped = 0
  /\ raced = FALSE /\ stamped = "load" /\ loaded = {} /\ applied = {}

-----------------------------------------------------------------------------
(***************************************************************************)
(* A write of the file.  The file system stamps it with the tick of a      *)
(* clock: of two writes close together the second leaves the mtime as it   *)
(* is.                                                                     *)
(***************************************************************************)
Write(content) ==
  \E tick \in 0..1 :
    /\ file' = [content |-> content, mtime |-> file.mtime + tick]
    /\ twin' = (tick = 0)

(***************************************************************************)
(* What an ifstream on path_ and parse_yaml_config yield when they do not  *)
(* throw: a file that is not there reads as the empty text, and the empty  *)
(* text parses as the defaults.                                            *)
(***************************************************************************)
Parsed(content) == IF content = Absent THEN {} ELSE content

-----------------------------------------------------------------------------
(***************************************************************************)
(* load_or_create(), called once by main before any other thread runs.     *)
(* write_to_disk and the read are one step: nothing of this process runs   *)
(* next to them; the operator may act between the read and the last line.  *)
(***************************************************************************)
LoadRead ==
  /\ proc \in {"down", "exited"}
  /\ file.content # Garbage
  /\ proc' = "loading"
  /\ IF file.content = Absent THEN Write({}) ELSE UNCHANGED <<file, twin>>
  /\ pcfg' = Parsed(file.content)
  /\ UNCHANGED <<memory, writer, callers, ppc, pmtime, editing, saved, history>>

LoadPublish ==
  /\ proc = "loading"
  /\ file.content # Absent
  /\ proc' = "up"
  /\ current' = pcfg
  /\ last_mtime' = file.mtime
  /\ stamped' = "load" /\ loaded' = pcfg
  /\ applied' = applied \cup (pcfg \cap Edits)
  /\ UNCHANGED <<pending, writer, callers, poller, disk, pub, num, enq, attempted, dropped, raced>>

\* last_write_time throws, main returns 1.
LoadFail ==
  /\ proc = "loading"
  /\ file.content = Absent
  /\ proc' = "down"
  /\ UNCHANGED <<memory, writer, callers, poller, disk, history>>

-----------------------------------------------------------------------------
(***************************************************************************)
(* update().  write_mutex_ is held from the copy to the enqueue.           *)
(***************************************************************************)
WriteMutexFreeMutant == TRUE            \* mutant: write_mutex_ is not taken

WriteMutexFree == \A u \in Updates : pc[u] \notin {"mutate", "enqueue"}

UpdateCopy(u) ==
  /\ proc \in {"up", "stopping"} /\ pc[u] = "new" /\ WriteMutexFree
  /\ copy' = [copy EXCEPT ![u] = current]
  /\ pc' = [pc EXCEPT ![u] = "mutate"]
  /\ raced' = FALSE
  /\ UNCHANGED <<proc, memory, writer, poller, disk,
                 pub, num, enq, attempted, dropped, stamped, loaded, applied>>

\* The mutator throws (validation failure): update() unwinds.
UpdateThrow(u) ==
  /\ pc[u] = "mutate"
  /\ pc' = [pc EXCEPT ![u] = "gone"]
  /\ UNCHANGED <<proc, memory, writer, copy, poller, disk, history>>

UpdatePublish(u) ==
  /\ pc[u] = "mutate"
  /\ current' = copy[u] \cup {u}
  /\ applied' = applied \cup (copy[u] \cap Edits)
  /\ pub' = pub + 1 /\ num' = [num EXCEPT ![u] = pub + 1]
  /\ pc' = [pc EXCEPT ![u] = "enqueue"]
  /\ UNCHANGED <<proc, last_mtime, pending, writer, copy, poller, disk,
                 enq, attempted, dropped, raced, stamped, loaded>>

UpdateEnqueue(u) ==
  /\ pc[u] = "enqueue"
  /\ pending' = [cfg |-> copy[u] \cup {u}, n |-> num[u]]
  /\ enq' = num[u]
  /\ pc' = [pc EXCEPT ![u] = "done"]
  /\ UNCHANGED <<proc, current, last_mtime, writer, copy, poller, disk,
                 pub, num, attempted, dropped, raced, stamped, loaded, applied>>

-----------------------------------------------------------------------------
(***************************************************************************)
(* writer_loop().                                                          *)
(***************************************************************************)
Alive == proc \in {"up", "stopping", "draining"}

\* mutant: pending_write_ is reset before it is moved from
WriterTakeMutant ==
  /\ Alive /\ wpc = "wait" /\ pending # Null
  /\ pending' = Null
  /\ UNCHANGED <<proc, current, last_mtime, writer, callers, poller, disk, history>>

WriterTake ==
  /\ Alive /\ wpc = "wait" /\ pending # Null
  /\ to_write' = pending
  /\ pending' = Null
  /\ wpc' = "write"
  /\ UNCHANGED <<proc, current, last_mtime, callers, poller, disk, history>>

\* write_to_disk returned: the file was replaced in one step (AtomicFile).
WriterWrite ==
  /\ wpc = "write"
  /\ Write(to_write.cfg)
  /\ attempted' = to_write.n
  /\ wpc' = "stamp"
  /\ UNCHANGED <<proc, memory, to_write, callers, poller, editing, saved,
                 pub, num, enq, dropped, raced, stamped, loaded, applied>>

\* write_to_disk threw: logged, the snapshot is dropped, no retry.
WriterFail ==
  /\ wpc = "write"
  /\ attempted' = to_write.n /\ dropped' = to_write.n
  /\ to_write' = Null
  /\ wpc' = "wait"
  /\ UNCHANGED <<proc, memory, callers, poller, disk,
                 pub, num, enq, raced, stamped, loaded, applied>>

\* last_write_time throws when the file is gone; that is logged as well.
WriterStamp ==
  /\ wpc = "stamp"
  /\ last_mtime' = IF file.content = Absent THEN last_mtime ELSE file.mtime
  /\ stamped' = IF file.content = Absent THEN stamped ELSE "writer"
  /\ to_write' = Null
  /\ wpc' = "wait"
  /\ UNCHANGED <<proc, current, pending, callers, poller, disk,
                 pub, num, enq, attempted, dropped, raced, loaded, applied>>

-----------------------------------------------------------------------------
(***************************************************************************)
(* poll_for_external_changes(), called by run_config_poll_loop alone.      *)
(***************************************************************************)
PollStat ==
  /\ proc \in {"up", "stopping"} /\ ppc = "idle"
  /\ file.content # Absent      \* last_write_time reports ec: return
  /\ pmtime' = file.mtime
  /\ ppc' = "compare"
  /\ UNCHANGED <<proc, memory, writer, callers, pcfg, disk, history>>

PollCompare ==
  /\ ppc = "compare"
  /\ ppc' = IF pmtime = last_mtime THEN "idle" ELSE "read"
  /\ UNCHANGED <<proc, memory, writer, callers, pmtime, pcfg, disk, history>>

PollRead ==
  /\ ppc = "read"
  /\ file.content # Garbage
  /\ pcfg' = Parsed(file.content)
  /\ ppc' = "swap"
  /\ UNCHANGED <<proc, memory, writer, callers, pmtime, disk, history>>

\* parse_yaml_config throws: the edit is ignored, last_mtime_ is kept.
PollIgnore ==
  /\ ppc = "read"
  /\ file.content = Garbage
  /\ ppc' = "idle"
  /\ UNCHANGED <<proc, memory, writer, callers, pmtime, pcfg, disk, history>>

\* mutant: the mtime is read again when the reloaded config is published
PollSwapMutant ==
  /\ ppc = "swap"
  /\ current' = pcfg
  /\ last_mtime' = file.mtime
  /\ ppc' = "idle"
  /\ raced' = TRUE /\ stamped' = "poll" /\ loaded' = pcfg
  /\ applied' = applied \cup (pcfg \cap Edits)
  /\ UNCHANGED <<proc, pending, writer, callers, pmtime, pcfg, disk,
                 pub, num, enq, attempted, dropped>>

PollSwap ==
  /\ ppc = "swap"
  /\ current' = pcfg
  /\ last_mtime' = pmtime
  /\ ppc' = "idle"
  /\ raced' = TRUE /\ stamped' = "poll" /\ loaded' = pcfg
  /\ applied' = applied \cup (pcfg \cap Edits)
  /\ UNCHANGED <<proc, pending, writer, callers, pmtime, pcfg, disk,
                 pub, num, enq, attempted, dropped>>

-----------------------------------------------------------------------------
(***************************************************************************)
(* The operator's editor.  While it saves, the file may be missing, empty  *)
(* or half written; the saved file holds what was there and the edit.      *)
(***************************************************************************)
EditBegin(e, partial) ==
  /\ editing = None /\ e \notin saved
  /\ file.content \notin {Absent, Garbage}
  /\ editing' = file.content \cup {e}
  /\ Write(partial)
  /\ saved' = saved \cup {e}
  /\ UNCHANGED <<proc, memory, writer, callers, poller, history>>

EditEnd ==
  /\ editing # None
  /\ Write(editing)
  /\ editing' = None
  /\ UNCHANGED <<proc, memory, writer, callers, poller, saved, history>>

-----------------------------------------------------------------------------
(***************************************************************************)
(* The end of the process.  A crash (or std::exit in fatal_on_error) may   *)
(* come at any point and loses all but the file.  SIGINT and SIGTERM stop  *)
(* the io_context: running handlers finish, then ~ConfigStore sets stop_   *)
(* and joins the writer, which leaves its loop only with nothing pending.  *)
(***************************************************************************)
Forget ==
  /\ current' = {} /\ last_mtime' = 0 /\ pending' = Null
  /\ to_write' = Null /\ wpc' = "wait"
  /\ ppc' = "idle" /\ pmtime' = 0 /\ pcfg' = {}
  /\ copy' = [u \in Updates |-> {}] /\ num' = [u \in Updates |-> 0]
  /\ raced' = FALSE /\ stamped' = "load" /\ loaded' = {}
  /\ pc' = [u \in Updates |-> IF pc[u] = "new" THEN "new" ELSE "gone"]

Crash ==
  /\ proc \in {"loading", "up", "stopping", "draining"}
  /\ proc' = "down"
  /\ Forget
  /\ attempted' = enq       \* nothing of this process is left to persist
  /\ UNCHANGED <<disk, pub, enq, dropped, applied>>

Signal ==
  /\ proc = "up"
  /\ proc' = "stopping"
  /\ UNCHANGED <<memory, writer, callers, poller, disk, history>>

Destroy ==
  /\ proc = "stopping" /\ WriteMutexFree /\ ppc = "idle"
  /\ proc' = "draining"
  /\ UNCHANGED <<memory, writer, callers, poller, disk, history>>

WriterExit ==
  /\ proc = "draining" /\ wpc = "wait" /\ pending = Null
  /\ proc' = "exited"
  /\ Forget
  /\ UNCHANGED <<disk, pub, enq, attempted, dropped, applied>>

-----------------------------------------------------------------------------
Update(u) == UpdateCopy(u) \/ UpdateThrow(u) \/ UpdatePublish(u) \/ UpdateEnqueue(u)
Writer == WriterTake \/ WriterWrite \/ WriterFail \/ WriterStamp
Poll == PollStat \/ PollCompare \/ PollRead \/ PollIgnore \/ PollSwap
Operator == (\E e \in Edits, c \in {Absent, Garbage, {}} : EditBegin(e, c)) \/ EditEnd
Lifecycle == LoadRead \/ LoadPublish \/ LoadFail \/ Crash \/ Signal \/ Destroy \/ WriterExit

Next == (\E u \in Updates : Update(u)) \/ Writer \/ Poll \/ Operator \/ Lifecycle

Spec == Init /\ [][Next]_vars

(***************************************************************************)
(* The writer thread and the poll coroutine keep running: the writer       *)
(* blocks only on its condition variable, the poll loop re-arms its timer  *)
(* unconditionally.  Nothing obliges the operator, and update() calls end. *)
(***************************************************************************)
Fairness == WF_vars(Writer) /\ WF_vars(Poll) /\ \A u \in Updates : WF_vars(Update(u) /\ pc[u] # "new")

FairSpec == Spec /\ Fairness

-----------------------------------------------------------------------------
(***************************************************************************)
(* Properties                                                              *)
(***************************************************************************)

\* Two update() calls never clobber each other: what a call publishes
\* contains everything published before it, unless a reload from disk
\* replaced current_ after the call copied it (config_store.hpp, the
\* comment on write_mutex_).
UpdatesDoNotClobber ==
  [][\A u \in Updates :
       pc[u] = "mutate" /\ pc'[u] = "enqueue" /\ ~raced => current \subseteq current']_vars

\* Snapshots reach write_to_disk in the order they were published, however
\* update() calls, the coalescing slot pending_write_ and the writer
\* interleave: an older configuration never overwrites a newer one on disk.
SnapshotsReachDiskInOrder ==
  /\ attempted <= enq
  /\ to_write # Null => attempted <= to_write.n /\ to_write.n <= enq
  /\ wpc = "write" => attempted < to_write.n
  /\ pending # Null => pending.n = enq /\ attempted < enq
  /\ pending # Null /\ to_write # Null => to_write.n < pending.n

\* The newest snapshot put into pending_write_ was written.
Persisted == attempted = enq /\ dropped # enq

\* After a clean shutdown the newest published snapshot was written, or its
\* write failed and it is lost (writer_loop: "Drains any last pending
\* snapshot before exiting"); none was left behind in pending_write_.
DrainedOnExit == proc = "exited" => Persisted \/ dropped = enq

\* The poll never marks content as seen that it has not loaded: when
\* last_mtime_ was set by a reload and equals the file's mtime, the file
\* still holds what that reload put into current_, even when the file was
\* replaced between the stat, the read and the swap.  Two writes within one
\* tick are the exception: the second one is invisible to an mtime.
PollNeverSkipsAnEdit ==
  stamped = "poll" /\ last_mtime = file.mtime /\ ~twin /\ file.content # Absent
    => file.content = loaded

\* The writer never sleeps on work and no stream of updates starves the last
\* of them: a snapshot that was enqueued is written, or superseded by a newer
\* one that is, or its write fails, which is final (writer_loop logs and
\* drops it); nothing else but the death of the process can end it.
WriterKeepsUp == pending # Null ~> (Persisted \/ dropped = enq \/ proc = "down")

(***************************************************************************)
(* The inductive invariant behind the safety properties above.             *)
(***************************************************************************)
InUpdate(u) == pc[u] \in {"mutate", "enqueue"}

\* write_mutex_ excludes, and what its holder copied is current_ until it
\* publishes or a reload intervenes.
MutexInv ==
  /\ \A u, v \in Updates : InUpdate(u) /\ InUpdate(v) => u = v
  /\ \A u \in Updates : pc[u] = "mutate" /\ ~raced => copy[u] = current

\* A process that is not running holds nothing and runs nothing.
ProcInv ==
  proc \in {"down", "loading", "exited"} =>
    /\ pending = Null /\ wpc = "wait" /\ ppc = "idle" /\ stamped = "load"
    /\ \A u \in Updates : ~InUpdate(u)

\* What is enqueued and not yet attempted sits in pending_write_ or to_write.
WriterInv ==
  /\ enq <= pub
  /\ \A u \in Updates : pc[u] = "enqueue" => num[u] = pub /\ enq < pub
  /\ wpc = "write" => to_write.n > 0
  /\ pending = Null /\ wpc # "write" => attempted = enq
  /\ pending = Null /\ wpc = "write" => to_write.n = enq

\* The poll's local mtime and last_mtime_ are never ahead of the file, and
\* equal to it only if the file was not replaced since, save within its tick.
PollInv ==
  /\ last_mtime <= file.mtime
  /\ ppc # "idle" => pmtime <= file.mtime
  /\ ppc = "swap" /\ pmtime = file.mtime /\ ~twin => pcfg = Parsed(file.content)
  /\ file.mtime > 0

IInv == /\ TypeOK /\ MutexInv /\ ProcInv /\ WriterInv /\ PollInv
        /\ SnapshotsReachDiskInOrder /\ PollNeverSkipsAnEdit

-----------------------------------------------------------------------------
(***************************************************************************)
(* What the comments say and the code does not do (violation runs).        *)
(***************************************************************************)

\* "The in-memory snapshot is always authoritative for readers": what an
\* update() call that returned published stays part of current_.
AcknowledgedUpdateStays ==
  Alive => \A u \in Updates : pc[u] = "done" => u \in current

\* "disk just catches up shortly after": what update() published, or what
\* superseded it, is written as long as the process lives, a write that
\* fails notwithstanding.
DiskCatchesUp == pending # Null ~> (Persisted \/ proc = "down")

=============================================================================
