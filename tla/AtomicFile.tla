----------------------------- MODULE AtomicFile ------------------------------
(***************************************************************************)
(* util/atomic_file.cpp, write_file_atomically: one system call per step,  *)
(* each of which may fail, with process crashes and power losses between   *)
(* them.  Each path has one caller at a time: the writer thread of         *)
(* ConfigStore, and UserStore under its mutex.                             *)
(*                                                                         *)
(* A file is a record: which content it holds, how many of that content's  *)
(* Size units have been written, and its permission bits.                  *)
(***************************************************************************)
EXTENDS Naturals

CONSTANTS
  Values,     \* the contents callers write
  Modes,      \* permission bits
  Size,       \* how many write() units a content has
  NoFile      \* there is no such file

\* Assumed by SharedFile, where the constants get their values.
Bounds ==
  /\ Size \in Nat \ {0}
  /\ NoFile \notin Values
  /\ \A v \in Values, n \in 0..Size, m \in Modes :
       NoFile # [val |-> v, len |-> n, mode |-> m]

File == [val : Values, len : 0..Size, mode : Modes]

VARIABLES
  path,       \* the file at `path` as a reader sees it
  tmp,        \* the file at `path` + ".tmp"
  pc,         \* the next system call of the running call, "idle" between calls
  arg,        \* `contents`
  mode,       \* `mode`, after the stat for ExistingFileMode::Preserve
  flushed,    \* fsync(tmp.fd) succeeded in this call
  fallback,   \* the earlier files at `path` a power loss may bring back
  onDisk,     \* the content of `path` is on disk in full
  before,     \* history: `path` when the running or last call began
  result      \* history: how the last call ended

vars == <<path, tmp, pc, arg, mode, flushed, fallback, onDisk, before, result>>

TypeOK ==
  /\ path \in {NoFile} \cup File
  /\ tmp \in {NoFile} \cup File
  /\ pc \in {"idle", "open", "fchmod", "write", "fsync", "close", "rename", "dirsync"}
  /\ arg \in Values
  /\ mode \in Modes
  /\ flushed \in BOOLEAN
  /\ fallback \in SUBSET ({NoFile} \cup File)
  /\ onDisk \in BOOLEAN
  /\ before \in {NoFile} \cup File
  /\ result \in {"none", "returned", "threw", "littered", "crashed"}

Complete == {NoFile} \cup {f \in File : f.len = Size}

\* A temp file of an earlier, crashed run may be lying around.
Init ==
  /\ path \in Complete
  /\ tmp \in {NoFile} \cup File
  /\ pc = "idle" /\ arg \in Values /\ mode \in Modes /\ flushed = FALSE
  /\ fallback = {} /\ onDisk = TRUE /\ before = path /\ result = "none"

-----------------------------------------------------------------------------
\* Entry and the stat for ExistingFileMode::Preserve.
Call(v, m, preserve) ==
  /\ pc = "idle"
  /\ arg' = v
  /\ mode' = IF preserve /\ path # NoFile THEN path.mode ELSE m
  /\ before' = path /\ result' = "none" /\ flushed' = FALSE
  /\ pc' = "open"
  /\ UNCHANGED <<path, tmp, fallback, onDisk>>

\* open(O_CREAT | O_TRUNC): a new file has mode & ~umask, a stale one keeps
\* its own bits.
Open(m) ==
  /\ pc = "open"
  /\ tmp' = [val |-> arg, len |-> 0, mode |-> IF tmp = NoFile THEN m ELSE tmp.mode]
  /\ pc' = "fchmod"
  /\ UNCHANGED <<path, arg, mode, flushed, fallback, onDisk, before, result>>

\* mutant: the permissions of the temp file are left to open()
FchmodMutant ==
  /\ pc = "fchmod"
  /\ pc' = "write"
  /\ UNCHANGED <<path, tmp, arg, mode, flushed, fallback, onDisk, before, result>>

Fchmod ==
  /\ pc = "fchmod"
  /\ tmp' = [tmp EXCEPT !.mode = mode]
  /\ pc' = "write"
  /\ UNCHANGED <<path, arg, mode, flushed, fallback, onDisk, before, result>>

\* write() takes any positive part of what remains; EINTR retries (a stutter).
Write(n) ==
  /\ pc = "write" /\ tmp.len < Size
  /\ n \in 1..(Size - tmp.len)
  /\ tmp' = [tmp EXCEPT !.len = @ + n]
  /\ UNCHANGED <<path, pc, arg, mode, flushed, fallback, onDisk, before, result>>

\* mutant: a short write is taken for a complete one
WrittenMutant == pc = "write"

Written == pc = "write" /\ tmp.len = Size

WriteDone ==
  /\ Written
  /\ pc' = "fsync"
  /\ UNCHANGED <<path, tmp, arg, mode, flushed, fallback, onDisk, before, result>>

\* mutant: the temp file is not flushed before the rename
FsyncMutant ==
  /\ pc = "fsync"
  /\ pc' = "close"
  /\ UNCHANGED <<path, tmp, arg, mode, flushed, fallback, onDisk, before, result>>

Fsync ==
  /\ pc = "fsync"
  /\ flushed' = TRUE
  /\ pc' = "close"
  /\ UNCHANGED <<path, tmp, arg, mode, fallback, onDisk, before, result>>

Close ==
  /\ pc = "close"
  /\ pc' = "rename"
  /\ UNCHANGED <<path, tmp, arg, mode, flushed, fallback, onDisk, before, result>>

Rename ==
  /\ pc = "rename"
  /\ path' = tmp /\ onDisk' = flushed
  /\ fallback' = fallback \cup {path}
  /\ tmp' = NoFile
  /\ pc' = "dirsync"
  /\ UNCHANGED <<arg, mode, flushed, before, result>>

\* The directory is opened and flushed, whatever comes of it; return.
DirSync(ok) ==
  /\ pc = "dirsync"
  /\ fallback' = IF ok THEN {} ELSE fallback
  /\ pc' = "idle" /\ result' = "returned"
  /\ UNCHANGED <<path, tmp, arg, mode, flushed, onDisk, before>>

\* The calls before the rename has put the temp file in place.
Unlinked == {"open", "fchmod", "write", "fsync", "close", "rename"}

\* Any system call up to the rename fails: throw_errno, then ~TempFile closes
\* and unlinks whatever is at tmp.path, without looking at what unlink says.
Fail(unlinked) ==
  /\ pc \in Unlinked
  /\ tmp' = IF unlinked THEN NoFile ELSE tmp
  /\ pc' = "idle" /\ result' = IF unlinked THEN "threw" ELSE "littered"
  /\ UNCHANGED <<path, arg, mode, flushed, fallback, onDisk, before>>

-----------------------------------------------------------------------------
\* The process dies; the kernel's view of the files is unaffected.
ProcessCrash ==
  /\ pc # "idle"
  /\ pc' = "idle" /\ result' = "crashed"
  /\ UNCHANGED <<path, tmp, arg, mode, flushed, fallback, onDisk, before>>

\* What may be left of a file after a power loss: all of it if it was
\* flushed, else any part of it.
Surviving(f, whole) ==
  IF whole \/ f = NoFile THEN {f} ELSE {[f EXCEPT !.len = n] : n \in 0..f.len}

PowerLoss ==
  /\ path' \in fallback \cup Surviving(path, onDisk)
  /\ tmp' \in {NoFile} \cup Surviving(tmp, FALSE)
  /\ pc' = "idle" /\ result' = "crashed"
  /\ fallback' = {} /\ onDisk' = TRUE
  /\ UNCHANGED <<arg, mode, flushed, before>>

Next ==
  \/ \E v \in Values, m \in Modes, preserve \in BOOLEAN : Call(v, m, preserve)
  \/ \E m \in Modes : Open(m)
  \/ Fchmod
  \/ \E n \in 1..Size : Write(n)
  \/ WriteDone \/ Fsync \/ Close \/ Rename
  \/ \E ok \in BOOLEAN : DirSync(ok)
  \/ \E unlinked \in BOOLEAN : Fail(unlinked)
  \/ ProcessCrash \/ PowerLoss

Spec == Init /\ [][Next]_vars

-----------------------------------------------------------------------------
(***************************************************************************)
(* Properties                                                              *)
(***************************************************************************)

\* "neither a reader nor a crash ever sees a partial file": at every moment,
\* and after every crash between two system calls, the file at `path` and
\* every file a power loss could bring back there is complete.
NeverPartial ==
  \A f \in {path} \cup fallback \cup Surviving(path, onDisk) : f = NoFile \/ f.len = Size

\* A call that threw left `path` untouched, whichever system call failed and
\* whatever temp file it found, and no temp file behind unless the unlink in
\* ~TempFile failed as well.
FailureIsUndone ==
  /\ result \in {"threw", "littered"} => path = before
  /\ result = "threw" => tmp = NoFile

\* The temp file never holds any of the contents under permissions other
\* than the ones the file is to have, even when open() found a stale temp
\* file with its own; a call that returned left exactly those on `path`.
NeverMorePermissive ==
  /\ pc \in {"write", "fsync", "close", "rename"} /\ tmp.len > 0 => tmp.mode = mode
  /\ pc = "dirsync" => path.mode = mode

(***************************************************************************)
(* The inductive invariant behind the three properties above.              *)
(***************************************************************************)
CallInv ==
  /\ pc \in Unlinked => path = before
  /\ pc # "idle" => result = "none"
  /\ pc \in Unlinked \ {"open"} => tmp # NoFile /\ tmp.val = arg
  /\ pc \in Unlinked \ {"open", "fchmod"} => tmp.mode = mode
  /\ pc \in {"fsync", "close", "rename"} => tmp.len = Size
  /\ pc \in {"close", "rename"} => flushed
  /\ pc = "dirsync" => path # NoFile /\ path.mode = mode
  /\ onDisk

IInv == TypeOK /\ CallInv /\ path \in Complete /\ fallback \subseteq Complete /\ FailureIsUndone

(***************************************************************************)
(* The call implements an atomic replacement.                              *)
(***************************************************************************)
Seen(f) == IF f # NoFile /\ f.len = Size THEN f.val ELSE f

Abstract == INSTANCE AtomicReplace WITH
  content  <- Seen(path),
  fallback <- {Seen(f) : f \in fallback},
  call     <- CASE pc = "idle" -> "idle" [] pc = "dirsync" -> "replaced" [] OTHER -> "pending"

\* Every system call of write_file_atomically is invisible except the rename.
ImplementsAtomicReplace == Abstract!Spec

=============================================================================
