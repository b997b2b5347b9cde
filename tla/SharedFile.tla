------------------------------ MODULE SharedFile ------------------------------
(***************************************************************************)
(* AtomicFile as a part of a larger state, with names of its own, and the  *)
(* properties stated of it there.                                          *)
(***************************************************************************)
EXTENDS Naturals

CONSTANTS Values, Modes, Size, NoFile

VARIABLES path, tmp, syscall, arg, mode, flushed, fallback, onDisk, before, result

F == INSTANCE AtomicFile WITH pc <- syscall

ASSUME AtomicFileAssumption == F!Bounds

fileVars == <<path, tmp, syscall, arg, mode, flushed, fallback, onDisk, before, result>>

\* Between any two system calls of write_file_atomically, the file at `path` and
\* all a power loss may bring back there are complete, and a call that threw
\* has left `path` as it was and at most a temp file it could not unlink.
ReplacedOrUntouched == F!IInv

\* The contents are never stored under other permissions than the final ones.
NeverMorePermissive == F!NeverMorePermissive

\* Every system call of write_file_atomically is invisible except the rename.
ImplementsAtomicReplace == F!ImplementsAtomicReplace
=============================================================================
