---------------------------- MODULE AtomicReplace ----------------------------
(***************************************************************************)
(* What write_file_atomically promises its callers (util/atomic_file.hpp): *)
(* the file holds one complete content at a time; a call replaces it in a  *)
(* single step or not at all; a power loss may undo replacements that are  *)
(* not yet settled, but only back to a complete content before them.       *)
(***************************************************************************)
CONSTANTS Values, NoFile

VARIABLES
  content,    \* what a reader of the path sees
  fallback,   \* the earlier contents a power loss may bring back
  call        \* "idle", "pending" (nothing replaced yet) or "replaced"

Init == content \in Values \cup {NoFile} /\ fallback = {} /\ call = "idle"

Begin == call = "idle" /\ call' = "pending" /\ UNCHANGED <<content, fallback>>

Replace(v) ==
  /\ call = "pending" /\ call' = "replaced"
  /\ content' = v
  /\ fallback' = fallback \cup {content}

\* An exception: only a call that has not replaced the file may throw.
Throw == call = "pending" /\ call' = "idle" /\ UNCHANGED <<content, fallback>>

\* The replacement may or may not be settled when the call returns.
Return ==
  /\ call = "replaced" /\ call' = "idle"
  /\ fallback' \in {fallback, {}}
  /\ UNCHANGED content

Crash ==
  /\ call' = "idle"
  /\ \/ UNCHANGED <<content, fallback>>                      \* the process dies
     \/ content' \in fallback \cup {content} /\ fallback' = {} \* the power fails

Next == (\E v \in Values : Replace(v)) \/ Begin \/ Throw \/ Return \/ Crash

Spec == Init /\ [][Next]_<<content, fallback, call>>
=============================================================================
