------------------------------- MODULE Journal -------------------------------
(***************************************************************************)
(* What history/request_log.hpp promises of the CSV file: "every recorded  *)
(* event is also appended to that CSV file so history survives a restart". *)
(* Events wait in `unsaved` and move to the file from the front.  A run    *)
(* that ends in order leaves none behind; a crash may, and so may a run    *)
(* whose output failed.                                                    *)
(***************************************************************************)
EXTENDS Integers, Sequences

CONSTANT Events

VARIABLES
  phase,   \* "open" in a run, else how the last one ended
  sound,   \* the run's output has not failed
  unsaved, \* recorded events the file does not hold yet
  file     \* lines of the CSV file, which survive the run, by the events whose
           \* rows end them

vars == <<phase, sound, unsaved, file>>

Init == phase = "closed" /\ sound = TRUE /\ unsaved = <<>> /\ file = <<>>

Start ==
  /\ phase # "open" /\ phase' = "open"
  /\ UNCHANGED <<sound, unsaved, file>>

Record ==
  /\ phase = "open"
  /\ \E e \in Events : unsaved' = Append(unsaved, e)
  /\ UNCHANGED <<phase, sound, file>>

\* The oldest unsaved event leaves for the file, or for nowhere once the
\* output failed.
Save ==
  /\ phase = "open" /\ unsaved # <<>>
  /\ unsaved' = Tail(unsaved)
  /\ file' = IF sound THEN Append(file, Head(unsaved)) ELSE file
  /\ UNCHANGED <<phase, sound>>

Fail ==
  /\ phase = "open" /\ sound' = FALSE
  /\ UNCHANGED <<phase, unsaved, file>>

Close ==
  /\ phase = "open" /\ phase' = "closed"
  /\ sound => unsaved = <<>>
  /\ unsaved' = <<>> /\ sound' = TRUE
  /\ UNCHANGED file

Crash ==
  /\ phase = "open" /\ phase' = "crashed"
  /\ unsaved' = <<>> /\ sound' = TRUE
  /\ UNCHANGED file

Next == Start \/ Record \/ Save \/ Fail \/ Close \/ Crash

Spec == Init /\ [][Next]_vars
=============================================================================
