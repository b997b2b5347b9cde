---------------------------- MODULE ChallengeMap -----------------------------
(***************************************************************************)
(* What the passkey ceremonies of AdminAuth rely on: a name has at most    *)
(* one challenge, a new one replaces it, a challenge that is taken is gone *)
(* for everybody else, and any challenge may vanish.                       *)
(***************************************************************************)
EXTENDS Naturals

CONSTANTS Keys, Values

VARIABLES challenges, taken

vars == <<challenges, taken>>

Init == challenges = {} /\ taken = {}

Of(key) == {c \in challenges : c.key = key}

Start ==
  \E key \in Keys, val \in Values : \E gone \in SUBSET challenges :
    /\ \A c \in challenges : c.val # val
    /\ val \notin taken
    /\ \/ challenges' = (challenges \ (gone \cup Of(key))) \cup {[key |-> key, val |-> val]}
       \/ challenges' = challenges \ (gone \cup Of(key))
    /\ UNCHANGED taken

\* Returned to one caller only.
Take ==
  \E c \in challenges :
    /\ c.val \notin taken
    /\ challenges' = challenges \ {c}
    /\ taken' = taken \cup {c.val}

Vanish ==
  /\ challenges' \in SUBSET challenges
  /\ UNCHANGED taken

Next == Start \/ Take \/ Vanish

Spec == Init /\ [][Next]_vars
=============================================================================
