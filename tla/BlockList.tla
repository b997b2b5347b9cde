------------------------------ MODULE BlockList ------------------------------
(***************************************************************************)
(* What the temporary block list promises its callers: a block is in force *)
(* from the add that stores it until it expires, is removed or is replaced *)
(* by the next add for the same key.  When lapsed blocks are forgotten is  *)
(* left open, and no answer may depend on it.                              *)
(***************************************************************************)
EXTENDS Integers

CONSTANTS
  Callers,    \* threads with a call in progress
  Addrs,      \* IP addresses
  Cidrs,      \* texts of CIDR ranges
  Covers,     \* the addresses each range holds
  MaxTime,    \* bound on the clock and on expiry times
  NoReply

VARIABLES
  clock,      \* the system clock
  calls,      \* the call each caller is in
  reply,      \* what the last step returned to its caller
  blocks      \* the blocks stored, at most one for a key

vars == <<clock, calls, reply, blocks>>

Keys == Addrs \cup Cidrs
Times == 0..MaxTime
Idle == [op |-> "idle"]

Call ==
  {Idle}
    \cup [op : {"add"}, key : Keys, expires : Times, now : Times]
    \cup [op : {"remove"}, key : Keys]
    \cup [op : {"is_blocked"}, ip : Addrs, now : Times]
    \cup [op : {"list_active"}, now : Times]

Block == [key : Keys, expires : Times]

\* A key covers the address it is, or the addresses of its range.
Matches(key, ip) == key = ip \/ (key \in Cidrs /\ ip \in Covers[key])

InForce(t) == {b \in blocks : b.expires > t}

Blocking(t, ip) == \E b \in InForce(t) : Matches(b.key, ip)

Init ==
  /\ clock = 0
  /\ calls = [c \in Callers |-> Idle]
  /\ reply = NoReply
  /\ blocks = {}

Tick ==
  /\ clock < MaxTime /\ clock' = clock + 1
  /\ reply' = NoReply
  /\ UNCHANGED <<calls, blocks>>

\* Blocks that have lapsed may be forgotten by any call that changes the list.
Forgetting == {gone \in SUBSET blocks : \A b \in gone : b.expires <= clock}

Enter(c) ==
  /\ calls[c] = Idle
  /\ \E call \in Call \ {Idle} : calls' = [calls EXCEPT ![c] = call]
  /\ reply' = NoReply
  /\ UNCHANGED <<clock, blocks>>

Return(c) == calls' = [calls EXCEPT ![c] = Idle]

Add(c) ==
  /\ calls[c].op = "add"
  /\ \E gone \in Forgetting :
       blocks' = {b \in blocks \ gone : b.key # calls[c].key}
                   \cup {[key |-> calls[c].key, expires |-> calls[c].expires]}
  /\ reply' = NoReply
  /\ Return(c) /\ UNCHANGED clock

\* Whether a lapsed block is still there to be removed is left open.
Remove(c) ==
  /\ calls[c].op = "remove"
  /\ blocks' = {b \in blocks : b.key # calls[c].key}
  /\ \E answer \in BOOLEAN :
       /\ (\E b \in InForce(clock) : b.key = calls[c].key) => answer
       /\ answer => blocks' # blocks
       /\ reply' = [answer |-> answer]
  /\ Return(c) /\ UNCHANGED clock

\* A block in force when the answer is given is seen; one that had lapsed
\* when the call was made is not.
IsBlocked(c) ==
  /\ calls[c].op = "is_blocked"
  /\ \E answer \in BOOLEAN :
       /\ Blocking(clock, calls[c].ip) => answer
       /\ answer => Blocking(calls[c].now, calls[c].ip)
       /\ reply' = [answer |-> answer]
  /\ Return(c) /\ UNCHANGED <<clock, blocks>>

\* The listing has every block in force and none that had lapsed at the call.
ListActive(c) ==
  /\ calls[c].op = "list_active"
  /\ \E gone \in Forgetting : blocks' = blocks \ gone
  /\ \E listed \in SUBSET InForce(calls[c].now) :
       /\ InForce(clock) \subseteq listed
       /\ reply' = [listed |-> listed]
  /\ Return(c) /\ UNCHANGED clock

Next ==
  \/ Tick
  \/ \E c \in Callers : Enter(c) \/ Add(c) \/ Remove(c) \/ IsBlocked(c) \/ ListActive(c)

Spec == Init /\ [][Next]_vars
=============================================================================
