--------------------------- MODULE IpBlockTracker ----------------------------
(***************************************************************************)
(* history/ip_block_tracker.cpp: the temporary IP and CIDR blocks, manual  *)
(* and automatic.  add, is_blocked and list_active read the clock BEFORE   *)
(* they take mutex_, so each call is two steps: Enter, with the time it    *)
(* read, and the step under the lock, which other calls may overtake.      *)
(***************************************************************************)
EXTENDS Integers

CONSTANTS
  Callers,       \* threads: connection handlers and admin handlers
  Addrs,         \* IP addresses
  Cidrs,         \* texts of CIDR ranges
  Covers,        \* address_in_cidr: the addresses each range holds
  PruneInterval, \* prune_interval_
  MaxTime,       \* bound on the clock and on expiry times
  NoReply

ASSUME IpBlockTrackerAssumption ==
  /\ MaxTime \in Nat /\ PruneInterval \in Nat
  /\ Covers \in [Cidrs -> SUBSET Addrs] /\ Addrs \cap Cidrs = {}

VARIABLES
  clock,      \* system_clock::now(); only moves forward here
  calls,      \* the call each caller is in
  reply,      \* what the last step returned to its caller
  exact,      \* exact_: entries by address
  cidrs,      \* cidrs_: entries by text
  last_prune  \* last_prune_

vars == <<clock, calls, reply, exact, cidrs, last_prune>>

\* The blocks that a set of entries stands for.
Plain(entries) == {[key |-> e.key, expires |-> e.expires] : e \in entries}

List == INSTANCE BlockList WITH blocks <- Plain(exact \cup cidrs)

Keys == Addrs \cup Cidrs
Times == 0..MaxTime

\* An entry; `at` is when it was stored, which only properties look at.
Entry == [key : Keys, expires : Times, at : Times]

TypeOK ==
  /\ clock \in Times
  /\ calls \in [Callers -> List!Call]
  /\ exact \subseteq Entry /\ \A e \in exact : e.key \in Addrs
  /\ cidrs \subseteq Entry /\ \A e \in cidrs : e.key \in Cidrs
  /\ last_prune \in Times

Init ==
  /\ clock = 0
  /\ calls = [c \in Callers |-> List!Idle]
  /\ reply = NoReply
  /\ exact = {} /\ cidrs = {}
  /\ last_prune = 0

Tick ==
  /\ clock < MaxTime /\ clock' = clock + 1
  /\ reply' = NoReply
  /\ UNCHANGED <<calls, exact, cidrs, last_prune>>

-----------------------------------------------------------------------------
Begin(c, call) ==
  /\ calls[c] = List!Idle
  /\ calls' = [calls EXCEPT ![c] = call]
  /\ reply' = NoReply
  /\ UNCHANGED <<clock, exact, cidrs, last_prune>>

\* add: the block was built earlier, by award_score or an admin handler, so
\* it may even have lapsed; the clock is read before the lock.
EnterAdd(c) ==
  \E key \in Keys, expires \in Times :
    Begin(c, [op |-> "add", key |-> key, expires |-> expires, now |-> clock])

EnterRemove(c) == \E key \in Keys : Begin(c, [op |-> "remove", key |-> key])

EnterIsBlocked(c) == \E ip \in Addrs : Begin(c, [op |-> "is_blocked", ip |-> ip, now |-> clock])

EnterListActive(c) == Begin(c, [op |-> "list_active", now |-> clock])

\* mutant: entries that expire within the prune interval are dropped early
PruneMutant(entries, now) == {e \in entries : e.expires > now + PruneInterval}

\* prune_expired_locked on one of the two containers.
Prune(entries, now) == {e \in entries : e.expires > now}

\* mutant: last_prune_ starts out as the time of the first insert
PruneDueMutant(now) == last_prune > 0 /\ now - last_prune >= PruneInterval

PruneDue(now) == now - last_prune >= PruneInterval

\* What add finds in a container after its throttled prune.
Kept(entries, now) == IF PruneDue(now) THEN Prune(entries, now) ELSE entries

\* mutant: push_back without the erase_if before it
ReplacingMutant(entries, e) == entries \cup {e}

\* exact_[address] = block, and erase_if by text then push_back: the entry
\* under the key is replaced.
Replacing(entries, e) == {old \in entries : old.key # e.key} \cup {e}

Return(c) == calls' = [calls EXCEPT ![c] = List!Idle]

Add(c) ==
  /\ calls[c].op = "add"
  /\ LET now == calls[c].now
         e   == [key |-> calls[c].key, expires |-> calls[c].expires, at |-> clock]
     IN  /\ last_prune' = IF PruneDue(now) THEN now ELSE last_prune
         /\ IF e.key \in Addrs
            THEN exact' = Replacing(Kept(exact, now), e) /\ cidrs' = Kept(cidrs, now)
            ELSE exact' = Kept(exact, now) /\ cidrs' = Replacing(Kept(cidrs, now), e)
  /\ reply' = NoReply
  /\ Return(c) /\ UNCHANGED clock

\* remove: a text that parses as an address is looked up in exact_, any other
\* among the texts of cidrs_.
Remove(c) ==
  /\ calls[c].op = "remove"
  /\ LET key == calls[c].key
     IN  IF key \in Addrs
         THEN exact' = {e \in exact : e.key # key} /\ UNCHANGED cidrs
         ELSE cidrs' = {e \in cidrs : e.key # key} /\ UNCHANGED exact
  /\ reply' = [answer |-> exact' # exact \/ cidrs' # cidrs]
  /\ Return(c) /\ UNCHANGED <<clock, last_prune>>

IsBlocked(c) ==
  /\ calls[c].op = "is_blocked"
  /\ LET now == calls[c].now
         ip  == calls[c].ip
     IN  reply' = [answer |->
           \/ \E e \in exact : e.key = ip /\ e.expires > now
           \/ \E e \in cidrs : e.expires > now /\ ip \in Covers[e.key]]
  /\ Return(c) /\ UNCHANGED <<clock, exact, cidrs, last_prune>>

\* The listing is sorted for display; what it holds is a set.
ListActive(c) ==
  /\ calls[c].op = "list_active"
  /\ LET now == calls[c].now
     IN  /\ exact' = Prune(exact, now) /\ cidrs' = Prune(cidrs, now)
         /\ last_prune' = now
         /\ reply' = [listed |-> Plain(exact' \cup cidrs')]
  /\ Return(c) /\ UNCHANGED clock

Next ==
  \/ Tick
  \/ \E c \in Callers :
       \/ EnterAdd(c) \/ EnterRemove(c) \/ EnterIsBlocked(c) \/ EnterListActive(c)
       \/ Add(c) \/ Remove(c) \/ IsBlocked(c) \/ ListActive(c)

Spec == Init /\ [][Next]_vars

-----------------------------------------------------------------------------
(***************************************************************************)
(* Properties                                                              *)
(***************************************************************************)

\* No key ever has two entries, so the last add for a key decides and one
\* remove() lifts the block.
OneEntryPerKey ==
  /\ \A e, f \in exact : e.key = f.key => e = f
  /\ \A e, f \in cidrs : e.key = f.key => e = f

\* "drops expired entries on insert, so ban waves can't pile up": no insert
\* leaves an entry behind that had both lapsed and been stored a full prune
\* interval before it, although calls may overtake each other and last_prune_
\* may move back.
NoPileUp ==
  [][\A c \in Callers :
       calls[c].op = "add" /\ calls'[c] = List!Idle =>
         \A e \in exact' \cup cidrs' :
           LET since == calls[c].now - PruneInterval
           IN  e.expires > since \/ e.at > since \/ e.at = clock]_vars

\* Pruning is invisible: every answer is one the plain list of blocks gives at
\* some moment of the call.
ImplementsBlockList == List!Spec

\* The calls that read the clock.
Timed == {"add", "is_blocked", "list_active"}

\* Times never run ahead of the clock; lapsed entries are ones stored since
\* the last prune.
IInv ==
  /\ TypeOK /\ OneEntryPerKey
  /\ last_prune <= clock
  /\ \A c \in Callers : calls[c].op \in Timed => calls[c].now <= clock
  /\ \A e \in exact \cup cidrs : e.expires > last_prune \/ e.at >= last_prune
=============================================================================
