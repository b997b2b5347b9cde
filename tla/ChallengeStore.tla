--------------------------- MODULE ChallengeStore ----------------------------
(***************************************************************************)
(* auth/webauthn/challenge_store.cpp: the challenges of passkey ceremonies *)
(* in progress.  start and consume read the clock before they take mutex_, *)
(* so each call is two steps, and the queue of stamps need not be in the   *)
(* order of its deadlines.                                                 *)
(***************************************************************************)
EXTENDS Integers, Sequences, FiniteSets

CONSTANTS
  Callers,    \* admin handlers
  Keys,       \* names of ceremonies: "register:", "login2fa:", "login:" with
              \* a user or a token
  MaxEntries, \* kMaxEntries
  Ttl,        \* ttl
  MaxTime,    \* bound on the clock
  MaxStarts   \* bound on the challenges made

VARIABLES
  clock,   \* system_clock::now(); only moves forward here
  calls,   \* the call each caller is in
  entries, \* entries_
  order,   \* order_
  starts,  \* challenges made so far; the n-th one is the number n
  taken    \* numbers consume has returned

vars == <<clock, calls, entries, order, starts, taken>>

Times == 0..(MaxTime + Ttl)
Idle == [op |-> "idle"]
Call == {Idle} \cup [op : {"start", "consume"}, key : Keys, now : Times]

\* An entry's challenge is `val`; in a stamp, which has none in the code, it
\* is there for the properties only.
Entry == [key : Keys, expires : Times, val : 1..MaxStarts]

TypeOK ==
  /\ clock \in 0..MaxTime
  /\ calls \in [Callers -> Call]
  /\ entries \subseteq Entry
  /\ \A d, e \in entries : d.key = e.key => d = e
  /\ order \in Seq(Entry)
  /\ starts \in 0..MaxStarts /\ taken \subseteq 1..MaxStarts

Init ==
  /\ clock = 0
  /\ calls = [c \in Callers |-> Idle]
  /\ entries = {} /\ order = <<>>
  /\ starts = 0 /\ taken = {}

Tick ==
  /\ clock < MaxTime /\ clock' = clock + 1
  /\ UNCHANGED <<calls, entries, order, starts, taken>>

Enter(c) ==
  /\ calls[c] = Idle
  /\ \E op \in {"start", "consume"}, key \in Keys :
       calls' = [calls EXCEPT ![c] = [op |-> op, key |-> key, now |-> clock]]
  /\ UNCHANGED <<clock, entries, order, starts, taken>>

\* mutant: only the expired stamps are popped
PoppedMutant(stamps, now) ==
  CHOOSE n \in 0..Len(stamps) :
    /\ \A i \in 1..n : stamps[i].expires <= now
    /\ n < Len(stamps) => stamps[n + 1].expires > now

\* How many stamps the loop pops: the oldest beyond the cap, and every expired
\* one up to the first that is not.
Popped(stamps, now) ==
  CHOOSE n \in 0..Len(stamps) :
    /\ \A i \in 1..n : Len(stamps) - (i - 1) > MaxEntries \/ stamps[i].expires <= now
    /\ n < Len(stamps) => Len(stamps) - n <= MaxEntries /\ stamps[n + 1].expires > now

\* mutant: a popped stamp takes the entry of its key, whatever its deadline
SameMutant(entry, stamp) == entry.key = stamp.key

\* A stamp belongs to an entry if the key and the deadline agree; others are
\* stale and skipped.
Same(entry, stamp) == entry.key = stamp.key /\ entry.expires = stamp.expires

\* start, under the lock.
Start(c) ==
  /\ calls[c].op = "start" /\ starts < MaxStarts
  /\ LET now == calls[c].now
         new == [key |-> calls[c].key, expires |-> now + Ttl, val |-> starts + 1]
         stored == {e \in entries : e.key # new.key} \cup {new}
         stamps == Append(order, new)
         n == Popped(stamps, now)
     IN  /\ entries' = {e \in stored : \A i \in 1..n : ~Same(e, stamps[i])}
         /\ order' = SubSeq(stamps, n + 1, Len(stamps))
  /\ calls' = [calls EXCEPT ![c] = Idle]
  /\ starts' = starts + 1
  /\ UNCHANGED <<clock, taken>>

\* mutant: the challenge is read and left for a successful verification to clear
ConsumeMutant(c) ==
  /\ calls[c].op = "consume"
  /\ LET found == {e \in entries : e.key = calls[c].key}
     IN  taken' = taken \cup {e.val : e \in {f \in found : calls[c].now <= f.expires}}
  /\ calls' = [calls EXCEPT ![c] = Idle]
  /\ UNCHANGED <<clock, entries, order, starts>>

\* consume, under the lock: the entry goes whether or not it had expired.
Consume(c) ==
  /\ calls[c].op = "consume"
  /\ LET found == {e \in entries : e.key = calls[c].key}
     IN  /\ entries' = entries \ found
         /\ taken' = taken \cup {e.val : e \in {f \in found : calls[c].now <= f.expires}}
  /\ calls' = [calls EXCEPT ![c] = Idle]
  /\ UNCHANGED <<clock, order, starts>>

Next == Tick \/ \E c \in Callers : Enter(c) \/ Start(c) \/ Consume(c)

Spec == Init /\ [][Next]_vars

-----------------------------------------------------------------------------
\* However fast challenges are requested, memory stays bounded: neither the map
\* nor the queue, with the stale stamps of consumed and restarted keys, grows
\* past kMaxEntries, and no entry loses the stamp that would reclaim it.
BoundedAndStamped ==
  /\ Len(order) <= MaxEntries /\ Cardinality(entries) <= MaxEntries
  /\ \A e \in entries : \E i \in DOMAIN order : Same(e, order[i])

\* What start may take out of the map: what expired, what is older than the last
\* kMaxEntries starts and, as the stamps do not tell two starts of one key in the
\* same instant apart, what shares key and deadline with a stamp that is that old.
StartDropsOnlyOld ==
  \A c \in Callers :
    calls[c].op = "start" /\ calls'[c] = Idle =>
      LET new == [key |-> calls[c].key, expires |-> calls[c].now + Ttl, val |-> starts']
      IN  \A e \in ({d \in entries : d.key # new.key} \cup {new}) \ entries' :
            \/ e.expires <= calls[c].now
            \/ \E i \in DOMAIN order :
                 /\ order[i].key = e.key /\ order[i].expires = e.expires
                 /\ order[i].val <= starts' - MaxEntries

\* A ceremony in progress is not dropped while fewer than kMaxEntries others
\* began after it.
NewerCeremoniesSurvive == [][StartDropsOnlyOld]_vars

\* The store implements the map the ceremonies rely on: one challenge per name,
\* returned to one caller only, even when two submissions race.
M == INSTANCE ChallengeMap WITH
       Values <- 1..MaxStarts,
       challenges <- {[key |-> e.key, val |-> e.val] : e \in entries}
ImplementsChallengeMap == M!Init /\ [][M!Next]_M!vars

-----------------------------------------------------------------------------
(***************************************************************************)
(* The inductive invariant behind these properties.                        *)
(***************************************************************************)

\* What the code and the bounds of a behaviour give the constants.
Bounds == MaxEntries \in Nat \ {0} /\ Ttl \in Nat /\ MaxTime \in Nat /\ MaxStarts \in Nat

\* A call works with a time that has been.
Timed == \A c \in Callers : calls[c].op # "idle" => calls[c].now <= clock

Stamped == \A e \in entries : \E i \in DOMAIN order : Same(e, order[i])

\* The queue holds the stamps of the last starts, in their order, although not
\* in that of their deadlines.
Numbered == \A i \in DOMAIN order : order[i].val = starts - Len(order) + i

\* A challenge that waits has not been returned, and there is one entry for it.
Fresh ==
  /\ \A e \in entries : e.val <= starts /\ e.val \notin taken
  /\ \A d, e \in entries : d.val = e.val => d = e
  /\ \A n \in taken : n <= starts

IInv == TypeOK /\ Timed /\ Len(order) <= MaxEntries /\ Stamped /\ Numbered /\ Fresh
=============================================================================
