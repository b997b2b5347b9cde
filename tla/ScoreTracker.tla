---------------------------- MODULE ScoreTracker -----------------------------
(***************************************************************************)
(* history/score_tracker.cpp: the running ban score of each client IP.     *)
(* Every operation holds mutex_ throughout, so each is one action.  The    *)
(* map scores_ is the set of its keys and a total function of its entries. *)
(***************************************************************************)
EXTENDS Integers, Sequences, FiniteSets

CONSTANTS
  Ips,        \* client IPs
  MaxTracked, \* max_tracked_ips_
  IntMin,     \* std::numeric_limits<int>
  IntMax

ASSUME ScoreTrackerAssumption ==
  /\ MaxTracked \in Nat \ {0}
  /\ IntMin \in Int /\ IntMax \in Int /\ IntMin < 0 /\ 0 < IntMax

VARIABLES
  tracked,    \* the keys of scores_
  entry,      \* the entries of scores_; Fresh for an IP that is not tracked
  order,      \* order_: insertion stamps <<ip, seq>>, oldest first
  next_seq    \* next_seq_

vars == <<tracked, entry, order, next_seq>>

Entry == [score : IntMin..IntMax, seq : Nat]
Fresh == [score |-> 0, seq |-> 0]

TypeOK ==
  /\ tracked \in SUBSET Ips
  /\ entry \in [Ips -> Entry]
  /\ order \in Seq(Ips \X Nat)
  /\ next_seq \in Nat

Init ==
  /\ tracked = {}
  /\ entry = [ip \in Ips |-> Fresh]
  /\ order = << >>
  /\ next_seq = 0

-----------------------------------------------------------------------------
\* mutant: a plain `total += points` on a 32-bit int
ClampMutant(n) == IF n > IntMax THEN n - IntMax + IntMin - 1 ELSE n

Clamp(n) == IF n < IntMin THEN IntMin ELSE IF n > IntMax THEN IntMax ELSE n

\* current(): the score of an IP, zero if it is not tracked.
Current(ip) == entry[ip].score

\* What add_points returns.
Total(ip, points) == Clamp(Current(ip) + points)

\* How many stamps the eviction loop pops off the front.
Excess(stamps) == IF Len(stamps) > MaxTracked THEN Len(stamps) - MaxTracked ELSE 0

\* mutant: the popped stamp's IP is erased whatever its seq
EvictedMutant(popped) == {ip \in tracked : \E n \in 0..next_seq : <<ip, n>> \in popped}

\* mutant: the popped stamp's entry is kept
KeptMutant(popped) == {}

\* The IPs whose entry goes with a popped stamp: stale stamps are skipped.
Evicted(popped) == {ip \in tracked : <<ip, entry[ip].seq>> \in popped}

\* add_points for an IP that scores_ already holds.
AddMore(ip, points) ==
  /\ ip \in tracked
  /\ entry' = [entry EXCEPT ![ip].score = Total(ip, points)]
  /\ UNCHANGED <<tracked, order, next_seq>>

\* add_points for a new IP: it is stamped, and the oldest stamps beyond the
\* cap are popped together with the entries they still belong to.
Insert(ip, points) ==
  /\ ip \notin tracked
  /\ LET stamps  == Append(order, <<ip, next_seq>>)
         gone    == Evicted({stamps[i] : i \in 1..Excess(stamps)})
     IN  /\ order' = SubSeq(stamps, Excess(stamps) + 1, Len(stamps))
         /\ tracked' = (tracked \ gone) \cup {ip}
         /\ entry' = [j \in Ips |->
                        IF j = ip THEN [score |-> Total(ip, points), seq |-> next_seq]
                        ELSE IF j \in gone THEN Fresh ELSE entry[j]]
  /\ next_seq' = next_seq + 1

AddPoints(ip, points) == AddMore(ip, points) \/ Insert(ip, points)

\* reset() erases the entry and leaves its stamp in order_.
Reset(ip) ==
  /\ tracked' = tracked \ {ip}
  /\ entry' = [entry EXCEPT ![ip] = Fresh]
  /\ UNCHANGED <<order, next_seq>>

\* award_score, the one caller, adds positive points only.
Points == 1..IntMax

Next == \E ip \in Ips : Reset(ip) \/ \E points \in Points : AddPoints(ip, points)

Spec == Init /\ [][Next]_vars

-----------------------------------------------------------------------------
(***************************************************************************)
(* Properties                                                              *)
(***************************************************************************)

\* Memory is bounded in the number of remote IPs: neither the map nor the
\* queue of stamps, stale ones included, outgrows max_tracked_ips_.
BoundedMemory == Len(order) <= MaxTracked /\ Cardinality(tracked) <= MaxTracked

\* Every tracked IP can be evicted: its stamp is in order_, and an IP without
\* an entry has no score left.
TrackedIsStamped ==
  /\ \A ip \in tracked : \E i \in 1..Len(order) : order[i] = <<ip, entry[ip].seq>>
  /\ \A ip \in Ips \ tracked : entry[ip] = Fresh

\* No two stamps are equal and they are in the order they were made, so a
\* stale stamp can never be mistaken for the stamp of a re-inserted IP.
StampsAreUnique ==
  /\ \A i, j \in 1..Len(order) : i < j => order[i][2] < order[j][2]
  /\ \A i \in 1..Len(order) : order[i][2] < next_seq

\* An IP that keeps offending never loses score to arithmetic: while it stays
\* tracked its score does not fall, however large the configured points.
ScoreNeverFalls ==
  [][\A ip \in tracked \cap tracked' :
       entry'[ip].seq = entry[ip].seq => entry'[ip].score >= entry[ip].score]_vars

\* Who is dropped to make room was tracked for longer than everyone kept.
OldestIsEvicted ==
  [][next_seq' # next_seq =>
       \A ip \in tracked \ tracked', kept \in tracked \cap tracked' :
         entry[ip].seq < entry[kept].seq]_vars

IInv == TypeOK /\ TrackedIsStamped /\ StampsAreUnique /\ Len(order) <= MaxTracked
=============================================================================
