------------------------- MODULE ScoreTrackerProofs --------------------------
(***************************************************************************)
(* Proofs about ScoreTracker for any set of IPs, cap and width of int.     *)
(***************************************************************************)
EXTENDS ScoreTracker, FiniteSetTheorems, TLAPS

LEMMA FreshIsEntry == Fresh \in Entry
  BY ScoreTrackerAssumption DEF Fresh, Entry

LEMMA InitIInv == Init => IInv
  BY FreshIsEntry, ScoreTrackerAssumption
  DEF Init, IInv, TypeOK, TrackedIsStamped, StampsAreUnique

(***************************************************************************)
(* The queue t after stamp e is pushed on s and k stamps are popped.       *)
(***************************************************************************)
Pushed(s, e, k, t) == t = SubSeq(Append(s, e), k + 1, Len(s) + 1)

Shifted(s, e, k, t) ==
  /\ t \in Seq(Ips \X Nat) /\ Len(t) = Len(s) + 1 - k
  /\ \A i \in 1..(Len(s) - k) : t[i] = s[i + k]
  /\ t[Len(s) + 1 - k] = e

LEMMA PushPop ==
  ASSUME NEW s \in Seq(Ips \X Nat), NEW e \in Ips \X Nat, NEW k \in 0..Len(s),
         NEW t, Pushed(s, e, k, t)
  PROVE  Shifted(s, e, k, t)
<1>1. /\ Append(s, e) \in Seq(Ips \X Nat) /\ Len(Append(s, e)) = Len(s) + 1
      /\ \A i \in 1..Len(s) : Append(s, e)[i] = s[i]
      /\ Append(s, e)[Len(s) + 1] = e
  OBVIOUS
<1>2. /\ t \in Seq(Ips \X Nat) /\ Len(t) = Len(s) + 1 - k
      /\ \A i \in 1..(Len(s) + 1 - k) : t[i] = Append(s, e)[i + k]
  BY <1>1 DEF Pushed
<1>3. ASSUME NEW i \in 1..(Len(s) - k) PROVE t[i] = s[i + k]
  <2>1. i \in 1..(Len(s) + 1 - k) /\ i + k \in 1..Len(s)
    OBVIOUS
  <2> QED
    BY <1>1, <1>2, <2>1
<1>4. t[Len(s) + 1 - k] = e
  <2>1. (Len(s) + 1 - k) + k = Len(s) + 1 /\ Len(s) + 1 - k \in 1..(Len(s) + 1 - k)
    OBVIOUS
  <2> QED
    BY <1>1, <1>2, <2>1
<1> QED
  BY <1>2, <1>3, <1>4 DEF Shifted

LEMMA LastOrBefore ==
  ASSUME NEW l \in Nat, NEW k \in 0..l, NEW i \in 1..(l + 1 - k)
  PROVE  i \in 1..(l - k) \/ i = l + 1 - k
OBVIOUS

Ordered(s) == \A i, j \in 1..Len(s) : i < j => s[i][2] < s[j][2]
Below(s, n) == \A i \in 1..Len(s) : s[i][2] < n

(***************************************************************************)
(* Stamps in order stay in order when a later one is pushed.               *)
(***************************************************************************)
LEMMA PushPopOrdered ==
  ASSUME NEW s \in Seq(Ips \X Nat), NEW p \in Ips, NEW n \in Nat, NEW k \in 0..Len(s),
         NEW t, Pushed(s, <<p, n>>, k, t),
         Ordered(s), Below(s, n)
  PROVE  Ordered(t) /\ Below(t, n + 1)
<1>1. /\ Len(t) = Len(s) + 1 - k /\ Len(s) \in Nat
      /\ \A i \in 1..(Len(s) - k) : t[i] = s[i + k]
      /\ t[Len(s) + 1 - k] = <<p, n>>
  <2>1. Shifted(s, <<p, n>>, k, t)
    BY PushPop
  <2> QED
    BY <2>1 DEF Shifted
<1>2. ASSUME NEW i \in 1..(Len(s) - k)
      PROVE  i + k \in 1..Len(s) /\ t[i][2] < n /\ t[i][2] \in Nat
  <2>1. i + k \in 1..Len(s)
    OBVIOUS
  <2>2. s[i + k] \in Ips \X Nat /\ s[i + k][2] < n
    BY <2>1 DEF Below
  <2>3. t[i] = s[i + k]
    BY <1>1
  <2> QED
    BY <2>1, <2>2, <2>3
<1>3. ASSUME NEW i \in 1..Len(t) PROVE i \in 1..(Len(s) - k) \/ i = Len(s) + 1 - k
  <2>1. i \in 1..(Len(s) + 1 - k)
    BY <1>1, Zenon
  <2>2. Len(s) \in Nat
    OBVIOUS
  <2> QED
    BY <2>1, <2>2, LastOrBefore, Zenon
<1>4. ASSUME NEW i \in 1..Len(t), NEW j \in 1..Len(t), i < j
      PROVE  t[i][2] < t[j][2]
  <2>0. i \in 1..(Len(s) - k)
    BY <1>1, <1>4
  <2>1. CASE j \in 1..(Len(s) - k)
    <3>1. i + k \in 1..Len(s) /\ j + k \in 1..Len(s) /\ i + k < j + k
      BY <1>4, <2>0, <2>1
    <3>2. s[i + k][2] < s[j + k][2]
      BY <3>1 DEF Ordered
    <3>3. t[i] = s[i + k] /\ t[j] = s[j + k]
      BY <1>1, <2>0, <2>1
    <3> QED
      BY <3>2, <3>3
  <2>2. CASE j = Len(s) + 1 - k
    <3>1. t[i][2] < n
      BY <1>2, <2>0
    <3>2. t[j][2] = n
      BY <1>1, <2>2
    <3> QED
      BY <3>1, <3>2
  <2> QED
    BY <1>3, <2>1, <2>2
<1>5. ASSUME NEW i \in 1..Len(t) PROVE t[i][2] < n + 1
  <2>1. CASE i \in 1..(Len(s) - k)
    <3>1. t[i][2] < n /\ t[i][2] \in Nat
      BY <1>2, <2>1
    <3>2. \A m \in Nat : m < n => m < n + 1
      OBVIOUS
    <3> QED
      BY <3>1, <3>2, Zenon
  <2>2. CASE i = Len(s) + 1 - k
    BY <1>1, <2>2
  <2> QED
    BY <1>3, <2>1, <2>2
<1> QED
  BY <1>4, <1>5 DEF Ordered, Below

(***************************************************************************)
(* What an insertion does, with the number of stamps popped and the IPs    *)
(* that go with them named.                                                *)
(***************************************************************************)
LEMMA InsertEffect ==
  ASSUME IInv, NEW ip \in Ips, NEW points \in Points, Insert(ip, points)
  PROVE  \E k \in 0..Len(order), gone \in SUBSET tracked :
           /\ Len(order) + 1 - k <= MaxTracked
           /\ order' = SubSeq(Append(order, <<ip, next_seq>>), k + 1, Len(order) + 1)
           /\ \A j \in tracked : j \in gone <=> \E i \in 1..k : order[i] = <<j, entry[j].seq>>
           /\ tracked' = (tracked \ gone) \cup {ip} /\ ip \notin tracked
           /\ entry' = [j \in Ips |->
                          IF j = ip THEN [score |-> Total(ip, points), seq |-> next_seq]
                          ELSE IF j \in gone THEN Fresh ELSE entry[j]]
           /\ next_seq' = next_seq + 1
<1> DEFINE stamps == Append(order, <<ip, next_seq>>)
           excess == IF Len(stamps) > MaxTracked THEN Len(stamps) - MaxTracked ELSE 0
           out == {j \in tracked : <<j, entry[j].seq>> \in {stamps[i] : i \in 1..excess}}
<1>1. /\ order' = SubSeq(stamps, excess + 1, Len(stamps))
      /\ tracked' = (tracked \ out) \cup {ip} /\ ip \notin tracked
      /\ entry' = [j \in Ips |->
                     IF j = ip THEN [score |-> Total(ip, points), seq |-> next_seq]
                     ELSE IF j \in out THEN Fresh ELSE entry[j]]
      /\ next_seq' = next_seq + 1
  BY DEF Insert, Evicted, Excess
<1>2. /\ order \in Seq(Ips \X Nat) /\ Len(order) \in Nat /\ Len(order) <= MaxTracked
      /\ next_seq \in Nat
  BY DEF IInv, TypeOK
<1>3. Len(stamps) = Len(order) + 1 /\ \A i \in 1..Len(order) : stamps[i] = order[i]
  BY <1>2
<1>4. excess \in 0..Len(order) /\ Len(order) + 1 - excess <= MaxTracked
  BY <1>2, <1>3, ScoreTrackerAssumption
<1> HIDE DEF excess
<1>5. \A i \in 1..excess : stamps[i] = order[i]
  BY <1>2, <1>3, <1>4
<1>6. \A j \in tracked : j \in out <=> \E i \in 1..excess : order[i] = <<j, entry[j].seq>>
  BY <1>5
<1> HIDE DEF out
<1>7. out \in SUBSET tracked
  BY DEF out
<1> QED
  BY <1>1, <1>3, <1>4, <1>6, <1>7

LEMMA InsertStep ==
  ASSUME IInv, NEW ip \in Ips, NEW points \in Points, Insert(ip, points)
  PROVE  IInv'
<1>1. PICK k \in 0..Len(order), gone \in SUBSET tracked :
        /\ Len(order) + 1 - k <= MaxTracked
        /\ order' = SubSeq(Append(order, <<ip, next_seq>>), k + 1, Len(order) + 1)
        /\ \A j \in tracked : j \in gone <=> \E i \in 1..k : order[i] = <<j, entry[j].seq>>
        /\ tracked' = (tracked \ gone) \cup {ip} /\ ip \notin tracked
        /\ entry' = [j \in Ips |->
                       IF j = ip THEN [score |-> Total(ip, points), seq |-> next_seq]
                       ELSE IF j \in gone THEN Fresh ELSE entry[j]]
        /\ next_seq' = next_seq + 1
  BY InsertEffect, ZenonT(60)
<1>2. /\ order \in Seq(Ips \X Nat) /\ Len(order) \in Nat /\ next_seq \in Nat
      /\ tracked \subseteq Ips /\ entry \in [Ips -> Entry]
  BY DEF IInv, TypeOK
<1>3. /\ order' \in Seq(Ips \X Nat) /\ Len(order') = Len(order) + 1 - k
      /\ \A i \in 1..(Len(order) - k) : order'[i] = order[i + k]
      /\ order'[Len(order) + 1 - k] = <<ip, next_seq>>
  <2> DEFINE e == <<ip, next_seq>>
  <2>1. e \in Ips \X Nat
    BY <1>2
  <2>2. order' = SubSeq(Append(order, e), k + 1, Len(order) + 1)
    BY <1>1
  <2> HIDE DEF e
  <2>3. /\ order' \in Seq(Ips \X Nat) /\ Len(order') = Len(order) + 1 - k
        /\ \A i \in 1..(Len(order) - k) : order'[i] = order[i + k]
        /\ order'[Len(order) + 1 - k] = e
    <3>1. Pushed(order, e, k, order')
      BY <2>2 DEF Pushed
    <3>2. Shifted(order, e, k, order')
      BY <1>2, <2>1, <3>1, PushPop, Zenon
    <3> QED
      BY <3>2 DEF Shifted
  <2> QED
    BY <2>3 DEF e
<1>4. TypeOK'
  <2>1. Total(ip, points) \in IntMin..IntMax
    <3>1. entry[ip].score \in Int /\ points \in Int
      BY <1>2, ScoreTrackerAssumption DEF Entry, Points
    <3> QED
      BY <3>1, ScoreTrackerAssumption DEF Total, Current, Clamp
  <2>2. entry' \in [Ips -> Entry]
    BY <1>1, <1>2, <2>1, FreshIsEntry DEF Entry
  <2>3. tracked' \in SUBSET Ips /\ next_seq' \in Nat
    BY <1>1, <1>2
  <2>4. order' \in Seq(Ips \X Nat)
    BY <1>3
  <2> QED
    BY <2>2, <2>3, <2>4, Zenon DEF TypeOK
<1>5. TrackedIsStamped'
  <2>1. ASSUME NEW j \in tracked'
        PROVE  \E i \in 1..Len(order') : order'[i] = <<j, entry'[j].seq>>
    <3>1. CASE j = ip
      <4>1. Len(order) + 1 - k \in 1..Len(order')
        BY <1>2, <1>3
      <4>2. entry'[ip].seq = next_seq
        BY <1>1
      <4> QED
        BY <1>3, <3>1, <4>1, <4>2
    <3>2. CASE j # ip
      <4>1. j \in tracked /\ j \notin gone /\ entry'[j] = entry[j]
        BY <1>1, <1>2, <3>2
      <4>2. PICK i \in 1..Len(order) : order[i] = <<j, entry[j].seq>>
        BY <4>1 DEF IInv, TrackedIsStamped
      <4>3. i \notin 1..k
        BY <1>1, <4>1, <4>2
      <4>4. /\ i - k \in 1..(Len(order) - k) /\ (i - k) + k = i
            /\ i - k \in 1..(Len(order) + 1 - k)
        BY <1>2, <4>3
      <4>5. order'[i - k] = order[i] /\ i - k \in 1..Len(order')
        BY <1>3, <4>4
      <4> QED
        BY <4>1, <4>2, <4>5
    <3> QED
      BY <3>1, <3>2
  <2>2. ASSUME NEW j \in Ips \ tracked' PROVE entry'[j] = Fresh
    BY <1>1 DEF IInv, TrackedIsStamped
  <2> QED
    BY <2>1, <2>2 DEF TrackedIsStamped
<1>6. StampsAreUnique'
  <2>1. Ordered(order) /\ Below(order, next_seq)
    BY DEF IInv, StampsAreUnique, Ordered, Below
  <2>2. Ordered(order') /\ Below(order', next_seq + 1)
    <3>1. order' = SubSeq(Append(order, <<ip, next_seq>>), k + 1, Len(order) + 1)
      BY <1>1
    <3>2. Pushed(order, <<ip, next_seq>>, k, order')
      BY <3>1 DEF Pushed
    <3> QED
      BY <1>2, <2>1, <3>2, PushPopOrdered, Zenon
  <2> QED
    BY <1>1, <2>2, Zenon DEF StampsAreUnique, Ordered, Below
<1> QED
  BY <1>1, <1>3, <1>4, <1>5, <1>6 DEF IInv

LEMMA AddMoreStep ==
  ASSUME IInv, NEW ip \in Ips, NEW points \in Points, AddMore(ip, points)
  PROVE  IInv'
<1>1. /\ entry' = [entry EXCEPT ![ip].score = Total(ip, points)] /\ ip \in tracked
      /\ UNCHANGED <<tracked, order, next_seq>> /\ entry \in [Ips -> Entry]
  BY DEF AddMore, IInv, TypeOK
<1>2. Total(ip, points) \in IntMin..IntMax
  <2>1. entry[ip].score \in Int /\ points \in Int
    BY <1>1, ScoreTrackerAssumption DEF Entry, Points
  <2> QED
    BY <2>1, ScoreTrackerAssumption DEF Total, Current, Clamp
<1>3. /\ entry' \in [Ips -> Entry]
      /\ \A j \in Ips : entry'[j].seq = entry[j].seq /\ (j # ip => entry'[j] = entry[j])
  BY <1>1, <1>2 DEF Entry
<1>4. TypeOK' /\ StampsAreUnique' /\ (Len(order) <= MaxTracked)'
  BY <1>1, <1>3 DEF IInv, TypeOK, StampsAreUnique
<1>5. TrackedIsStamped'
  <2>1. ASSUME NEW j \in tracked'
        PROVE  \E i \in 1..Len(order') : order'[i] = <<j, entry'[j].seq>>
    <3>1. j \in Ips /\ j \in tracked
      BY <1>1 DEF IInv, TypeOK
    <3>2. \E i \in 1..Len(order) : order[i] = <<j, entry[j].seq>>
      BY <3>1 DEF IInv, TrackedIsStamped
    <3> QED
      BY <1>1, <1>3, <3>1, <3>2
  <2>2. ASSUME NEW j \in Ips \ tracked' PROVE entry'[j] = Fresh
    BY <1>1, <1>3 DEF IInv, TrackedIsStamped
  <2> QED
    BY <2>1, <2>2 DEF TrackedIsStamped
<1> QED
  BY <1>4, <1>5 DEF IInv

LEMMA ResetStep == ASSUME IInv, NEW ip \in Ips, Reset(ip) PROVE IInv'
<1>1. TypeOK' /\ StampsAreUnique' /\ (Len(order) <= MaxTracked)'
  BY FreshIsEntry DEF Reset, IInv, TypeOK, StampsAreUnique
<1>2. TrackedIsStamped'
  BY DEF Reset, IInv, TypeOK, TrackedIsStamped
<1> QED
  BY <1>1, <1>2 DEF IInv

LEMMA NextIInv == IInv /\ [Next]_vars => IInv'
<1> SUFFICES ASSUME IInv, [Next]_vars PROVE IInv'
  OBVIOUS
<1>1. ASSUME NEW ip \in Ips, NEW points \in Points, AddPoints(ip, points) PROVE IInv'
  BY <1>1, InsertStep, AddMoreStep DEF AddPoints
<1>2. CASE UNCHANGED vars
  BY <1>2 DEF vars, IInv, TypeOK, TrackedIsStamped, StampsAreUnique
<1> QED
  BY <1>1, <1>2, ResetStep DEF Next

\* After any calls of add_points and reset, scores are within int, every tracked
\* IP has its stamp in order_, stamps are in the order they were made, and order_
\* is no longer than max_tracked_ips_.
THEOREM Invariance == Spec => []IInv
<1> QED
  BY InitIInv, NextIInv, PTL DEF Spec

\* The type invariant: scores stay within the range of int.
THEOREM TypeCorrect == Spec => []TypeOK
<1>1. IInv => TypeOK
  BY DEF IInv
<1> QED
  BY <1>1, Invariance, PTL

\* An IP with a score can always be evicted.
THEOREM TrackedStamped == Spec => []TrackedIsStamped
<1>1. IInv => TrackedIsStamped
  BY DEF IInv
<1> QED
  BY <1>1, Invariance, PTL

\* A stale stamp is never mistaken for a live one.
THEOREM UniqueStamps == Spec => []StampsAreUnique
<1>1. IInv => StampsAreUnique
  BY DEF IInv
<1> QED
  BY <1>1, Invariance, PTL

(***************************************************************************)
(* The keys of scores_ are at most as many as their stamps: the stamp of a *)
(* tracked IP picks a place in order_, no two IPs the same.                *)
(***************************************************************************)
LEMMA BoundFromStamps == IInv => BoundedMemory
<1> SUFFICES ASSUME IInv PROVE BoundedMemory
  OBVIOUS
<1> DEFINE place == [ip \in tracked |->
                       CHOOSE i \in 1..Len(order) : order[i] = <<ip, entry[ip].seq>>]
<1>1. Len(order) \in Nat /\ Len(order) <= MaxTracked /\ MaxTracked \in Nat
  BY ScoreTrackerAssumption DEF IInv, TypeOK
<1>2. ASSUME NEW ip \in tracked
      PROVE  place[ip] \in 1..Len(order) /\ order[place[ip]] = <<ip, entry[ip].seq>>
  BY DEF IInv, TrackedIsStamped
<1>3. place \in [tracked -> 1..Len(order)]
  BY <1>2
<1>4. \A a, b \in tracked : place[a] = place[b] => a = b
  <2> HIDE DEF place
  <2> QED
    BY <1>2
<1>5. place \in Injection(tracked, 1..Len(order))
  <2> HIDE DEF place
  <2> QED
    BY <1>3, <1>4 DEF Injection, IsInjective
<1>6. IsFiniteSet(1..Len(order)) /\ Cardinality(1..Len(order)) <= MaxTracked
  <2>1. IsFiniteSet(1..Len(order))
        /\ Cardinality(1..Len(order)) = IF 1 > Len(order) THEN 0 ELSE Len(order) - 1 + 1
    <3>1. 1 \in Int /\ Len(order) \in Int
      BY <1>1
    <3> QED
      BY <3>1, FS_Interval, Zenon
  <2> QED
    BY <1>1, <2>1
<1>7. Cardinality(tracked) <= Cardinality(1..Len(order)) /\ IsFiniteSet(tracked)
  <2> HIDE DEF place
  <2> QED
    BY <1>5, <1>6, FS_Injection
<1>8. Cardinality(tracked) \in Nat /\ Cardinality(1..Len(order)) \in Nat
  BY <1>6, <1>7, FS_CardinalityType
<1> QED
  BY <1>1, <1>6, <1>7, <1>8 DEF BoundedMemory

\* Neither the map nor the queue of stamps outgrows the cap.
THEOREM MemoryBound == Spec => []BoundedMemory
  BY BoundFromStamps, Invariance, PTL

(***************************************************************************)
(* Who is evicted has a stamp before everyone who is kept.                 *)
(***************************************************************************)
LEMMA EvictsOldest ==
  ASSUME IInv, NEW ip \in Ips, NEW points \in Points, Insert(ip, points),
         NEW a \in tracked \ tracked', NEW b \in tracked \cap tracked'
  PROVE  entry[a].seq < entry[b].seq
<1>1. PICK k \in 0..Len(order), gone \in SUBSET tracked :
        /\ \A j \in tracked : j \in gone <=> \E i \in 1..k : order[i] = <<j, entry[j].seq>>
        /\ tracked' = (tracked \ gone) \cup {ip} /\ ip \notin tracked
  <2>1. \E k \in 0..Len(order), gone \in SUBSET tracked :
          /\ Len(order) + 1 - k <= MaxTracked
          /\ order' = SubSeq(Append(order, <<ip, next_seq>>), k + 1, Len(order) + 1)
          /\ \A j \in tracked : j \in gone <=> \E i \in 1..k : order[i] = <<j, entry[j].seq>>
          /\ tracked' = (tracked \ gone) \cup {ip} /\ ip \notin tracked
          /\ entry' = [j \in Ips |->
                         IF j = ip THEN [score |-> Total(ip, points), seq |-> next_seq]
                         ELSE IF j \in gone THEN Fresh ELSE entry[j]]
          /\ next_seq' = next_seq + 1
    BY InsertEffect, ZenonT(60)
  <2> QED
    BY <2>1, Zenon
<1>2. Len(order) \in Nat
  BY DEF IInv, TypeOK
<1>3. a \in gone /\ b \notin gone
  BY <1>1
<1>4. PICK i \in 1..k : order[i] = <<a, entry[a].seq>>
  BY <1>1, <1>3
<1>5. PICK j \in 1..Len(order) : order[j] = <<b, entry[b].seq>>
  BY DEF IInv, TrackedIsStamped
<1>6. j \notin 1..k
  BY <1>1, <1>3, <1>5
<1>7. i \in 1..Len(order) /\ i < j
  BY <1>2, <1>6
<1>8. order[i][2] < order[j][2]
  BY <1>7 DEF IInv, StampsAreUnique
<1> QED
  BY <1>4, <1>5, <1>8

\* The IP dropped to make room is the one tracked for longest.
THEOREM EvictionOrder == Spec => OldestIsEvicted
<1> DEFINE A == next_seq' # next_seq =>
                  \A ip \in tracked \ tracked', kept \in tracked \cap tracked' :
                    entry[ip].seq < entry[kept].seq
<1>1. ASSUME IInv, Next PROVE A
  <2>1. ASSUME NEW ip \in Ips, Reset(ip) PROVE A
    BY <2>1 DEF Reset
  <2>2. ASSUME NEW ip \in Ips, NEW points \in Points, AddMore(ip, points) PROVE A
    BY <2>2 DEF AddMore
  <2>3. ASSUME NEW ip \in Ips, NEW points \in Points, Insert(ip, points) PROVE A
    BY <1>1, <2>3, EvictsOldest
  <2> HIDE DEF A
  <2> QED
    BY <1>1, <2>1, <2>2, <2>3 DEF Next, AddPoints
<1>2. IInv /\ [Next]_vars => [A]_vars
  BY <1>1
<1> QED
  BY <1>2, Invariance, PTL DEF Spec, OldestIsEvicted

(***************************************************************************)
(* Adding clamps: a score within int and positive points give no less.     *)
(***************************************************************************)
LEMMA ClampRises ==
  ASSUME NEW score \in IntMin..IntMax, NEW points \in Points
  PROVE  Clamp(score + points) >= score
<1>1. score \in Int /\ points \in Int /\ points > 0 /\ score <= IntMax
  BY ScoreTrackerAssumption DEF Points
<1> QED
  BY <1>1, ScoreTrackerAssumption DEF Clamp

\* While an IP stays tracked its score does not fall, whatever points the
\* configuration has add_points add: the sum is clamped and does not wrap.
THEOREM ScoresHold == Spec => ScoreNeverFalls
<1> DEFINE Same(ip) == entry'[ip].score >= entry[ip].score
           A == \A ip \in tracked \cap tracked' :
                  entry'[ip].seq = entry[ip].seq => Same(ip)
<1>1. ASSUME IInv, NEW j \in tracked, entry'[j] = entry[j] PROVE Same(j)
  <2>1. entry[j].score \in Int
    BY <1>1, ScoreTrackerAssumption DEF IInv, TypeOK, Entry
  <2> QED
    BY <1>1, <2>1
<1>2. ASSUME IInv, Next PROVE A
  <2>1. ASSUME NEW ip \in Ips, Reset(ip), NEW j \in tracked \cap tracked' PROVE Same(j)
    <3>1. j \in Ips /\ j # ip
      BY <1>2, <2>1 DEF Reset, IInv, TypeOK
    <3>2. entry'[j] = entry[j]
      BY <1>2, <2>1, <3>1 DEF Reset, IInv, TypeOK
    <3> QED
      BY <1>1, <1>2, <2>1, <3>2
  <2>2. ASSUME NEW ip \in Ips, NEW points \in Points, AddMore(ip, points),
               NEW j \in tracked \cap tracked'
        PROVE  Same(j)
    <3>1. /\ entry' = [entry EXCEPT ![ip].score = Total(ip, points)]
          /\ entry \in [Ips -> Entry] /\ j \in Ips
      BY <1>2, <2>2 DEF AddMore, IInv, TypeOK
    <3>2. CASE j = ip
      <4>1. entry[ip].score \in IntMin..IntMax
        BY <3>1 DEF Entry
      <4>2. entry'[ip].score = Clamp(entry[ip].score + points)
        BY <3>1 DEF Entry, Total, Current
      <4> QED
        BY <3>2, <4>1, <4>2, ClampRises
    <3>3. CASE j # ip
      <4>1. entry'[j] = entry[j]
        BY <3>1, <3>3
      <4> QED
        BY <1>1, <1>2, <2>2, <4>1
    <3> QED
      BY <3>2, <3>3
  <2>3. ASSUME NEW ip \in Ips, NEW points \in Points, Insert(ip, points),
               NEW j \in tracked \cap tracked'
        PROVE  Same(j)
    <3>1. PICK gone \in SUBSET tracked :
            /\ tracked' = (tracked \ gone) \cup {ip} /\ ip \notin tracked
            /\ entry' = [i \in Ips |->
                           IF i = ip THEN [score |-> Total(ip, points), seq |-> next_seq]
                           ELSE IF i \in gone THEN Fresh ELSE entry[i]]
      BY <1>2, <2>3, InsertEffect
    <3>2. j \in Ips /\ j # ip /\ j \notin gone
      BY <1>2, <2>3, <3>1 DEF IInv, TypeOK
    <3>3. entry'[j] = entry[j]
      BY <3>1, <3>2
    <3> QED
      BY <1>1, <1>2, <2>3, <3>3
  <2> HIDE DEF Same
  <2> QED
    BY <1>2, <2>1, <2>2, <2>3 DEF Next, AddPoints
<1>3. IInv /\ [Next]_vars => [A]_vars
  BY <1>2
<1> QED
  BY <1>3, Invariance, PTL DEF Spec, ScoreNeverFalls
=============================================================================
