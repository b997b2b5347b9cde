-------------------------- MODULE SharedStateProofs --------------------------
(***************************************************************************)
(* Stores that many handlers share and that are used with something read   *)
(* before their lock was taken: the challenges of ChallengeStore and the   *)
(* times of RequestRateTracker (the clock), the certificates of            *)
(* TlsListener (the configuration and the files) and the passkeys of       *)
(* WebAuthn (a copy of the account).  Their safety properties, for any     *)
(* number of callers, entries, sites, files and windows.                   *)
(***************************************************************************)
EXTENDS SharedCeremonies, SharedRates, SharedTls, Integers, Sequences, FiniteSets,
        FunctionTheorems, SequenceTheorems, FiniteSetTheorems,
        WellFoundedInduction, TLAPS

-----------------------------------------------------------------------------
(***************************************************************************)
(* Numbers                                                                 *)
(***************************************************************************)

\* A set of numbers has a least one.
LEMMA LeastNat ==
  ASSUME NEW S, S \subseteq Nat, S # {}
  PROVE  \E x \in S : \A y \in S : x <= y
<1>1. PICK rel : rel = OpToRel(<, Nat)
  OBVIOUS
<1>2. IsWellFoundedOn(rel, Nat)
  BY <1>1, NatLessThanWellFounded
<1>3. PICK x \in S : \A y \in S : ~(<<y, x>> \in rel)
  BY <1>2, WFMin
<1>4. \A y \in S : y < x => <<y, x>> \in rel
  BY <1>1 DEF OpToRel
<1>5. \A y \in S : x \in Int /\ y \in Int
  OBVIOUS
<1>6. \A y \in S : ~(y < x)
  BY <1>3, <1>4
<1>7. \A y \in S : x <= y
  BY <1>5, <1>6
<1> QED BY <1>7

-----------------------------------------------------------------------------
(***************************************************************************)
(* ChallengeStore                                                          *)
(***************************************************************************)

LEMMA EntryFields ==
  ASSUME C!Bounds, NEW e \in C!Entry
  PROVE  e.key \in Keys /\ e.expires \in Nat /\ e.val \in Nat
  BY DEF C!Bounds, C!Entry, C!Times

\* The loop of start stops: what Popped chooses exists.
LEMMA PoppedStops ==
  ASSUME C!Bounds, NEW q \in Seq(C!Entry), NEW now \in Int
  PROVE  /\ C!Popped(q, now) \in 0..Len(q)
         /\ \A i \in 1..C!Popped(q, now) : Len(q) - (i - 1) > MaxEntries \/ q[i].expires <= now
         /\ C!Popped(q, now) < Len(q) =>
              /\ Len(q) - C!Popped(q, now) <= MaxEntries
              /\ q[C!Popped(q, now) + 1].expires > now
<1>1. PICK len \in Nat : len = Len(q) /\ DOMAIN q = 1..len
  BY LenProperties
<1>2. \A i \in 1..len : q[i].expires \in Int
  <2> TAKE i \in 1..len
  <2>1. q[i] \in C!Entry
    BY <1>1, ElementOfSeq
  <2> QED BY <2>1, EntryFields
<1>3. MaxEntries \in Int
  BY DEF C!Bounds
<1> DEFINE Stays(m) == len - m <= MaxEntries /\ q[m + 1].expires > now
           Stop == {m \in 0..len : m < len => Stays(m)}
<1>4. Stop \subseteq Nat /\ Stop # {}
  <2>1. len \in Stop
    OBVIOUS
  <2>2. Stop \subseteq 0..len /\ 0..len \subseteq Nat
    OBVIOUS
  <2> HIDE DEF Stop
  <2> QED BY <2>1, <2>2
<1>5. PICK n \in Stop : \A m \in Stop : n <= m
  BY <1>4, LeastNat
<1>6. n \in 0..len /\ (n < len => Stays(n))
  OBVIOUS
<1>7. \A i \in 1..n : len - (i - 1) > MaxEntries \/ q[i].expires <= now
  <2> TAKE i \in 1..n
  <2>1. i - 1 \in 0..len /\ i - 1 < len /\ i \in 1..len /\ ~(n <= i - 1) /\ (i - 1) + 1 = i
    BY <1>6
  <2>2. ~Stays(i - 1)
    BY <1>5, <2>1
  <2>3. ~(len - (i - 1) <= MaxEntries) \/ ~(q[i].expires > now)
    BY <2>1, <2>2
  <2>4. q[i].expires \in Int
    BY <1>2, <2>1
  <2> QED BY <1>3, <2>1, <2>3, <2>4
<1> DEFINE Right(m) == /\ \A i \in 1..m : Len(q) - (i - 1) > MaxEntries \/ q[i].expires <= now
                       /\ m < Len(q) => Len(q) - m <= MaxEntries /\ q[m + 1].expires > now
<1>8. \E m \in 0..Len(q) : Right(m)
  BY <1>1, <1>6, <1>7
<1>9. C!Popped(q, now) = CHOOSE m \in 0..Len(q) : Right(m)
  BY DEF C!Popped
<1> HIDE DEF Right
<1>10. C!Popped(q, now) \in 0..Len(q) /\ Right(C!Popped(q, now))
  BY <1>8, <1>9
<1> QED BY <1>10 DEF Right

LEMMA CallFields ==
  ASSUME C!IInv, C!Bounds, NEW c \in Callers, calls[c].op # "idle"
  PROVE  /\ calls[c].op \in {"start", "consume"} /\ calls[c].key \in Keys
         /\ calls[c].now \in Nat /\ calls[c].now <= clock /\ clock \in Nat /\ clock <= MaxTime
<1>1. calls[c] \in C!Call /\ clock \in 0..MaxTime
  BY DEF C!IInv, C!TypeOK
<1>2. calls[c] \in [op : {"start", "consume"}, key : Keys, now : C!Times]
  BY <1>1 DEF C!Call, C!Idle
<1>3. clock \in Nat /\ clock <= MaxTime /\ calls[c].now \in Nat
  BY <1>1, <1>2 DEF C!Bounds, C!Times
<1>4. calls[c].now <= clock
  BY DEF C!IInv, C!Timed
<1> QED BY <1>2, <1>3, <1>4

\* A caller that begins or ends a call.
LEMMA CallsChange ==
  ASSUME C!IInv, C!Bounds, NEW c \in Callers, NEW call \in C!Call,
         calls' = [calls EXCEPT ![c] = call], clock' = clock,
         call.op # "idle" => call.now <= clock
  PROVE  calls' \in [Callers -> C!Call] /\ C!Timed' /\ clock' \in 0..MaxTime
<1>1. calls \in [Callers -> C!Call] /\ clock \in 0..MaxTime
  BY DEF C!IInv, C!TypeOK
<1>2. C!Timed'
  BY <1>1 DEF C!IInv, C!Timed
<1> QED BY <1>1, <1>2

LEMMA TickKeeps ==
  ASSUME C!IInv, C!Bounds, C!Tick
  PROVE  C!IInv'
<1>1. /\ clock \in 0..MaxTime /\ clock < MaxTime /\ clock' = clock + 1
      /\ UNCHANGED <<calls, entries, stamps, starts, taken>>
  BY DEF C!IInv, C!TypeOK, C!Tick
<1>2. clock' \in 0..MaxTime
  BY <1>1 DEF C!Bounds
<1>3. C!TypeOK'
  BY <1>1, <1>2 DEF C!IInv, C!TypeOK
<1>4. C!Timed'
  <2> SUFFICES ASSUME NEW c \in Callers, calls[c].op # "idle"
               PROVE  calls[c].now <= clock + 1
    BY <1>1 DEF C!Timed
  <2>1. calls[c].now \in Nat /\ calls[c].now <= clock /\ clock \in Nat
    BY CallFields
  <2> QED BY <2>1
<1> QED BY <1>1, <1>3, <1>4 DEF C!IInv, C!Stamped, C!Numbered, C!Fresh

LEMMA EnterKeeps ==
  ASSUME C!IInv, C!Bounds, NEW c \in Callers, C!Enter(c)
  PROVE  C!IInv'
<1>1. PICK op \in {"start", "consume"}, key \in Keys :
        calls' = [calls EXCEPT ![c] = [op |-> op, key |-> key, now |-> clock]]
  BY DEF C!Enter
<1>2. UNCHANGED <<clock, entries, stamps, starts, taken>>
  BY DEF C!Enter
<1>3. PICK call : call = [op |-> op, key |-> key, now |-> clock]
  OBVIOUS
<1>4. clock \in C!Times /\ clock <= clock
  BY DEF C!IInv, C!TypeOK, C!Times, C!Bounds
<1>5. call \in C!Call /\ call.now <= clock
  BY <1>3, <1>4 DEF C!Call
<1>6. calls' \in [Callers -> C!Call] /\ C!Timed' /\ clock' \in 0..MaxTime
  BY <1>1, <1>2, <1>3, <1>5, CallsChange
<1>7. C!TypeOK'
  BY <1>2, <1>6 DEF C!IInv, C!TypeOK
<1> QED BY <1>2, <1>6, <1>7 DEF C!IInv, C!Stamped, C!Numbered, C!Fresh

LEMMA ConsumeKeeps ==
  ASSUME C!IInv, C!Bounds, NEW c \in Callers, C!Consume(c)
  PROVE  C!IInv'
<1>1. PICK found : found = {e \in entries : e.key = calls[c].key}
  OBVIOUS
<1>2. PICK got : got = {e.val : e \in {f \in found : calls[c].now <= f.expires}}
  OBVIOUS
<1>3. /\ entries' = entries \ found /\ taken' = taken \cup got
      /\ calls' = [calls EXCEPT ![c] = C!Idle] /\ UNCHANGED <<clock, stamps, starts>>
  BY <1>1, <1>2 DEF C!Consume
<1>4. C!Idle \in C!Call /\ C!Idle.op = "idle"
  BY DEF C!Call, C!Idle
<1>5. calls' \in [Callers -> C!Call] /\ C!Timed' /\ clock' \in 0..MaxTime
  BY <1>3, <1>4, CallsChange
<1>6. \A n \in got : \E e \in found : e.val = n
  BY <1>2
<1>7. found \subseteq entries /\ entries \subseteq C!Entry
  BY <1>1 DEF C!IInv, C!TypeOK
<1>8. got \subseteq 1..MaxStarts
  BY <1>6, <1>7 DEF C!Entry
<1>9. C!TypeOK'
  BY <1>3, <1>5, <1>7, <1>8 DEF C!IInv, C!TypeOK
<1>10. C!Fresh'
  <2>1. C!Fresh
    BY DEF C!IInv
  <2>2. \A e \in entries' : e.val <= starts /\ e.val \notin taken
    BY <1>3, <2>1 DEF C!Fresh
  <2>3. \A e \in entries' : e.val \notin got
    <3> SUFFICES ASSUME NEW e \in entries', e.val \in got PROVE FALSE
      OBVIOUS
    <3>1. PICK f \in found : f.val = e.val
      BY <1>6
    <3> QED BY <1>3, <1>7, <2>1, <3>1 DEF C!Fresh
  <2>4. \A n \in got : n <= starts
    BY <1>6, <1>7, <2>1 DEF C!Fresh
  <2> QED BY <1>3, <2>1, <2>2, <2>3, <2>4 DEF C!Fresh
<1> QED BY <1>3, <1>5, <1>9, <1>10 DEF C!IInv, C!Stamped, C!Numbered

\* What start does under the lock, with names for its parts: the time it read, the
\* entry it makes, the map and the queue before the loop, and the stamps popped.
Started(c, now, new, stored, q, n) ==
  /\ now = calls[c].now /\ now \in Nat
  /\ new = [key |-> calls[c].key, expires |-> now + Ttl, val |-> starts + 1] /\ new \in C!Entry
  /\ stored = {e \in entries : e.key # new.key} \cup {new}
  /\ q = Append(stamps, new) /\ q \in Seq(C!Entry) /\ Len(q) = Len(stamps) + 1
  /\ \A i \in DOMAIN stamps : q[i] = stamps[i]
  /\ q[Len(stamps) + 1] = new
  /\ n = C!Popped(q, now)
  /\ entries' = {e \in stored : \A i \in 1..n : ~C!Same(e, q[i])}
  /\ stamps' = SubSeq(q, n + 1, Len(q))

LEMMA StartParts ==
  ASSUME C!IInv, C!Bounds, NEW c \in Callers, C!Start(c)
  PROVE  /\ calls[c].op = "start" /\ starts < MaxStarts
         /\ \E now, new, stored, q, n : Started(c, now, new, stored, q, n)
<1>1. calls[c].op = "start" /\ starts < MaxStarts
  BY DEF C!Start
<1>2. PICK now : now = calls[c].now
  OBVIOUS
<1>3. PICK new : new = [key |-> calls[c].key, expires |-> now + Ttl, val |-> starts + 1]
  OBVIOUS
<1>4. PICK q : q = Append(stamps, new)
  OBVIOUS
<1>5. PICK n : n = C!Popped(q, now)
  OBVIOUS
<1>6. PICK stored : stored = {e \in entries : e.key # new.key} \cup {new}
  OBVIOUS
<1>7. /\ entries' = {e \in stored : \A i \in 1..n : ~C!Same(e, q[i])}
      /\ stamps' = SubSeq(q, n + 1, Len(q))
  BY <1>2, <1>3, <1>4, <1>5, <1>6 DEF C!Start
<1>8. now \in Nat /\ now <= MaxTime /\ calls[c].key \in Keys
  <2>1. now \in Nat /\ now <= clock /\ clock \in Nat /\ clock <= MaxTime /\ calls[c].key \in Keys
    BY <1>1, <1>2, CallFields
  <2> QED BY <2>1 DEF C!Bounds
<1>9. new \in C!Entry
  <2>1. now + Ttl \in C!Times
    BY <1>8 DEF C!Bounds, C!Times
  <2>2. starts + 1 \in 1..MaxStarts
    BY <1>1 DEF C!Bounds, C!IInv, C!TypeOK
  <2> QED BY <1>3, <1>8, <2>1, <2>2 DEF C!Entry
<1>10. stamps \in Seq(C!Entry)
  BY DEF C!IInv, C!TypeOK
<1>11. /\ q \in Seq(C!Entry) /\ Len(q) = Len(stamps) + 1 /\ q[Len(stamps) + 1] = new
       /\ \A i \in 1..Len(stamps) : q[i] = stamps[i]
  BY <1>4, <1>9, <1>10, AppendProperties
<1>12. DOMAIN stamps = 1..Len(stamps)
  BY <1>10, LenProperties
<1>13. Started(c, now, new, stored, q, n)
  BY <1>2, <1>3, <1>4, <1>5, <1>6, <1>7, <1>8, <1>9, <1>11, <1>12 DEF Started
<1> QED BY <1>1, <1>13

\* The queue after start: what was not popped.
LEMMA QueueLeft ==
  ASSUME C!IInv, C!Bounds, NEW c \in Callers, NEW now, NEW new, NEW stored, NEW q, NEW n,
         Started(c, now, new, stored, q, n)
  PROVE  /\ n \in Nat /\ Len(stamps) \in Nat /\ DOMAIN stamps = 1..Len(stamps)
         /\ n <= Len(stamps) + 1
         /\ stamps' \in Seq(C!Entry) /\ Len(stamps') = Len(stamps) + 1 - n
         /\ DOMAIN stamps' = 1..(Len(stamps) + 1 - n)
         /\ \A i \in 1..(Len(stamps) + 1 - n) : stamps'[i] = q[n + i]
         /\ Len(stamps') <= MaxEntries
<1>a. /\ q \in Seq(C!Entry) /\ Len(q) = Len(stamps) + 1 /\ now \in Nat /\ n = C!Popped(q, now)
      /\ stamps' = SubSeq(q, n + 1, Len(q))
  BY Zenon DEF Started
<1>1. /\ q \in Seq(C!Entry) /\ Len(q) = Len(stamps) + 1 /\ now \in Int /\ n = C!Popped(q, now)
      /\ stamps' = SubSeq(q, n + 1, Len(q))
  BY <1>a
<1>2. Len(stamps) \in Nat /\ DOMAIN stamps = 1..Len(stamps)
  BY LenProperties DEF C!IInv, C!TypeOK
<1>3. n \in 0..Len(q) /\ (n < Len(q) => Len(q) - n <= MaxEntries)
  BY <1>1, PoppedStops
<1>4. n \in Nat /\ n <= Len(stamps) + 1 /\ Len(stamps) + 1 \in Nat /\ n + 1 \in 1..(Len(stamps) + 2)
  BY <1>1, <1>2, <1>3
<1>5. MaxEntries \in Nat
  BY DEF C!Bounds
<1>6. /\ stamps' \in Seq(C!Entry) /\ Len(stamps') = Len(stamps) + 1 - n
      /\ \A i \in 1..(Len(stamps) + 1 - n) : stamps'[i] = q[n + i]
  <2>1. PICK m \in Nat, k \in Nat : m = n + 1 /\ k = Len(q)
    BY <1>1, <1>4
  <2>2. m \in 1..(Len(q) + 1) /\ k \in (m - 1)..Len(q)
    BY <1>1, <1>4, <2>1
  <2>3. /\ SubSeq(q, m, k) \in Seq(C!Entry)
        /\ Len(SubSeq(q, m, k)) = (IF m <= k THEN k - m + 1 ELSE 0)
        /\ \A i \in 1..(k - m + 1) : SubSeq(q, m, k)[i] = q[m + i - 1]
    BY <1>1, <2>2, SubSeqProperties
  <2>4. k - m + 1 = Len(stamps) + 1 - n /\ (IF m <= k THEN k - m + 1 ELSE 0) = Len(stamps) + 1 - n
    BY <1>1, <1>2, <1>4, <2>1
  <2>5. \A i \in 1..(Len(stamps) + 1 - n) : m + i - 1 = n + i
    BY <1>4, <2>1
  <2>6. stamps' = SubSeq(q, m, k)
    BY <1>1, <2>1
  <2>7. /\ stamps' \in Seq(C!Entry) /\ Len(stamps') = Len(stamps) + 1 - n
        /\ \A i \in 1..(Len(stamps) + 1 - n) : stamps'[i] = q[m + i - 1]
    BY <2>3, <2>4, <2>6
  <2> QED BY <2>5, <2>7
<1>7. DOMAIN stamps' = 1..(Len(stamps) + 1 - n)
  BY <1>6, LenProperties
<1>8. Len(stamps) + 1 - n <= MaxEntries
  <2>1. CASE n < Len(stamps) + 1
    BY <1>1, <1>3, <2>1
  <2>2. CASE n = Len(stamps) + 1
    BY <1>2, <1>5, <2>2
  <2> QED BY <1>2, <1>4, <2>1, <2>2
<1> QED BY <1>2, <1>4, <1>6, <1>7, <1>8

LEMMA StartKeeps ==
  ASSUME C!IInv, C!Bounds, NEW c \in Callers, C!Start(c)
  PROVE  C!IInv'
<1>1. starts < MaxStarts /\ \E now, new, stored, q, n : Started(c, now, new, stored, q, n)
  BY StartParts
<1>2. PICK now, new, stored, q, n : Started(c, now, new, stored, q, n)
  BY <1>1
<1>3. calls' = [calls EXCEPT ![c] = C!Idle] /\ starts' = starts + 1 /\ UNCHANGED <<clock, taken>>
  BY DEF C!Start
<1>4. /\ n \in Nat /\ Len(stamps) \in Nat /\ DOMAIN stamps = 1..Len(stamps) /\ n <= Len(stamps) + 1
      /\ stamps' \in Seq(C!Entry) /\ Len(stamps') = Len(stamps) + 1 - n
      /\ DOMAIN stamps' = 1..(Len(stamps) + 1 - n)
      /\ \A i \in 1..(Len(stamps) + 1 - n) : stamps'[i] = q[n + i]
      /\ Len(stamps') <= MaxEntries
  BY <1>2, QueueLeft
<1>5. /\ new \in C!Entry /\ new.val = starts + 1
      /\ stored = {e \in entries : e.key # new.key} \cup {new}
      /\ entries' = {e \in stored : \A i \in 1..n : ~C!Same(e, q[i])}
  BY <1>2 DEF Started
<1>6. (\A i \in DOMAIN stamps : q[i] = stamps[i]) /\ q[Len(stamps) + 1] = new
  BY <1>2 DEF Started
<1>7. C!Idle \in C!Call /\ C!Idle.op = "idle"
  BY DEF C!Call, C!Idle
<1>8. calls' \in [Callers -> C!Call] /\ C!Timed' /\ clock' \in 0..MaxTime
  BY <1>3, <1>7, CallsChange
<1>9. starts \in Nat /\ starts' \in 0..MaxStarts
  BY <1>1, <1>3 DEF C!IInv, C!TypeOK, C!Bounds
<1>10. C!TypeOK'
  <2>1. entries \subseteq C!Entry /\ \A d, e \in entries : d.key = e.key => d = e
    BY DEF C!IInv, C!TypeOK
  <2>2. stored \subseteq C!Entry /\ \A d, e \in stored : d.key = e.key => d = e
    BY <1>5, <2>1
  <2>3. entries' \subseteq stored
    BY <1>5
  <2>4. entries' \subseteq C!Entry /\ \A d, e \in entries' : d.key = e.key => d = e
    BY <2>2, <2>3
  <2>5. taken' \subseteq 1..MaxStarts
    BY <1>3 DEF C!IInv, C!TypeOK
  <2> QED BY <1>4, <1>8, <1>9, <2>4, <2>5 DEF C!TypeOK
<1>11. C!Stamped'
  <2> SUFFICES ASSUME NEW e \in entries'
               PROVE  \E i \in DOMAIN stamps' : C!Same(e, stamps'[i])
    BY DEF C!Stamped, C!Same
  <2>1. e \in stored /\ \A i \in 1..n : ~C!Same(e, q[i])
    BY <1>5
  <2>2. PICK j \in 1..(Len(stamps) + 1) : C!Same(e, q[j])
    <3>1. CASE e = new
      <4>1. C!Same(e, q[Len(stamps) + 1])
        BY <1>6, <3>1 DEF C!Same
      <4>2. Len(stamps) + 1 \in 1..(Len(stamps) + 1)
        BY <1>4
      <4> QED BY <4>1, <4>2
    <3>2. CASE e # new
      <4>1. e \in entries
        BY <1>5, <2>1, <3>2
      <4>2. PICK i \in DOMAIN stamps : C!Same(e, stamps[i])
        BY <4>1 DEF C!IInv, C!Stamped
      <4>3. C!Same(e, q[i])
        BY <1>6, <4>2
      <4>4. i \in 1..(Len(stamps) + 1)
        BY <1>4
      <4> QED BY <4>3, <4>4
    <3> QED BY <3>1, <3>2
  <2>3. j \notin 1..n
    BY <2>1, <2>2
  <2>4. j - n \in 1..(Len(stamps) + 1 - n) /\ n + (j - n) = j
    BY <1>4, <2>3
  <2>5. stamps'[j - n] = q[j] /\ j - n \in DOMAIN stamps'
    BY <1>4, <2>4
  <2> QED BY <2>2, <2>5
<1>12. C!Numbered'
  <2> SUFFICES ASSUME NEW i \in DOMAIN stamps'
               PROVE  stamps'[i].val = starts' - Len(stamps') + i
    BY DEF C!Numbered
  <2>1. i \in 1..(Len(stamps) + 1 - n) /\ stamps'[i] = q[n + i]
    BY <1>4
  <2>2. PICK len \in Nat : len = Len(stamps) /\ Len(stamps') = len + 1 - n
    BY <1>4
  <2>3. n \in Nat /\ i \in Nat /\ i <= len + 1 - n /\ starts' = starts + 1
    BY <1>3, <1>4, <2>1, <2>2
  <2>4. starts' - Len(stamps') + i = starts - len + (n + i)
    <3>1. (starts + 1) - (len + 1 - n) + i = starts - len + (n + i)
      BY <1>9, <2>3
    <3> QED BY <2>2, <2>3, <3>1
  <2>5. CASE n + i <= len
    <3>1. n + i \in DOMAIN stamps
      BY <1>4, <2>1, <2>2, <2>5
    <3>2. stamps'[i].val = starts - Len(stamps) + (n + i)
      BY <1>6, <2>1, <3>1 DEF C!IInv, C!Numbered
    <3> QED BY <2>2, <2>4, <3>2
  <2>6. CASE n + i > len
    <3>1. n + i = len + 1 /\ starts - len + (n + i) = starts + 1
      BY <1>9, <2>3, <2>6
    <3>2. stamps'[i].val = starts + 1
      BY <1>5, <1>6, <2>1, <2>2, <3>1
    <3> QED BY <2>4, <3>1, <3>2
  <2> QED BY <2>3, <2>5, <2>6
<1>13. C!Fresh'
  <2>1. C!Fresh /\ entries \subseteq C!Entry
    BY DEF C!IInv, C!TypeOK
  <2>2. \A e \in entries : e.val \in Nat /\ e.val <= starts
    BY <2>1, EntryFields DEF C!Fresh
  <2>3. \A n1 \in taken : n1 \in Nat /\ n1 <= starts
    BY <2>1 DEF C!Fresh, C!IInv, C!TypeOK
  <2>4. entries' \subseteq entries \cup {new}
    BY <1>5
  <2>5. \A e \in entries' : e.val <= starts + 1 /\ e.val \notin taken
    <3> TAKE e \in entries'
    <3>1. CASE e \in entries
      BY <1>9, <2>1, <2>2, <3>1 DEF C!Fresh
    <3>2. CASE e = new
      BY <1>5, <1>9, <2>3, <3>2
    <3> QED BY <2>4, <3>1, <3>2
  <2>6. \A d, e \in entries' : d.val = e.val => d = e
    <3>1. \A e \in entries : e.val # new.val
      BY <1>5, <1>9, <2>2
    <3> QED BY <2>1, <2>4, <3>1 DEF C!Fresh
  <2>7. \A n1 \in taken : n1 <= starts + 1
    BY <1>9, <2>3
  <2> QED BY <1>3, <2>5, <2>6, <2>7 DEF C!Fresh
<1> QED BY <1>4, <1>8, <1>10, <1>11, <1>12, <1>13 DEF C!IInv

LEMMA ChallengesInit ==
  ASSUME C!Init, C!Bounds
  PROVE  C!IInv
<1>1. /\ clock = 0 /\ calls = [c \in Callers |-> C!Idle] /\ entries = {} /\ stamps = <<>>
      /\ starts = 0 /\ taken = {}
  BY DEF C!Init
<1>2. Len(<<>>) = 0 /\ DOMAIN <<>> = {} /\ <<>> \in Seq(C!Entry)
  OBVIOUS
<1>3. 0 \in 0..MaxTime /\ 0 \in 0..MaxStarts /\ 0 <= MaxEntries
  BY DEF C!Bounds
<1>4. calls \in [Callers -> C!Call] /\ C!Timed
  BY <1>1 DEF C!Call, C!Idle, C!Timed
<1>5. C!TypeOK
  BY <1>1, <1>2, <1>3, <1>4 DEF C!TypeOK
<1>6. C!Stamped /\ C!Numbered /\ C!Fresh
  BY <1>1, <1>2 DEF C!Stamped, C!Numbered, C!Fresh
<1> QED BY <1>1, <1>2, <1>3, <1>4, <1>5, <1>6 DEF C!IInv

\* For any number of callers whose clock reads overtake each other: an entry of
\* ChallengeStore has its stamp, the stamps are those of the last starts, and a
\* challenge that waits was never returned.
THEOREM ChallengeInvariant ==
  ASSUME C!Bounds
  PROVE  C!Spec => []C!IInv
<1>1. C!Init => C!IInv
  BY ChallengesInit
<1>2. C!IInv /\ [C!Next]_(C!vars) => C!IInv'
  <2> SUFFICES ASSUME C!IInv, [C!Next]_(C!vars) PROVE C!IInv'
    OBVIOUS
  <2>1. CASE C!Next
    BY <2>1, TickKeeps, EnterKeeps, StartKeeps, ConsumeKeeps DEF C!Next
  <2>2. CASE UNCHANGED C!vars
    BY <2>2 DEF C!vars, C!IInv, C!TypeOK, C!Timed, C!Stamped, C!Numbered, C!Fresh
  <2> QED BY <2>1, <2>2
<1> QED BY <1>1, <1>2, PTL DEF C!Spec

\* The names are distinct, so every entry has a stamp of its own in the queue.
LEMMA EntriesBounded ==
  ASSUME C!IInv, C!Bounds
  PROVE  Cardinality(entries) <= MaxEntries
<1>1. PICK len \in Nat : len = Len(stamps) /\ DOMAIN stamps = 1..len /\ len <= MaxEntries
  BY LenProperties DEF C!IInv, C!TypeOK
<1>2. \A e \in entries : \E i \in 1..len : C!Same(e, stamps[i])
  BY <1>1 DEF C!IInv, C!Stamped
<1>3. PICK f : f = [e \in entries |-> CHOOSE i \in 1..len : C!Same(e, stamps[i])]
  OBVIOUS
<1>4. \A e \in entries : f[e] \in 1..len /\ C!Same(e, stamps[f[e]])
  BY <1>2, <1>3
<1>5. f \in [entries -> 1..len]
  BY <1>3, <1>4
<1>6. \A d, e \in entries : f[d] = f[e] => d = e
  BY <1>4 DEF C!Same, C!IInv, C!TypeOK
<1>7. f \in Injection(entries, 1..len)
  BY <1>5, <1>6 DEF Injection, IsInjective
<1>8. IsFiniteSet(1..len) /\ Cardinality(1..len) = len
  BY FS_Interval
<1>9. IsFiniteSet(entries) /\ Cardinality(entries) <= len
  BY <1>7, <1>8, FS_Injection
<1>10. Cardinality(entries) \in Nat /\ MaxEntries \in Nat
  BY <1>9, FS_CardinalityType DEF C!Bounds
<1> QED BY <1>1, <1>9, <1>10

\* However fast challenges are requested and whatever calls overtake each other,
\* entries_ and order_ stay within kMaxEntries and every entry has its stamp.
THEOREM ChallengesBounded ==
  ASSUME C!Bounds
  PROVE  C!Spec => []BoundedAndStamped
<1>1. C!IInv => BoundedAndStamped
  <2> SUFFICES ASSUME C!IInv PROVE BoundedAndStamped
    OBVIOUS
  <2>1. PICK n : n = Cardinality(entries)
    OBVIOUS
  <2>2. n <= MaxEntries
    BY <2>1, EntriesBounded
  <2>3. C!Cardinality(entries) = n
    BY <2>1, Zenon DEF C!Cardinality, Cardinality
  <2> QED BY <2>2, <2>3 DEF C!IInv, BoundedAndStamped, C!BoundedAndStamped, C!Stamped
<1> QED BY <1>1, ChallengeInvariant, PTL

\* What start drops was popped: it expired or it is older than the last kMaxEntries
\* starts.  The new entry itself is not: its stamp is the last one.
LEMMA DropsOnlyOld ==
  ASSUME C!IInv, C!Bounds, C!Next
  PROVE  C!StartDropsOnlyOld
<1> SUFFICES ASSUME NEW c \in Callers, calls[c].op = "start", calls'[c] = C!Idle,
                    NEW e \in ({d \in entries : d.key # calls[c].key}
                                 \cup {[key |-> calls[c].key, expires |-> calls[c].now + Ttl,
                                        val |-> starts']}) \ entries'
             PROVE  \/ e.expires <= calls[c].now
                    \/ \E i \in DOMAIN stamps :
                         /\ stamps[i].key = e.key /\ stamps[i].expires = e.expires
                         /\ stamps[i].val <= starts' - MaxEntries
  BY DEF C!StartDropsOnlyOld
<1>1. C!Start(c)
  <2>1. calls \in [Callers -> C!Call] /\ C!Idle.op = "idle"
    BY DEF C!IInv, C!TypeOK, C!Idle
  <2>2. calls'[c] # calls[c]
    BY <2>1
  <2>3. \A d \in Callers : C!Enter(d) => calls'[c] = calls[c] \/ d = c
    BY <2>1 DEF C!Enter
  <2>4. \A d \in Callers : C!Start(d) \/ C!Consume(d) => calls'[c] = calls[c] \/ d = c
    BY <2>1 DEF C!Start, C!Consume
  <2>5. ~C!Enter(c) /\ ~C!Consume(c)
    BY <2>1 DEF C!Enter, C!Consume
  <2>6. ~C!Tick
    BY <2>2 DEF C!Tick
  <2> QED BY <2>2, <2>3, <2>4, <2>5, <2>6 DEF C!Next
<1>2. PICK now, new, stored, q, n : Started(c, now, new, stored, q, n)
  BY <1>1, StartParts
<1>3. /\ n \in Nat /\ Len(stamps) \in Nat /\ DOMAIN stamps = 1..Len(stamps) /\ n <= Len(stamps) + 1
  BY <1>2, QueueLeft
<1>4. starts' = starts + 1 /\ starts \in Nat /\ MaxEntries \in Nat \ {0}
  BY <1>1 DEF C!Start, C!Bounds, C!IInv, C!TypeOK
<1>5. /\ now = calls[c].now /\ now \in Nat /\ q \in Seq(C!Entry) /\ Len(q) = Len(stamps) + 1
      /\ n = C!Popped(q, now)
  BY <1>2, Zenon DEF Started
<1>6. /\ new = [key |-> calls[c].key, expires |-> now + Ttl, val |-> starts + 1]
      /\ stored = {d \in entries : d.key # new.key} \cup {new}
      /\ entries' = {d \in stored : \A i \in 1..n : ~C!Same(d, q[i])}
  BY <1>2, Zenon DEF Started
<1>7. \A i \in DOMAIN stamps : q[i] = stamps[i]
  BY <1>2, Zenon DEF Started
<1>8. e \in stored /\ e \notin entries'
  BY <1>4, <1>5, <1>6
<1>9. PICK i \in 1..n : C!Same(e, q[i])
  BY <1>6, <1>8
<1>10. Len(q) - (i - 1) > MaxEntries \/ q[i].expires <= now
  <2>1. now \in Int
    BY <1>5
  <2>2. \A j \in 1..C!Popped(q, now) : Len(q) - (j - 1) > MaxEntries \/ q[j].expires <= now
    BY <1>5, <2>1, PoppedStops
  <2> QED BY <1>5, <1>9, <2>2
<1>11. CASE q[i].expires <= now
  BY <1>5, <1>9, <1>11 DEF C!Same
<1>12. CASE Len(q) - (i - 1) > MaxEntries
  <2>1. PICK len \in Nat : len = Len(stamps)
    BY <1>3
  <2>2. i \in Nat /\ i >= 1 /\ len + 1 - (i - 1) > MaxEntries
    BY <1>3, <1>5, <1>12, <2>1
  <2>3. i <= len
    BY <1>4, <2>2
  <2>4. i \in DOMAIN stamps /\ stamps[i] = q[i]
    BY <1>3, <1>7, <2>1, <2>2, <2>3
  <2>5. stamps[i].val = starts - len + i
    BY <2>1, <2>4 DEF C!IInv, C!Numbered
  <2>6. starts - len + i <= starts + 1 - MaxEntries
    BY <1>4, <2>2
  <2> QED BY <1>4, <1>9, <2>4, <2>5, <2>6 DEF C!Same
<1> QED BY <1>10, <1>11, <1>12

\* ChallengeStore::start drops no ceremony that has not expired and that fewer than
\* kMaxEntries others followed, however the clock reads of the callers interleave.
THEOREM NewerSurvive ==
  ASSUME C!Bounds
  PROVE  C!Spec => NewerCeremoniesSurvive
<1>1. C!IInv /\ [C!Next]_(C!vars) => [C!StartDropsOnlyOld]_(C!vars)
  BY DropsOnlyOld
<1> QED BY <1>1, ChallengeInvariant, PTL DEF C!Spec, NewerCeremoniesSurvive, C!NewerCeremoniesSurvive

-----------------------------------------------------------------------------
Held(S) == {[key |-> e.key, val |-> e.val] : e \in S}

\* start implements the map's Start: the new challenge replaces the one of its name,
\* and the popped ones are gone.
LEMMA StartIsMapStart ==
  ASSUME C!IInv, C!Bounds, NEW c \in Callers, C!Start(c)
  PROVE  C!M!Start
<1>1. calls[c].op = "start" /\ starts < MaxStarts /\ taken' = taken
  BY DEF C!Start
<1>2. PICK now, new, stored, q, n : Started(c, now, new, stored, q, n)
  BY <1>1, StartParts
<1>3. /\ new = [key |-> calls[c].key, expires |-> now + Ttl, val |-> starts + 1] /\ new \in C!Entry
      /\ stored = {d \in entries : d.key # new.key} \cup {new}
      /\ entries' = {d \in stored : \A i \in 1..n : ~C!Same(d, q[i])}
  BY <1>2, Zenon DEF Started
<1>4. PICK key, val, pair : key = new.key /\ val = new.val /\ pair = [key |-> key, val |-> val]
  OBVIOUS
<1>5. key \in Keys /\ val \in 1..MaxStarts /\ val = starts + 1
  BY <1>3, <1>4 DEF C!Entry
<1>6. PICK old, now1 : old = Held(entries) /\ now1 = Held(entries')
  OBVIOUS
<1>7. PICK same : same = {d \in old : d.key = key}
  OBVIOUS
<1>8. PICK gone : gone = old \ now1
  OBVIOUS
<1>9. /\ starts \in Nat /\ \A e \in entries : e.val \in Nat /\ e.val <= starts
      /\ \A m \in taken : m \in Nat /\ m <= starts
  BY EntryFields DEF C!IInv, C!TypeOK, C!Fresh
<1>10. (\A d \in old : d.val # val) /\ val \notin taken
  BY <1>5, <1>6, <1>9 DEF Held
<1>11. now1 \subseteq (old \ same) \cup {pair}
  <2> SUFFICES ASSUME NEW e \in entries'
               PROVE  [key |-> e.key, val |-> e.val] \in (old \ same) \cup {pair}
    BY <1>6 DEF Held
  <2>1. e \in stored
    BY <1>3
  <2>2. CASE e = new
    BY <1>4, <2>2
  <2>3. CASE e \in entries /\ e.key # new.key
    BY <1>4, <1>6, <1>7, <2>3 DEF Held
  <2> QED BY <1>3, <2>1, <2>2, <2>3
<1>12. pair \notin old
  BY <1>4, <1>10
<1>13. \/ now1 = (old \ (gone \cup same)) \cup {pair}
       \/ now1 = old \ (gone \cup same)
  BY <1>8, <1>11, <1>12
<1>14. gone \in SUBSET old
  BY <1>8
<1> HIDE DEF Held
<1> QED BY <1>1, <1>4, <1>5, <1>6, <1>7, <1>10, <1>13, <1>14 DEF C!M!Start, C!M!Of, Held

\* consume implements Take, or Vanish if there is nothing or it has expired.
LEMMA ConsumeIsTake ==
  ASSUME C!IInv, C!Bounds, NEW c \in Callers, C!Consume(c)
  PROVE  C!M!Take \/ C!M!Vanish
<1>1. PICK found : found = {e \in entries : e.key = calls[c].key}
  OBVIOUS
<1>2. PICK got : got = {e.val : e \in {f \in found : calls[c].now <= f.expires}}
  OBVIOUS
<1>3. entries' = entries \ found /\ taken' = taken \cup got
  BY <1>1, <1>2 DEF C!Consume
<1>4. PICK old, now1 : old = Held(entries) /\ now1 = Held(entries')
  OBVIOUS
<1>5. CASE got = {}
  <2>1. now1 \in SUBSET old /\ taken' = taken
    BY <1>3, <1>4, <1>5 DEF Held
  <2> QED BY <1>4, <2>1 DEF C!M!Vanish, Held
<1>6. CASE got # {}
  <2>1. PICK e \in found : e.val \in got
    BY <1>2, <1>6
  <2>2. found = {e}
    BY <1>1, <2>1 DEF C!IInv, C!TypeOK
  <2>3. got = {e.val}
    BY <1>2, <2>1, <2>2
  <2>4. PICK pair : pair = [key |-> e.key, val |-> e.val]
    OBVIOUS
  <2>5. pair \in old /\ pair.val = e.val /\ pair.val \notin taken
    BY <1>1, <1>4, <2>1, <2>4 DEF Held, C!IInv, C!Fresh
  <2>6. now1 = old \ {pair}
    <3>1. \A d \in entries : [key |-> d.key, val |-> d.val] = pair <=> d = e
      <4>1. \A d \in entries : [key |-> d.key, val |-> d.val] = pair => d.val = e.val
        BY <2>4
      <4> QED BY <1>1, <2>1, <2>4, <4>1 DEF C!IInv, C!Fresh
    <3> QED BY <1>3, <1>4, <2>2, <3>1 DEF Held
  <2>7. taken' = taken \cup {pair.val}
    BY <1>3, <2>3, <2>5
  <2> QED BY <1>4, <2>5, <2>6, <2>7 DEF C!M!Take, Held
<1> QED BY <1>5, <1>6

\* ChallengeStore implements the map that AdminAuth's ceremonies rely on: one
\* challenge per name, returned to one caller only, even when submissions race.
THEOREM ChallengeRefinement ==
  ASSUME C!Bounds
  PROVE  C!Spec => ImplementsChallengeMap
<1>1. C!Init => C!M!Init
  BY DEF C!Init, C!M!Init
<1>2. C!IInv /\ [C!Next]_(C!vars) => [C!M!Next]_(C!M!vars)
  <2> SUFFICES ASSUME C!IInv, [C!Next]_(C!vars) PROVE C!M!Next \/ UNCHANGED C!M!vars
    OBVIOUS
  <2>1. CASE C!Tick \/ (\E c \in Callers : C!Enter(c)) \/ UNCHANGED C!vars
    BY <2>1 DEF C!Tick, C!Enter, C!vars, C!M!vars
  <2>2. CASE \E c \in Callers : C!Start(c)
    BY <2>2, StartIsMapStart DEF C!M!Next
  <2>3. CASE \E c \in Callers : C!Consume(c)
    BY <2>3, ConsumeIsTake DEF C!M!Next
  <2> QED BY <2>1, <2>2, <2>3 DEF C!Next
<1> QED BY <1>1, <1>2, ChallengeInvariant, PTL DEF C!Spec, ImplementsChallengeMap, C!ImplementsChallengeMap

-----------------------------------------------------------------------------
(***************************************************************************)
(* TlsListener                                                             *)
(***************************************************************************)
Busy == {"stat", "load", "release"}
Acceptors == {"starting", "accepting", "pausing"}

LEMMA TlsTypes ==
  ASSUME T!Bounds, T!IInv
  PROVE  /\ configs \in Seq(T!Config) /\ Len(configs) \in Nat /\ Len(configs) \in 1..MaxConfigs
         /\ DOMAIN configs = 1..Len(configs) /\ MaxConfigs \in Nat
         /\ \A i \in 1..Len(configs) : configs[i] \in T!Config
         /\ handshakes \in [T!Callers -> T!Call]
         /\ disk \in [T!Files -> T!Versions] /\ T!Versions \subseteq Nat
<1>1. /\ configs \in Seq(T!Config) /\ Len(configs) \in 1..MaxConfigs
      /\ handshakes \in [T!Callers -> T!Call] /\ disk \in [T!Files -> T!Versions]
  BY DEF T!IInv, T!TypeOK
<1>2. MaxConfigs \in Nat /\ T!Versions \subseteq Nat
  BY DEF T!Bounds, T!Versions
<1> QED BY <1>1, <1>2, LenProperties, ElementOfSeq

\* The snapshots that were published stay, and files are only replaced by newer ones.
Later ==
  /\ Len(configs) \in Nat /\ Len(configs') \in Nat /\ Len(configs) <= Len(configs')
  /\ \A i \in 1..Len(configs) : configs'[i] = configs[i]
  /\ \A f \in T!Files : disk[f] \in Nat /\ disk'[f] \in Nat /\ disk[f] <= disk'[f]

LEMMA StampFields ==
  ASSUME T!Bounds, NEW b \in T!Stamp
  PROVE  b.pair \in Pairs \cup {NoPair} /\ b.cert \in Nat /\ b.key \in Nat
  BY DEF T!Bounds, T!Stamp, T!Versions

LEMMA PairFiles ==
  ASSUME NEW p \in Pairs
  PROVE  <<p, "cert">> \in T!Files /\ <<p, "key">> \in T!Files
  BY DEF T!Files, T!Kinds

LEMMA SeenLater ==
  ASSUME T!Bounds, Later, NEW b \in T!Stamp, NEW pair \in Pairs \cup {NoPair}, T!Seen(b, pair)
  PROVE  T!Seen(b, pair)'
<1>1. b.cert \in Nat /\ b.key \in Nat
  BY StampFields
<1>2. CASE pair = NoPair
  BY <1>2 DEF T!Seen
<1>3. CASE pair \in Pairs /\ pair # NoPair
  <2>1. <<pair, "cert">> \in T!Files /\ <<pair, "key">> \in T!Files
    BY <1>3, PairFiles
  <2>2. b.pair = pair /\ b.cert <= disk[<<pair, "cert">>] /\ b.key <= disk[<<pair, "key">>]
    BY <1>3 DEF T!Seen
  <2>3. b.cert <= disk'[<<pair, "cert">>]
    BY <1>1, <2>1, <2>2 DEF Later
  <2>4. b.key <= disk'[<<pair, "key">>]
    BY <1>1, <2>1, <2>2 DEF Later
  <2> QED BY <1>3, <2>2, <2>3, <2>4 DEF T!Seen
<1> QED BY <1>2, <1>3

LEMMA AfterLater ==
  ASSUME T!Bounds, Later, NEW kind, NEW b \in T!Stamp, NEW l \in T!Stamp, b.pair \in Pairs,
         T!After(kind, b, l)
  PROVE  T!After(kind, b, l)'
<1>1. l.cert \in Nat /\ l.key \in Nat
  BY StampFields
<1>2. <<b.pair, "cert">> \in T!Files /\ <<b.pair, "key">> \in T!Files
  BY PairFiles
<1>3. CASE kind = "cert"
  <2>1. b.cert <= l.cert /\ l.cert <= disk[<<b.pair, "cert">>]
    BY <1>3 DEF T!After
  <2>2. l.cert <= disk'[<<b.pair, "cert">>]
    BY <1>1, <1>2, <2>1 DEF Later
  <2> QED BY <1>3, <2>1, <2>2 DEF T!After
<1>4. CASE kind # "cert"
  <2>1. b.key <= l.key /\ l.key <= disk[<<b.pair, "key">>]
    BY <1>4 DEF T!After
  <2>2. l.key <= disk'[<<b.pair, "key">>]
    BY <1>1, <1>2, <2>1 DEF Later
  <2> QED BY <1>4, <2>1, <2>2 DEF T!After
<1> QED BY <1>3, <1>4

\* The site and the kind of a place.
LEMMA PlaceOfSite ==
  ASSUME T!Bounds, NEW s \in T!Sites
  PROVE  \E i, k \in T!Places : /\ T!SiteAt(i) = s /\ T!KindAt(i) = "cert"
                                /\ T!SiteAt(k) = s /\ T!KindAt(k) = "key"
<1>1. PICK j \in DOMAIN SiteOrder : SiteOrder[j] = s
  BY DEF T!Sites
<1>2. DOMAIN SiteOrder = 1..Len(SiteOrder) /\ Len(SiteOrder) \in Nat
  BY LenProperties DEF T!Bounds
<1>3. PICK i \in T!Places : i = 2 * j - 1
  BY <1>2 DEF T!Places
<1>4. PICK k \in T!Places : k = 2 * j
  BY <1>2 DEF T!Places
<1>5. j \in Nat
  BY <1>2
<1>6. (i + 1) \div 2 = j /\ i % 2 = 1
  BY <1>3, <1>5
<1>7. (k + 1) \div 2 = j /\ k % 2 = 0
  BY <1>4, <1>5
<1> QED BY <1>1, <1>6, <1>7 DEF T!SiteAt, T!KindAt

LEMMA SiteOfPlace ==
  ASSUME T!Bounds, NEW i \in T!Places
  PROVE  T!SiteAt(i) \in T!Sites /\ T!KindAt(i) \in {"cert", "key"}
<1>1. DOMAIN SiteOrder = 1..Len(SiteOrder) /\ Len(SiteOrder) \in Nat
  BY LenProperties DEF T!Bounds
<1>2. (i + 1) \div 2 \in 1..Len(SiteOrder)
  BY <1>1 DEF T!Places
<1> QED BY <1>1, <1>2 DEF T!SiteAt, T!KindAt, T!Sites

LEMMA CallTypes ==
  ASSUME NEW call \in T!Call
  PROVE  /\ call.at \in {"away", "waiting", "get", "look", "stat", "load", "release", "open"}
         /\ call.config \in 0..MaxConfigs /\ call.todo \in SUBSET T!Places
         /\ call.print \in [T!Sites -> T!Stamp] /\ call.loaded \in [T!Sites -> T!Stamp]
         /\ call.why \in {"", "fast", "busy", "same", "built"} /\ call.from \in T!Config
  BY DEF T!Call

\* What a call knows stays true while snapshots are published and files replaced.
LEMMA CallLater ==
  ASSUME T!Bounds, T!IInv, Later, NEW call \in T!Call, T!CallInv(call)
  PROVE  T!CallInv(call)'
<1>1. PICK old : old = configs[call.config]
  OBVIOUS
<1>2. call.print \in [T!Sites -> T!Stamp] /\ call.loaded \in [T!Sites -> T!Stamp]
  BY CallTypes
<1>3. CASE ~(call.at \in {"look", "stat", "load"} \/ call.why # "")
  BY <1>3 DEF T!CallInv
<1>4. CASE call.at \in {"look", "stat", "load"} \/ call.why # ""
  <2>1. call.config \in 1..Len(configs)
    BY <1>4 DEF T!CallInv
  <2>2. old \in T!Config /\ configs'[call.config] = old
    BY <1>1, <2>1, TlsTypes DEF Later
  <2>3. \A s \in T!Sites : old[s] \in Pairs \cup {NoPair}
    BY <2>2 DEF T!Config
  <2>4. call.config \in 1..Len(configs')
    BY <2>1 DEF Later
  <2>5. \A cf : T!OwnFiles(cf)' = T!OwnFiles(cf)
    BY DEF T!OwnFiles
  <2>6. ASSUME call.at \in {"stat", "load"}
        PROVE  /\ call.todo \subseteq T!OwnFiles(old)
               /\ \A s \in T!Sites : T!Seen(call.print[s], old[s]) /\ T!Seen(call.print[s], old[s])'
               /\ \A s \in T!Sites : old[s] = NoPair => call.loaded[s] = T!NoStamp
    <3>1. /\ call.todo \subseteq T!OwnFiles(old)
          /\ \A s \in T!Sites : T!Seen(call.print[s], old[s])
          /\ \A s \in T!Sites : old[s] = NoPair => call.loaded[s] = T!NoStamp
      BY <1>1, <2>6 DEF T!CallInv
    <3>2. \A s \in T!Sites : T!Seen(call.print[s], old[s])'
      BY <1>2, <2>3, <3>1, SeenLater
    <3> QED BY <3>1, <3>2
  <2>7. ASSUME call.at = "load", NEW i \in T!OwnFiles(old) \ call.todo
        PROVE  T!After(T!KindAt(i), call.print[T!SiteAt(i)], call.loaded[T!SiteAt(i)])'
    <3>1. T!After(T!KindAt(i), call.print[T!SiteAt(i)], call.loaded[T!SiteAt(i)])
      BY <1>1, <2>7 DEF T!CallInv
    <3>2. i \in T!Places /\ old[T!SiteAt(i)] # NoPair
      BY <2>7 DEF T!OwnFiles
    <3>3. T!SiteAt(i) \in T!Sites
      BY <3>2, SiteOfPlace
    <3>4. call.print[T!SiteAt(i)].pair = old[T!SiteAt(i)]
      BY <2>6, <2>7, <3>3 DEF T!Seen
    <3>5. call.print[T!SiteAt(i)].pair \in Pairs
      BY <2>3, <3>2, <3>3, <3>4
    <3> QED BY <1>2, <3>1, <3>3, <3>5, AfterLater
  <2>8. call.why \notin {"", "busy"} => call.from = old
    BY <1>1 DEF T!CallInv
  <2> QED BY <2>2, <2>4, <2>5, <2>6, <2>7, <2>8 DEF T!CallInv
<1> QED BY <1>3, <1>4

LEMMA CacheLater ==
  ASSUME T!Bounds, T!IInv, Later, UNCHANGED <<checked, built, contexts>>
  PROVE  T!CacheInv'
<1> SUFFICES ASSUME checked # 0 PROVE T!CacheInv'
  BY DEF T!CacheInv
<1>1. /\ checked \in 1..Len(configs)
      /\ \A s \in T!Sites : built[s].pair = configs[checked][s]
  BY DEF T!IInv, T!CacheInv
<1>2. PICK l \in [T!Sites -> T!Stamp] : \A s \in T!Sites :
         /\ contexts[s] = T!Usable(l[s])
         /\ IF built[s].pair = NoPair THEN built[s] = T!NoStamp /\ l[s] = T!NoStamp
            ELSE T!After("cert", built[s], l[s]) /\ T!After("key", built[s], l[s])
  BY DEF T!IInv, T!CacheInv
<1>3. configs[checked]' = configs[checked] /\ checked' \in 1..Len(configs')
  BY <1>1 DEF Later
<1>4. built \in [T!Sites -> T!Stamp]
  BY DEF T!IInv, T!TypeOK
<1>5. ASSUME NEW s \in T!Sites, built[s].pair # NoPair
      PROVE  T!After("cert", built[s], l[s])' /\ T!After("key", built[s], l[s])'
  <2>1. PICK b : b = built[s]
    OBVIOUS
  <2>2. b \in T!Stamp /\ b.pair \in Pairs
    BY <1>4, <1>5, <2>1, StampFields
  <2>3. T!After("cert", b, l[s]) /\ T!After("key", b, l[s])
    BY <1>2, <1>5, <2>1
  <2>4. T!After("cert", b, l[s])' /\ T!After("key", b, l[s])'
    BY <2>2, <2>3, AfterLater
  <2>5. built'[s] = b
    BY <2>1
  <2> QED BY <2>4, <2>5 DEF T!After
<1>6. \A s \in T!Sites :
         /\ contexts'[s] = T!Usable(l[s])
         /\ IF built'[s].pair = NoPair THEN built'[s] = T!NoStamp /\ l[s] = T!NoStamp
            ELSE T!After("cert", built[s], l[s])' /\ T!After("key", built[s], l[s])'
  BY <1>2, <1>5
<1>7. \A s \in T!Sites : built'[s].pair = configs'[checked'][s]
  BY <1>1, <1>3
<1> QED BY <1>3, <1>6, <1>7 DEF T!CacheInv, T!After, T!Usable

LEMMA SameWorld ==
  ASSUME T!Bounds, T!IInv, UNCHANGED <<configs, disk>>
  PROVE  Later
  BY TlsTypes DEF Later

\* The world changes around the calls, or the acceptor moves.
LEMMA WorldStep ==
  ASSUME T!Bounds, T!IInv, Later, T!TypeOK',
         UNCHANGED <<checked, built, contexts, refreshing, handshakes>>
  PROVE  T!IInv'
<1>1. T!OneRefresh'
  BY DEF T!IInv, T!OneRefresh, T!Refreshers
<1>2. T!CacheInv'
  BY CacheLater
<1>3. \A c \in T!Callers : T!CallInv(handshakes[c])'
  <2> TAKE c \in T!Callers
  <2>1. PICK call : call = handshakes[c]
    OBVIOUS
  <2>2. T!CallInv(call)'
    BY <2>1, CallLater, TlsTypes DEF T!IInv
  <2> QED BY <2>1, <2>2 DEF T!CallInv
<1> QED BY <1>1, <1>2, <1>3 DEF T!IInv

\* One call changes, and perhaps the cache.
LEMMA CurrentStep ==
  ASSUME T!Bounds, T!IInv, NEW c \in T!Callers, NEW call \in T!Call, T!CallInv(call),
         handshakes' = [handshakes EXCEPT ![c] = call], UNCHANGED <<configs, disk, limit>>,
         acceptor' \in Acceptors, checked' \in 0..MaxConfigs, built' \in [T!Sites -> T!Stamp],
         contexts' \in [T!Sites -> T!Versions], refreshing' \in BOOLEAN,
         T!OneRefresh', T!CacheInv'
  PROVE  T!IInv'
<1>1. handshakes \in [T!Callers -> T!Call]
  BY TlsTypes
<1>2. handshakes' \in [T!Callers -> T!Call]
  BY <1>1
<1>3. T!TypeOK'
  BY <1>2 DEF T!IInv, T!TypeOK, Acceptors
<1>4. Later
  BY SameWorld
<1>5. \A d \in T!Callers : T!CallInv(handshakes[d])'
  <2> TAKE d \in T!Callers
  <2>1. PICK x : x = handshakes'[d]
    OBVIOUS
  <2>2. x \in T!Call /\ T!CallInv(x)
    BY <1>1, <2>1 DEF T!IInv
  <2>3. T!CallInv(x)'
    BY <1>4, <2>2, CallLater
  <2> QED BY <2>1, <2>3 DEF T!CallInv
<1> QED BY <1>3, <1>5 DEF T!IInv

\* One call changes; it does not begin to refresh, and the cache stays.
LEMMA CallStep ==
  ASSUME T!Bounds, T!IInv, NEW c \in T!Callers, NEW call \in T!Call, T!CallInv(call),
         handshakes' = [handshakes EXCEPT ![c] = call],
         UNCHANGED <<configs, disk, checked, built, contexts, refreshing, limit>>,
         acceptor' \in Acceptors, call.at \in Busy => handshakes[c].at \in Busy
  PROVE  T!IInv'
<1>1. handshakes \in [T!Callers -> T!Call]
  BY TlsTypes
<1>2. T!Refreshers' \subseteq T!Refreshers
  BY <1>1 DEF T!Refreshers, Busy
<1>3. T!OneRefresh'
  BY <1>2 DEF T!IInv, T!OneRefresh
<1>4. T!CacheInv'
  BY SameWorld, CacheLater
<1>5. /\ checked' \in 0..MaxConfigs /\ built' \in [T!Sites -> T!Stamp]
      /\ contexts' \in [T!Sites -> T!Versions] /\ refreshing' \in BOOLEAN
  BY DEF T!IInv, T!TypeOK
<1> QED BY <1>3, <1>4, <1>5, CurrentStep

\* A call that is not in current(), or has only begun it.
LEMMA IdleCall ==
  ASSUME T!Bounds, NEW at \in {"away", "get"}
  PROVE  /\ [T!Away EXCEPT !.at = at] \in T!Call /\ T!CallInv([T!Away EXCEPT !.at = at])
         /\ T!Away \in T!Call
<1>1. PICK call : call = [T!Away EXCEPT !.at = at]
  OBVIOUS
<1>2. /\ T!NoStamp \in T!Stamp /\ T!Blank \in [T!Sites -> T!Stamp] /\ 0 \in 0..MaxConfigs
      /\ [s \in T!Sites |-> NoPair] \in T!Config
  BY DEF T!Bounds, T!NoStamp, T!Stamp, T!Versions, T!Blank, T!Config
<1>3. T!Away \in T!Call
  BY <1>2 DEF T!Away, T!Call
<1>4. call \in T!Call
  BY <1>1, <1>3 DEF T!Call
<1>5. call.at = at /\ call.why = ""
  BY <1>1 DEF T!Away
<1>6. T!CallInv(call)
  BY <1>5 DEF T!CallInv
<1> QED BY <1>1, <1>3, <1>4, <1>6

LEMMA AwayCall ==
  ASSUME T!Bounds
  PROVE  T!Away \in T!Call /\ T!CallInv(T!Away) /\ T!Away.at = "away"
<1>1. T!Away \in T!Call
  BY IdleCall
<1>2. T!Away.at = "away" /\ T!Away.why = ""
  BY DEF T!Away
<1> QED BY <1>1, <1>2 DEF T!CallInv

\* A call that leaves current() with its answer, or has none.
LEMMA MovedTo ==
  ASSUME NEW call \in T!Call, T!CallInv(call), NEW at \in {"waiting", "open"}
  PROVE  [call EXCEPT !.at = at] \in T!Call /\ T!CallInv([call EXCEPT !.at = at])
<1>1. PICK new : new = [call EXCEPT !.at = at]
  OBVIOUS
<1>2. new \in T!Call
  BY <1>1 DEF T!Call
<1>3. new.at = at /\ new.why = call.why /\ new.config = call.config /\ new.from = call.from
  BY <1>1 DEF T!Call
<1>4. T!CallInv(new)
  BY <1>3 DEF T!CallInv
<1> QED BY <1>1, <1>2, <1>4

LEMMA NewConfigStep ==
  ASSUME T!Bounds, T!IInv, T!NewConfig
  PROVE  T!IInv'
<1>1. PICK config \in T!Config : configs' = Append(configs, config)
  BY DEF T!NewConfig
<1>2. /\ Len(configs) < MaxConfigs
      /\ UNCHANGED <<disk, limit, checked, built, contexts, refreshing, acceptor, handshakes>>
  BY DEF T!NewConfig, T!cacheVars
<1>3. /\ configs' \in Seq(T!Config) /\ Len(configs') = Len(configs) + 1
      /\ \A i \in 1..Len(configs) : configs'[i] = configs[i]
  BY <1>1, TlsTypes, AppendProperties
<1>4. Len(configs) \in Nat /\ MaxConfigs \in Nat
  BY TlsTypes
<1>5. Len(configs') \in 1..MaxConfigs /\ Len(configs') \in Nat /\ Len(configs) <= Len(configs')
  BY <1>2, <1>3, <1>4
<1>6. \A f \in T!Files : disk[f] \in Nat /\ disk'[f] = disk[f]
  BY <1>2, TlsTypes
<1>7. Later
  BY <1>3, <1>4, <1>5, <1>6 DEF Later
<1>8. T!TypeOK'
  BY <1>2, <1>3, <1>5 DEF T!IInv, T!TypeOK
<1> QED BY <1>2, <1>7, <1>8, WorldStep

LEMMA WriteFileStep ==
  ASSUME T!Bounds, T!IInv, T!WriteFile
  PROVE  T!IInv'
<1>1. PICK f \in T!Files : disk[f] < MaxVersion /\ disk' = [disk EXCEPT ![f] = @ + 1]
  BY DEF T!WriteFile
<1>2. UNCHANGED <<configs, limit, checked, built, contexts, refreshing, acceptor, handshakes>>
  BY DEF T!WriteFile, T!cacheVars
<1>3. disk \in [T!Files -> T!Versions] /\ T!Versions = 0..MaxVersion /\ MaxVersion \in Nat
  BY TlsTypes DEF T!Bounds, T!Versions
<1>4. disk[f] + 1 \in T!Versions
  BY <1>1, <1>3
<1>5. disk' \in [T!Files -> T!Versions]
  BY <1>1, <1>3, <1>4
<1>6. \A g \in T!Files : disk[g] \in Nat /\ disk'[g] \in Nat /\ disk[g] <= disk'[g]
  <2> TAKE g \in T!Files
  <2>1. disk[g] \in Nat /\ disk'[g] \in Nat
    BY <1>3, <1>5
  <2>2. disk'[g] = disk[g] \/ disk'[g] = disk[g] + 1
    BY <1>1, <1>3
  <2> QED BY <2>1, <2>2
<1>7. Later
  BY <1>2, <1>6, TlsTypes DEF Later
<1>8. T!TypeOK'
  BY <1>2, <1>5 DEF T!IInv, T!TypeOK
<1> QED BY <1>2, <1>7, <1>8, WorldStep

LEMMA AcceptorStep ==
  ASSUME T!Bounds, T!IInv, T!BeginAccept \/ T!RetryAccept \/ \E c \in Conns : T!AcceptFails(c)
  PROVE  T!IInv'
<1>1. /\ UNCHANGED <<configs, disk, limit, checked, built, contexts, refreshing, handshakes>>
      /\ acceptor' \in Acceptors
  BY DEF T!BeginAccept, T!RetryAccept, T!AcceptFails, T!cacheVars, Acceptors
<1>2. T!TypeOK'
  BY <1>1 DEF T!IInv, T!TypeOK, Acceptors
<1>3. Later
  BY <1>1, SameWorld
<1> QED BY <1>1, <1>2, <1>3, WorldStep

LEMMA ConnectionStep ==
  ASSUME T!Bounds, T!IInv, NEW c \in Conns,
         T!Accept(c) \/ T!Connect(c) \/ T!ClientResets(c) \/ T!End(c)
  PROVE  T!IInv'
<1>1. c \in T!Callers /\ acceptor \in Acceptors /\ handshakes \in [T!Callers -> T!Call]
  BY DEF T!Callers, T!IInv, T!TypeOK, Acceptors
<1>2. /\ UNCHANGED <<configs, disk, checked, built, contexts, refreshing, limit>>
      /\ acceptor' \in Acceptors
  BY <1>1 DEF T!Accept, T!Connect, T!ClientResets, T!End, T!Step, T!cacheVars, Acceptors
<1>3. PICK old : old = handshakes[c]
  OBVIOUS
<1>4. old \in T!Call /\ T!CallInv(old)
  BY <1>1, <1>3 DEF T!IInv
<1>5. CASE T!Accept(c)
  <2>1. handshakes' = [handshakes EXCEPT ![c] = [T!Away EXCEPT !.at = "get"]]
    BY <1>5 DEF T!Accept
  <2>2. PICK new : new = [T!Away EXCEPT !.at = "get"]
    OBVIOUS
  <2>3. new \in T!Call /\ T!CallInv(new) /\ new.at \notin Busy
    BY <2>2, IdleCall DEF Busy, T!Away
  <2> QED BY <1>1, <1>2, <2>1, <2>2, <2>3, CallStep
<1>6. CASE T!Connect(c)
  <2>1. handshakes' = [handshakes EXCEPT ![c] = [old EXCEPT !.at = "waiting"]]
    BY <1>1, <1>3, <1>6 DEF T!Connect
  <2>2. PICK new : new = [old EXCEPT !.at = "waiting"]
    OBVIOUS
  <2>3. new \in T!Call /\ T!CallInv(new) /\ new.at \notin Busy
    BY <1>4, <2>2, MovedTo DEF Busy, T!Call
  <2> QED BY <1>1, <1>2, <2>1, <2>2, <2>3, CallStep
<1>7. CASE T!ClientResets(c) \/ T!End(c)
  <2>1. handshakes' = [handshakes EXCEPT ![c] = T!Away]
    BY <1>7 DEF T!ClientResets, T!End, T!Step
  <2>2. T!Away \in T!Call /\ T!CallInv(T!Away) /\ T!Away.at \notin Busy
    BY AwayCall DEF Busy
  <2> QED BY <1>1, <1>2, <2>1, <2>2, CallStep
<1> QED BY <1>5, <1>6, <1>7

LEMMA GetConfigStep ==
  ASSUME T!Bounds, T!IInv, NEW c \in T!Callers, T!GetConfig(c)
  PROVE  T!IInv'
<1>1. PICK old, n : old = handshakes[c] /\ n = Len(configs)
  OBVIOUS
<1>2. PICK new : new = [old EXCEPT !.at = "look", !.config = n]
  OBVIOUS
<1>3. /\ old.at = "get" /\ handshakes' = [handshakes EXCEPT ![c] = new]
      /\ UNCHANGED <<configs, disk, checked, built, contexts, refreshing, limit, acceptor>>
  BY <1>1, <1>2 DEF T!GetConfig, T!Step, T!cacheVars
<1>4. old \in T!Call /\ T!CallInv(old) /\ acceptor \in Acceptors
  BY <1>1, TlsTypes DEF T!IInv, T!TypeOK, Acceptors
<1>5. n \in 1..n /\ n \in 0..MaxConfigs
  BY <1>1, TlsTypes
<1>6. new \in T!Call
  BY <1>2, <1>4, <1>5 DEF T!Call
<1>7. new.at = "look" /\ new.config = n /\ new.why = old.why
  BY <1>2, <1>4 DEF T!Call
<1>8. old.why = ""
  BY <1>3, <1>4 DEF T!CallInv
<1>9. T!CallInv(new)
  BY <1>1, <1>5, <1>7, <1>8 DEF T!CallInv
<1> QED BY <1>3, <1>4, <1>6, <1>7, <1>9, CallStep DEF Busy

\* The answer of current(): the pairs of the cache, for the call's snapshot.
LEMMA AnswerFields ==
  ASSUME T!Bounds, T!IInv, NEW c \in T!Callers, NEW at \in {"open", "release"},
         NEW why \in {"fast", "busy", "same", "built"}
  PROVE  /\ T!Answered(c, at, why) \in T!Call
         /\ T!Answered(c, at, why).at = at /\ T!Answered(c, at, why).why = why
         /\ T!Answered(c, at, why).config = handshakes[c].config
         /\ T!Answered(c, at, why).from = [s \in T!Sites |-> built[s].pair]
<1>1. PICK n, from : n = handshakes[c].config /\ from = [s \in T!Sites |-> built[s].pair]
  OBVIOUS
<1>2. PICK a : a = [T!Away EXCEPT !.at = at, !.config = n, !.why = why, !.from = from]
  OBVIOUS
<1>3. T!Answered(c, at, why) = a
  BY <1>1, <1>2 DEF T!Answered, T!Paired
<1>4. n \in 0..MaxConfigs
  BY <1>1, TlsTypes, CallTypes
<1>5. built \in [T!Sites -> T!Stamp]
  BY DEF T!IInv, T!TypeOK
<1>6. \A s \in T!Sites : built[s].pair \in Pairs \cup {NoPair}
  BY <1>5, StampFields
<1>7. from \in T!Config
  BY <1>1, <1>6 DEF T!Config
<1>8. a \in T!Call
  BY <1>2, <1>4, <1>7, AwayCall DEF T!Call
<1>9. a.at = at /\ a.why = why /\ a.config = n /\ a.from = from
  BY <1>2, AwayCall DEF T!Call
<1> QED BY <1>1, <1>3, <1>8, <1>9

\* The pairs of the cache are those of the snapshot it was checked for.
LEMMA PairsOf ==
  ASSUME T!Bounds, NEW config \in T!Config, \A s \in T!Sites : built[s].pair = config[s]
  PROVE  [s \in T!Sites |-> built[s].pair] = config
  BY DEF T!Config

LEMMA AnswerIsFine ==
  ASSUME T!Bounds, T!IInv, NEW a \in T!Call, a.at \in {"open", "release"},
         a.config \in 1..Len(configs), a.why # "busy" => a.from = configs[a.config]
  PROVE  T!CallInv(a)
  BY DEF T!CallInv

LEMMA LookStep ==
  ASSUME T!Bounds, T!IInv, NEW c \in T!Callers, T!Look(c)
  PROVE  T!IInv'
<1>1. PICK old, n : old = handshakes[c] /\ n = old.config
  OBVIOUS
<1>2. old \in T!Call /\ T!CallInv(old) /\ acceptor \in Acceptors /\ old.at = "look"
  BY <1>1, TlsTypes DEF T!IInv, T!TypeOK, Acceptors, T!Look
<1>3. n \in 1..Len(configs) /\ n \in Nat /\ n # 0
  <2>1. n \in 1..Len(configs)
    BY <1>1, <1>2 DEF T!CallInv
  <2>2. PICK len \in Nat : len = Len(configs)
    BY TlsTypes
  <2>3. n \in 1..len
    BY <2>1, <2>2
  <2>4. n \in Nat /\ n # 0
    BY <2>2, <2>3
  <2> QED BY <2>1, <2>4
<1>4. PICK config : config = configs[n]
  OBVIOUS
<1>5. config \in T!Config
  BY <1>3, <1>4, TlsTypes
<1>6. CASE checked = n /\ T!Step(c, T!Answered(c, "open", "fast")) /\ UNCHANGED T!cacheVars
  <2>1. PICK a : a = T!Answered(c, "open", "fast")
    OBVIOUS
  <2>2. /\ a \in T!Call /\ a.at = "open" /\ a.why = "fast" /\ a.config = n
        /\ a.from = [s \in T!Sites |-> built[s].pair]
    BY <1>1, <2>1, AnswerFields
  <2>3. \A s \in T!Sites : built[s].pair = config[s]
    BY <1>3, <1>4, <1>6 DEF T!IInv, T!CacheInv
  <2>4. a.from = configs[a.config]
    BY <1>4, <1>5, <2>2, <2>3, PairsOf
  <2>5. T!CallInv(a)
    BY <1>3, <2>2, <2>4, AnswerIsFine
  <2>6. /\ handshakes' = [handshakes EXCEPT ![c] = a]
        /\ UNCHANGED <<configs, disk, checked, built, contexts, refreshing, limit, acceptor>>
    BY <1>6, <2>1 DEF T!Step, T!cacheVars
  <2> QED BY <1>2, <2>2, <2>5, <2>6, CallStep DEF Busy
<1>7. CASE T!Step(c, T!Answered(c, "open", "busy")) /\ UNCHANGED T!cacheVars
  <2>1. PICK a : a = T!Answered(c, "open", "busy")
    OBVIOUS
  <2>2. a \in T!Call /\ a.at = "open" /\ a.why = "busy" /\ a.config = n
    BY <1>1, <2>1, AnswerFields
  <2>3. T!CallInv(a)
    BY <1>3, <2>2, AnswerIsFine
  <2>4. /\ handshakes' = [handshakes EXCEPT ![c] = a]
        /\ UNCHANGED <<configs, disk, checked, built, contexts, refreshing, limit, acceptor>>
    BY <1>7, <2>1 DEF T!Step, T!cacheVars
  <2> QED BY <1>2, <2>2, <2>3, <2>4, CallStep DEF Busy
<1>8. PICK new : new = [old EXCEPT !.at = "stat", !.todo = T!OwnFiles(config),
                          !.print = [s \in T!Sites |-> [T!NoStamp EXCEPT !.pair = config[s]]],
                          !.loaded = T!Blank]
  OBVIOUS
<1>9. CASE /\ ~refreshing /\ refreshing' = TRUE /\ T!Step(c, new)
           /\ UNCHANGED <<checked, built, contexts>>
  <2>1. PICK print : print = [s \in T!Sites |-> [T!NoStamp EXCEPT !.pair = config[s]]]
    OBVIOUS
  <2>2. T!NoStamp \in T!Stamp /\ T!NoStamp.pair = NoPair /\ T!NoStamp.cert = 0 /\ T!NoStamp.key = 0
    BY DEF T!Bounds, T!NoStamp, T!Stamp, T!Versions
  <2>3. \A s \in T!Sites : config[s] \in Pairs \cup {NoPair}
    BY <1>5 DEF T!Config
  <2>4. \A s \in T!Sites : print[s] \in T!Stamp /\ T!Seen(print[s], config[s])
    <3> TAKE s \in T!Sites
    <3>1. PICK b : b = [T!NoStamp EXCEPT !.pair = config[s]]
      OBVIOUS
    <3>2. b \in T!Stamp /\ b.pair = config[s] /\ b.cert = 0 /\ b.key = 0
      BY <2>2, <2>3, <3>1 DEF T!Stamp
    <3>3. config[s] = NoPair => b = T!NoStamp
      BY <2>2, <3>1 DEF T!Stamp
    <3>4. ASSUME config[s] # NoPair
          PROVE  0 <= disk[<<config[s], "cert">>] /\ 0 <= disk[<<config[s], "key">>]
      <4>1. config[s] \in Pairs
        BY <2>3, <3>4
      <4>2. <<config[s], "cert">> \in T!Files /\ <<config[s], "key">> \in T!Files
        BY <4>1, PairFiles
      <4>3. disk[<<config[s], "cert">>] \in Nat /\ disk[<<config[s], "key">>] \in Nat
        BY <4>2, TlsTypes
      <4> QED BY <4>3
    <3>5. T!Seen(b, config[s])
      BY <3>2, <3>3, <3>4 DEF T!Seen
    <3> QED BY <2>1, <3>1, <3>2, <3>5
  <2>5. print \in [T!Sites -> T!Stamp] /\ T!Blank \in [T!Sites -> T!Stamp]
        /\ T!OwnFiles(config) \subseteq T!Places
    BY <2>1, <2>2, <2>4 DEF T!Blank, T!OwnFiles
  <2>6. new \in T!Call
    BY <1>2, <1>8, <2>1, <2>5 DEF T!Call
  <2>7. /\ new.at = "stat" /\ new.todo = T!OwnFiles(config) /\ new.print = print
        /\ new.loaded = T!Blank /\ new.config = n /\ new.why = old.why
    BY <1>1, <1>2, <1>8, <2>1 DEF T!Call
  <2>8. \A s \in T!Sites : T!Blank[s] = T!NoStamp
    BY DEF T!Blank
  <2>9. old.why = ""
    BY <1>2 DEF T!CallInv
  <2>10. T!CallInv(new)
    BY <1>3, <1>4, <2>4, <2>7, <2>8, <2>9 DEF T!CallInv
  <2>11. /\ handshakes' = [handshakes EXCEPT ![c] = new]
         /\ UNCHANGED <<configs, disk, checked, built, contexts, limit, acceptor>>
    BY <1>9 DEF T!Step
  <2>12. T!OneRefresh'
    <3>1. T!Refreshers = {}
      BY <1>9 DEF T!IInv, T!OneRefresh
    <3>2. T!Refreshers' \subseteq {c}
      BY <2>11, <3>1, TlsTypes DEF T!Refreshers
    <3> QED BY <1>9, <3>2 DEF T!OneRefresh
  <2>13. T!CacheInv'
    BY <2>11, SameWorld, CacheLater
  <2>14. /\ checked \in 0..MaxConfigs /\ built \in [T!Sites -> T!Stamp]
         /\ contexts \in [T!Sites -> T!Versions]
    BY DEF T!IInv, T!TypeOK
  <2> QED BY <1>2, <1>9, <2>6, <2>10, <2>11, <2>12, <2>13, <2>14, CurrentStep
<1> QED BY <1>1, <1>4, <1>6, <1>7, <1>8, <1>9 DEF T!Look

LEMMA NotedStamp ==
  ASSUME T!Bounds, NEW b \in T!Stamp, NEW v \in T!Versions, NEW kind \in {"cert", "key"}
  PROVE  /\ T!Noted(b, kind, v) \in T!Stamp /\ T!Noted(b, kind, v).pair = b.pair
         /\ T!Noted(b, kind, v).cert = IF kind = "cert" THEN v ELSE b.cert
         /\ T!Noted(b, kind, v).key = IF kind = "cert" THEN b.key ELSE v
<1>1. CASE kind = "cert"
  <2>1. T!Noted(b, kind, v) = [b EXCEPT !.cert = v]
    BY <1>1 DEF T!Noted
  <2> QED BY <1>1, <2>1 DEF T!Stamp
<1>2. CASE kind = "key"
  <2>1. T!Noted(b, kind, v) = [b EXCEPT !.key = v]
    BY <1>2 DEF T!Noted
  <2> QED BY <1>2, <2>1 DEF T!Stamp
<1> QED BY <1>1, <1>2

\* What a refresh works with.
LEMMA Refreshing ==
  ASSUME T!Bounds, T!IInv, NEW call \in T!Call, T!CallInv(call), call.at \in {"stat", "load"}
  PROVE  /\ call.config \in 1..Len(configs) /\ configs[call.config] \in T!Config
         /\ call.config \in 0..MaxConfigs /\ call.config # 0
         /\ call.todo \subseteq T!OwnFiles(configs[call.config])
         /\ \A s \in T!Sites : T!Seen(call.print[s], configs[call.config][s])
         /\ \A s \in T!Sites : configs[call.config][s] = NoPair => call.loaded[s] = T!NoStamp
         /\ call.why = ""
<1>1. /\ call.config \in 1..Len(configs)
      /\ call.todo \subseteq T!OwnFiles(configs[call.config])
      /\ \A s \in T!Sites : T!Seen(call.print[s], configs[call.config][s])
      /\ \A s \in T!Sites : configs[call.config][s] = NoPair => call.loaded[s] = T!NoStamp
      /\ call.why = ""
  BY DEF T!CallInv
<1>2. call.config \in 0..MaxConfigs
  BY CallTypes
<1>3. PICK len \in Nat : len = Len(configs)
  BY TlsTypes
<1>4. call.config \in 1..len
  BY <1>1, <1>3
<1>5. call.config # 0
  BY <1>3, <1>4
<1> QED BY <1>1, <1>2, <1>5, TlsTypes

\* The file of a place that has one.
LEMMA FileOfPlace ==
  ASSUME T!Bounds, T!IInv, NEW config \in T!Config, NEW i \in T!OwnFiles(config)
  PROVE  /\ i \in T!Places /\ T!SiteAt(i) \in T!Sites /\ T!KindAt(i) \in {"cert", "key"}
         /\ config[T!SiteAt(i)] \in Pairs /\ config[T!SiteAt(i)] # NoPair
         /\ disk[<<config[T!SiteAt(i)], T!KindAt(i)>>] \in T!Versions
<1>1. i \in T!Places /\ config[T!SiteAt(i)] # NoPair
  BY DEF T!OwnFiles
<1>2. T!SiteAt(i) \in T!Sites /\ T!KindAt(i) \in {"cert", "key"}
  BY <1>1, SiteOfPlace
<1>3. config[T!SiteAt(i)] \in Pairs
  BY <1>1, <1>2 DEF T!Config
<1>4. <<config[T!SiteAt(i)], T!KindAt(i)>> \in T!Files
  BY <1>2, <1>3, PairFiles
<1> QED BY <1>1, <1>2, <1>3, <1>4, TlsTypes

\* A stat brings the fingerprint of a site up to now.
LEMMA StatSees ==
  ASSUME T!Bounds, T!IInv, NEW b \in T!Stamp, NEW pair \in Pairs, pair # NoPair, T!Seen(b, pair),
         NEW kind \in {"cert", "key"}
  PROVE  T!Seen(T!Noted(b, kind, disk[<<pair, kind>>]), pair)
<1>1. <<pair, "cert">> \in T!Files /\ <<pair, "key">> \in T!Files
  BY PairFiles
<1>2. PICK v : v = disk[<<pair, kind>>]
  OBVIOUS
<1>3. v \in T!Versions /\ disk[<<pair, "cert">>] \in Nat /\ disk[<<pair, "key">>] \in Nat
  BY <1>1, <1>2, TlsTypes
<1>4. b.pair = pair /\ b.cert <= disk[<<pair, "cert">>] /\ b.key <= disk[<<pair, "key">>]
  BY DEF T!Seen
<1>5. PICK new : new = T!Noted(b, kind, v)
  OBVIOUS
<1>6. /\ new.pair = pair /\ new.cert = IF kind = "cert" THEN v ELSE b.cert
      /\ new.key = IF kind = "cert" THEN b.key ELSE v
  BY <1>3, <1>4, <1>5, NotedStamp
<1>7. new.cert <= disk[<<pair, "cert">>]
  BY <1>2, <1>3, <1>4, <1>6
<1>8. new.key <= disk[<<pair, "key">>]
  BY <1>2, <1>3, <1>4, <1>6
<1>9. T!Seen(new, pair)
  BY <1>6, <1>7, <1>8 DEF T!Seen
<1> QED BY <1>2, <1>5, <1>9

LEMMA StatFileStep ==
  ASSUME T!Bounds, T!IInv, NEW c \in T!Callers, T!StatFile(c)
  PROVE  T!IInv'
<1>1. PICK old, n : old = handshakes[c] /\ n = old.config
  OBVIOUS
<1>2. old \in T!Call /\ T!CallInv(old) /\ acceptor \in Acceptors /\ old.at = "stat"
  BY <1>1, TlsTypes DEF T!IInv, T!TypeOK, Acceptors, T!StatFile
<1>3. PICK config : config = configs[n]
  OBVIOUS
<1>4. /\ config \in T!Config /\ n \in 1..Len(configs) /\ old.todo \subseteq T!OwnFiles(config)
      /\ \A s \in T!Sites : T!Seen(old.print[s], config[s])
      /\ \A s \in T!Sites : config[s] = NoPair => old.loaded[s] = T!NoStamp
      /\ old.why = ""
  BY <1>1, <1>2, <1>3, Refreshing
<1>5. PICK i \in T!Places :
        /\ T!NextPlace(old.todo, i)
        /\ T!Step(c, [old EXCEPT !.todo = @ \ {i},
                 !.print[T!SiteAt(i)] = T!Noted(@, T!KindAt(i), T!OnDisk(c, i))])
  BY <1>1 DEF T!StatFile
<1>6. i \in T!OwnFiles(config)
  BY <1>4, <1>5 DEF T!NextPlace
<1>7. PICK site, kind, v : site = T!SiteAt(i) /\ kind = T!KindAt(i) /\ v = T!OnDisk(c, i)
  OBVIOUS
<1>8. /\ site \in T!Sites /\ kind \in {"cert", "key"} /\ config[site] \in Pairs
      /\ config[site] # NoPair /\ v = disk[<<config[site], kind>>] /\ v \in T!Versions
  BY <1>1, <1>3, <1>4, <1>6, <1>7, FileOfPlace DEF T!OnDisk
<1>9. old.print \in [T!Sites -> T!Stamp] /\ old.todo \in SUBSET T!Places
  BY <1>2, CallTypes
<1>10. PICK b : b = T!Noted(old.print[site], kind, v)
  OBVIOUS
<1>11. b \in T!Stamp /\ T!Seen(b, config[site])
  BY <1>4, <1>8, <1>9, <1>10, NotedStamp, StatSees
<1>12. PICK print : print = [old.print EXCEPT ![site] = b]
  OBVIOUS
<1>13. print \in [T!Sites -> T!Stamp] /\ \A s \in T!Sites : T!Seen(print[s], config[s])
  BY <1>4, <1>8, <1>9, <1>11, <1>12
<1>14. PICK new : new = [old EXCEPT !.todo = old.todo \ {i}, !.print = print]
  OBVIOUS
<1>15. new = [old EXCEPT !.todo = @ \ {i},
                !.print[T!SiteAt(i)] = T!Noted(@, T!KindAt(i), T!OnDisk(c, i))]
  BY <1>2, <1>7, <1>9, <1>10, <1>12, <1>14 DEF T!Call
<1>16. new \in T!Call
  BY <1>2, <1>9, <1>13, <1>14 DEF T!Call
<1>17. /\ new.at = "stat" /\ new.config = n /\ new.todo = old.todo \ {i} /\ new.print = print
       /\ new.loaded = old.loaded /\ new.why = ""
  BY <1>1, <1>2, <1>4, <1>14 DEF T!Call
<1>18. T!CallInv(new)
  BY <1>3, <1>4, <1>13, <1>17 DEF T!CallInv
<1>19. /\ handshakes' = [handshakes EXCEPT ![c] = new]
       /\ UNCHANGED <<configs, disk, checked, built, contexts, refreshing, limit, acceptor>>
  BY <1>5, <1>15 DEF T!Step, T!StatFile, T!cacheVars
<1> QED BY <1>1, <1>2, <1>16, <1>18, <1>19, CallStep DEF Busy

\* A file that is loaded now is loaded after its fingerprint was taken, and the
\* other file of the site is as it was.
LEMMA LoadIsAfter ==
  ASSUME T!Bounds, T!IInv, NEW b \in T!Stamp, NEW l \in T!Stamp, NEW pair \in Pairs,
         pair # NoPair, T!Seen(b, pair), NEW kind \in {"cert", "key"}, NEW k \in {"cert", "key"},
         k # kind => T!After(k, b, l)
  PROVE  T!After(k, b, T!Noted(l, kind, disk[<<pair, kind>>]))
<1>1. <<pair, "cert">> \in T!Files /\ <<pair, "key">> \in T!Files
  BY PairFiles
<1>2. PICK v : v = disk[<<pair, kind>>]
  OBVIOUS
<1>3. v \in T!Versions /\ v \in Nat
  BY <1>1, <1>2, TlsTypes
<1>4. b.pair = pair /\ b.cert <= disk[<<pair, "cert">>] /\ b.key <= disk[<<pair, "key">>]
  BY DEF T!Seen
<1>5. PICK new : new = T!Noted(l, kind, v)
  OBVIOUS
<1>6. /\ new.cert = IF kind = "cert" THEN v ELSE l.cert
      /\ new.key = IF kind = "cert" THEN l.key ELSE v
  BY <1>3, <1>5, NotedStamp
<1>7. CASE k = kind
  <2>1. v <= v
    BY <1>3
  <2> QED BY <1>2, <1>4, <1>5, <1>6, <1>7, <2>1 DEF T!After
<1>8. CASE k # kind
  <2>1. T!After(k, b, l)
    BY <1>8
  <2> QED BY <1>2, <1>5, <1>6, <1>8, <2>1 DEF T!After
<1> QED BY <1>7, <1>8

LEMMA LoadFileStep ==
  ASSUME T!Bounds, T!IInv, NEW c \in T!Callers, T!LoadFile(c)
  PROVE  T!IInv'
<1>1. PICK old, n : old = handshakes[c] /\ n = old.config
  OBVIOUS
<1>2. old \in T!Call /\ T!CallInv(old) /\ acceptor \in Acceptors /\ old.at = "load"
  BY <1>1, TlsTypes DEF T!IInv, T!TypeOK, Acceptors, T!LoadFile
<1>3. PICK config : config = configs[n]
  OBVIOUS
<1>4. /\ config \in T!Config /\ n \in 1..Len(configs) /\ old.todo \subseteq T!OwnFiles(config)
      /\ \A s \in T!Sites : T!Seen(old.print[s], config[s])
      /\ \A s \in T!Sites : config[s] = NoPair => old.loaded[s] = T!NoStamp
      /\ old.why = ""
  BY <1>1, <1>2, <1>3, Refreshing
<1>5. PICK i \in T!Places :
        /\ T!NextPlace(old.todo, i)
        /\ T!Step(c, [old EXCEPT !.todo = @ \ {i},
                 !.loaded[T!SiteAt(i)] = T!Noted(@, T!KindAt(i), T!OnDisk(c, i))])
  BY <1>1 DEF T!LoadFile
<1>6. i \in T!OwnFiles(config)
  BY <1>4, <1>5 DEF T!NextPlace
<1>7. PICK site, kind, v : site = T!SiteAt(i) /\ kind = T!KindAt(i) /\ v = T!OnDisk(c, i)
  OBVIOUS
<1>8. /\ site \in T!Sites /\ kind \in {"cert", "key"} /\ config[site] \in Pairs
      /\ config[site] # NoPair /\ v = disk[<<config[site], kind>>] /\ v \in T!Versions
  BY <1>1, <1>3, <1>4, <1>6, <1>7, FileOfPlace DEF T!OnDisk
<1>9. /\ old.print \in [T!Sites -> T!Stamp] /\ old.loaded \in [T!Sites -> T!Stamp]
      /\ old.todo \in SUBSET T!Places
  BY <1>2, CallTypes
<1>10. PICK l : l = T!Noted(old.loaded[site], kind, v)
  OBVIOUS
<1>11. l \in T!Stamp
  BY <1>8, <1>9, <1>10, NotedStamp
<1>12. PICK loaded : loaded = [old.loaded EXCEPT ![site] = l]
  OBVIOUS
<1>13. /\ loaded \in [T!Sites -> T!Stamp]
       /\ \A s \in T!Sites : config[s] = NoPair => loaded[s] = T!NoStamp
  BY <1>4, <1>8, <1>9, <1>11, <1>12
<1>14. ASSUME NEW j \in T!OwnFiles(config) \ (old.todo \ {i})
       PROVE  T!After(T!KindAt(j), old.print[T!SiteAt(j)], loaded[T!SiteAt(j)])
  <2>1. j \in T!OwnFiles(config)
    BY <1>14
  <2>2. T!SiteAt(j) \in T!Sites /\ T!KindAt(j) \in {"cert", "key"}
    BY <1>4, <2>1, FileOfPlace
  <2>3. j # i => T!After(T!KindAt(j), old.print[T!SiteAt(j)], old.loaded[T!SiteAt(j)])
    BY <1>1, <1>2, <1>3, <1>14 DEF T!CallInv
  <2>4. CASE T!SiteAt(j) = site
    <3>1. loaded[T!SiteAt(j)] = l
      BY <1>8, <1>9, <1>12, <2>4
    <3>2. T!KindAt(j) # kind => T!After(T!KindAt(j), old.print[site], old.loaded[site])
      BY <1>7, <2>3, <2>4
    <3>3. T!After(T!KindAt(j), old.print[site], l)
      <4>1. /\ old.print[site] \in T!Stamp /\ old.loaded[site] \in T!Stamp
            /\ T!Seen(old.print[site], config[site])
        BY <1>4, <1>8, <1>9
      <4>2. PICK k \in {"cert", "key"} : k = T!KindAt(j)
        BY <2>2
      <4>3. T!After(k, old.print[site], T!Noted(old.loaded[site], kind, disk[<<config[site], kind>>]))
        BY <1>8, <3>2, <4>1, <4>2, LoadIsAfter
      <4> QED BY <1>8, <1>10, <4>2, <4>3
    <3> QED BY <2>4, <3>1, <3>3
  <2>5. CASE T!SiteAt(j) # site
    BY <1>7, <1>9, <1>12, <2>2, <2>3, <2>5
  <2> QED BY <2>4, <2>5
<1>15. PICK new : new = [old EXCEPT !.todo = old.todo \ {i}, !.loaded = loaded]
  OBVIOUS
<1>16. new = [old EXCEPT !.todo = @ \ {i},
                !.loaded[T!SiteAt(i)] = T!Noted(@, T!KindAt(i), T!OnDisk(c, i))]
  BY <1>2, <1>7, <1>9, <1>10, <1>12, <1>15 DEF T!Call
<1>17. new \in T!Call
  BY <1>2, <1>9, <1>13, <1>15 DEF T!Call
<1>18. /\ new.at = "load" /\ new.config = n /\ new.todo = old.todo \ {i} /\ new.loaded = loaded
       /\ new.print = old.print /\ new.why = ""
  BY <1>1, <1>2, <1>4, <1>15 DEF T!Call
<1>19. T!CallInv(new)
  BY <1>3, <1>4, <1>13, <1>14, <1>18 DEF T!CallInv
<1>20. /\ handshakes' = [handshakes EXCEPT ![c] = new]
       /\ UNCHANGED <<configs, disk, checked, built, contexts, refreshing, limit, acceptor>>
  BY <1>5, <1>16 DEF T!Step, T!LoadFile, T!cacheVars
<1> QED BY <1>1, <1>2, <1>17, <1>19, <1>20, CallStep DEF Busy

\* The refresher stays the only one when it moves on within its refresh.
LEMMA StillOne ==
  ASSUME T!Bounds, T!IInv, NEW c \in T!Callers, handshakes[c].at \in Busy, NEW call \in T!Call,
         handshakes' = [handshakes EXCEPT ![c] = call], UNCHANGED refreshing
  PROVE  T!OneRefresh'
<1>1. T!Refreshers' \subseteq T!Refreshers
  BY TlsTypes DEF T!Refreshers, Busy
<1> QED BY <1>1 DEF T!IInv, T!OneRefresh

\* A fingerprint equal to the one in the cache is of the same pairs.
LEMMA CompareStep ==
  ASSUME T!Bounds, T!IInv, NEW c \in T!Callers, T!Compare(c)
  PROVE  T!IInv'
<1>1. PICK old, n : old = handshakes[c] /\ n = old.config
  OBVIOUS
<1>2. old \in T!Call /\ T!CallInv(old) /\ acceptor \in Acceptors /\ old.at = "stat"
  BY <1>1, TlsTypes DEF T!IInv, T!TypeOK, Acceptors, T!Compare
<1>3. PICK config : config = configs[n]
  OBVIOUS
<1>4. /\ config \in T!Config /\ n \in 1..Len(configs) /\ n \in 0..MaxConfigs /\ n # 0
      /\ \A s \in T!Sites : T!Seen(old.print[s], config[s])
      /\ \A s \in T!Sites : config[s] = NoPair => old.loaded[s] = T!NoStamp
      /\ old.why = ""
  BY <1>1, <1>2, <1>3, Refreshing
<1>5. /\ checked \in 0..MaxConfigs /\ built \in [T!Sites -> T!Stamp]
      /\ contexts \in [T!Sites -> T!Versions] /\ refreshing \in BOOLEAN
  BY DEF T!IInv, T!TypeOK
<1>6. UNCHANGED <<built, contexts, refreshing>>
  BY DEF T!Compare
<1>7. CASE checked # 0 /\ old.print = built
  <2>1. PICK a : a = T!Answered(c, "release", "same")
    OBVIOUS
  <2>2. /\ a \in T!Call /\ a.at = "release" /\ a.why = "same" /\ a.config = n
        /\ a.from = [s \in T!Sites |-> built[s].pair]
    BY <1>1, <2>1, AnswerFields
  <2>3. \A s \in T!Sites : built[s].pair = config[s]
    BY <1>4, <1>7 DEF T!Seen
  <2>4. a.from = configs[a.config]
    BY <1>3, <1>4, <2>2, <2>3, PairsOf
  <2>5. T!CallInv(a)
    BY <1>4, <2>2, <2>4, AnswerIsFine
  <2>6. /\ handshakes' = [handshakes EXCEPT ![c] = a] /\ checked' = n
        /\ UNCHANGED <<configs, disk, limit, acceptor>>
    BY <1>1, <1>7, <2>1 DEF T!Step, T!Compare
  <2>7. T!OneRefresh'
    BY <1>1, <1>2, <1>6, <2>2, <2>6, StillOne DEF Busy
  <2>8. T!CacheInv'
    <3>1. \E l \in [T!Sites -> T!Stamp] : \A s \in T!Sites :
            /\ contexts[s] = T!Usable(l[s])
            /\ IF built[s].pair = NoPair THEN built[s] = T!NoStamp /\ l[s] = T!NoStamp
               ELSE T!After("cert", built[s], l[s]) /\ T!After("key", built[s], l[s])
      BY <1>7 DEF T!IInv, T!CacheInv
    <3> QED BY <1>3, <1>4, <1>6, <2>3, <2>6, <3>1 DEF T!CacheInv, T!After
  <2> QED BY <1>2, <1>4, <1>5, <1>6, <2>2, <2>5, <2>6, <2>7, <2>8, CurrentStep
<1>8. CASE ~(checked # 0 /\ old.print = built)
  <2>1. PICK new : new = [old EXCEPT !.at = "load", !.todo = T!OwnFiles(config)]
    OBVIOUS
  <2>2. /\ handshakes' = [handshakes EXCEPT ![c] = new] /\ checked' = checked
        /\ UNCHANGED <<configs, disk, limit, acceptor>>
    BY <1>1, <1>3, <1>8, <2>1 DEF T!Step, T!Compare
  <2>3. T!OwnFiles(config) \subseteq T!Places
    BY DEF T!OwnFiles
  <2>4. new \in T!Call
    BY <1>2, <2>1, <2>3 DEF T!Call
  <2>5. /\ new.at = "load" /\ new.config = n /\ new.todo = T!OwnFiles(config)
        /\ new.loaded = old.loaded /\ new.print = old.print /\ new.why = ""
    BY <1>1, <1>2, <1>4, <2>1 DEF T!Call
  <2>6. T!CallInv(new)
    BY <1>3, <1>4, <2>5 DEF T!CallInv
  <2> QED BY <1>1, <1>2, <1>6, <2>2, <2>4, <2>6, CallStep DEF Busy
<1> QED BY <1>7, <1>8

\* The loop over the files is done: every site's were loaded after its fingerprint.
LEMMA StoreStep ==
  ASSUME T!Bounds, T!IInv, NEW c \in T!Callers, T!Store(c)
  PROVE  T!IInv'
<1>1. PICK old, n : old = handshakes[c] /\ n = old.config
  OBVIOUS
<1>2. /\ old \in T!Call /\ T!CallInv(old) /\ acceptor \in Acceptors
      /\ old.at = "load" /\ old.todo = {}
  BY <1>1, TlsTypes DEF T!IInv, T!TypeOK, Acceptors, T!Store
<1>3. PICK config : config = configs[n]
  OBVIOUS
<1>4. /\ config \in T!Config /\ n \in 1..Len(configs) /\ n \in 0..MaxConfigs /\ n # 0
      /\ \A s \in T!Sites : T!Seen(old.print[s], config[s])
      /\ \A s \in T!Sites : config[s] = NoPair => old.loaded[s] = T!NoStamp
  BY <1>1, <1>2, <1>3, Refreshing
<1>5. PICK print, loaded : print = old.print /\ loaded = old.loaded
  OBVIOUS
<1>6. print \in [T!Sites -> T!Stamp] /\ loaded \in [T!Sites -> T!Stamp]
  BY <1>2, <1>5, CallTypes
<1>7. PICK a, new : a = T!Answered(c, "release", "built") /\ new = [a EXCEPT !.from = config]
  OBVIOUS
<1>8. /\ contexts' = [s \in T!Sites |-> T!Usable(loaded[s])] /\ built' = print /\ checked' = n
      /\ handshakes' = [handshakes EXCEPT ![c] = new]
      /\ UNCHANGED <<configs, disk, limit, acceptor, refreshing>>
  BY <1>1, <1>3, <1>5, <1>7 DEF T!Store, T!Step
<1>9. /\ new \in T!Call /\ new.at = "release" /\ new.why = "built" /\ new.config = n
      /\ new.from = config
  <2>1. a \in T!Call /\ a.at = "release" /\ a.why = "built" /\ a.config = n
    BY <1>1, <1>7, AnswerFields
  <2> QED BY <1>4, <1>7, <2>1 DEF T!Call
<1>10. T!CallInv(new)
  BY <1>3, <1>4, <1>9, AnswerIsFine
<1>11. T!OneRefresh'
  BY <1>1, <1>2, <1>8, <1>9, StillOne DEF Busy
<1>12. contexts' \in [T!Sites -> T!Versions]
  <2>1. \A s \in T!Sites : T!Usable(loaded[s]) \in T!Versions
    <3> TAKE s \in T!Sites
    <3>1. loaded[s].cert \in T!Versions /\ 0 \in T!Versions
      BY <1>6 DEF T!Stamp, T!Versions, T!Bounds
    <3> QED BY <3>1 DEF T!Usable
  <2> QED BY <1>8, <2>1
<1>13. ASSUME NEW s \in T!Sites
       PROVE  /\ print[s].pair = config[s]
              /\ IF print[s].pair = NoPair THEN print[s] = T!NoStamp /\ loaded[s] = T!NoStamp
                 ELSE T!After("cert", print[s], loaded[s]) /\ T!After("key", print[s], loaded[s])
  <2>1. T!Seen(print[s], config[s]) /\ print[s].pair = config[s]
    BY <1>4, <1>5 DEF T!Seen
  <2>2. CASE config[s] = NoPair
    BY <1>4, <1>5, <2>1, <2>2 DEF T!Seen
  <2>3. CASE config[s] # NoPair
    <3>1. PICK i, k \in T!Places : /\ T!SiteAt(i) = s /\ T!KindAt(i) = "cert"
                                   /\ T!SiteAt(k) = s /\ T!KindAt(k) = "key"
      BY PlaceOfSite
    <3>2. i \in T!OwnFiles(config) /\ k \in T!OwnFiles(config)
      BY <2>3, <3>1 DEF T!OwnFiles
    <3>3. \A j \in T!OwnFiles(config) : T!After(T!KindAt(j), print[T!SiteAt(j)], loaded[T!SiteAt(j)])
      BY <1>1, <1>2, <1>3, <1>5 DEF T!CallInv
    <3>4. T!After("cert", print[s], loaded[s]) /\ T!After("key", print[s], loaded[s])
      BY <3>1, <3>2, <3>3
    <3> QED BY <2>1, <2>3, <3>4
  <2> QED BY <2>2, <2>3
<1>14. T!CacheInv'
  <2>1. checked' \in 1..Len(configs') /\ \A s \in T!Sites : built'[s].pair = configs'[checked'][s]
    BY <1>3, <1>4, <1>8, <1>13
  <2>2. \A s \in T!Sites :
          /\ contexts'[s] = T!Usable(loaded[s])
          /\ IF built'[s].pair = NoPair THEN built'[s] = T!NoStamp /\ loaded[s] = T!NoStamp
             ELSE T!After("cert", print[s], loaded[s]) /\ T!After("key", print[s], loaded[s])
    BY <1>8, <1>13
  <2> QED BY <1>6, <1>8, <2>1, <2>2 DEF T!CacheInv, T!After
<1> QED BY <1>2, <1>4, <1>6, <1>8, <1>9, <1>10, <1>11, <1>12, <1>14, CurrentStep
           DEF T!IInv, T!TypeOK

LEMMA ReleaseStep ==
  ASSUME T!Bounds, T!IInv, NEW c \in T!Callers, T!Release(c)
  PROVE  T!IInv'
<1>1. PICK old : old = handshakes[c]
  OBVIOUS
<1>2. /\ old \in T!Call /\ T!CallInv(old) /\ acceptor \in Acceptors /\ old.at = "release"
  BY <1>1, TlsTypes DEF T!IInv, T!TypeOK, Acceptors, T!Release
<1>3. PICK new : new = [old EXCEPT !.at = "open"]
  OBVIOUS
<1>4. new \in T!Call /\ T!CallInv(new) /\ new.at = "open"
  BY <1>2, <1>3, MovedTo DEF T!Call
<1>5. /\ handshakes' = [handshakes EXCEPT ![c] = new] /\ refreshing' = FALSE
      /\ UNCHANGED <<configs, disk, limit, acceptor, checked, built, contexts>>
  BY <1>1, <1>3 DEF T!Release, T!Step
<1>6. T!OneRefresh'
  <2>1. c \in T!Refreshers
    BY <1>1, <1>2 DEF T!Refreshers
  <2>2. \A d \in T!Refreshers : d = c
    BY <2>1 DEF T!IInv, T!OneRefresh
  <2>3. T!Refreshers' = {}
    BY <1>4, <1>5, <2>2, TlsTypes DEF T!Refreshers
  <2> QED BY <2>3 DEF T!OneRefresh
<1>7. T!CacheInv'
  BY <1>5, SameWorld, CacheLater
<1>8. /\ checked \in 0..MaxConfigs /\ built \in [T!Sites -> T!Stamp]
      /\ contexts \in [T!Sites -> T!Versions]
  BY DEF T!IInv, T!TypeOK
<1> QED BY <1>2, <1>4, <1>5, <1>6, <1>7, <1>8, CurrentStep

LEMMA TlsInit ==
  ASSUME T!Bounds, T!Init
  PROVE  T!IInv
<1>1. T!NoStamp \in T!Stamp /\ T!Blank \in [T!Sites -> T!Stamp]
  BY DEF T!Bounds, T!NoStamp, T!Stamp, T!Versions, T!Blank
<1>2. PICK config \in T!Config : configs = <<config>>
  BY DEF T!Init
<1>3. configs \in Seq(T!Config) /\ Len(configs) \in 1..MaxConfigs
  BY <1>2 DEF T!Bounds
<1>4. disk \in [T!Files -> T!Versions] /\ 0 \in T!Versions /\ 0 \in 0..MaxConfigs
  BY DEF T!Init, T!Bounds, T!Versions
<1>5. \A c \in T!Callers : handshakes[c] = T!Away \/ handshakes[c] = [T!Away EXCEPT !.at = "get"]
  BY DEF T!Init
<1>6. PICK first : first = [T!Away EXCEPT !.at = "get"]
  OBVIOUS
<1>7. first \in T!Call /\ T!CallInv(first) /\ first.at = "get"
  BY <1>6, IdleCall DEF T!Away
<1>8. T!Away \in T!Call /\ T!CallInv(T!Away) /\ T!Away.at = "away"
  BY AwayCall
<1>9. \A c \in T!Callers : /\ handshakes[c] \in T!Call /\ T!CallInv(handshakes[c])
                           /\ handshakes[c].at \in {"away", "get"}
  BY <1>5, <1>6, <1>7, <1>8
<1>10. handshakes \in [T!Callers -> T!Call]
  <2>1. handshakes = [c \in T!Callers |-> handshakes[c]]
    BY DEF T!Init
  <2> QED BY <1>9, <2>1
<1>11. T!TypeOK
  BY <1>1, <1>3, <1>4, <1>10 DEF T!Init, T!TypeOK, T!Nothing
<1>12. T!OneRefresh
  BY <1>9 DEF T!OneRefresh, T!Refreshers
<1>13. T!CacheInv
  BY DEF T!Init, T!CacheInv
<1> QED BY <1>9, <1>11, <1>12, <1>13 DEF T!IInv

LEMMA TlsNext ==
  ASSUME T!Bounds, T!IInv, [T!Next]_(T!vars)
  PROVE  T!IInv'
<1>1. CASE T!NewConfig
  BY <1>1, NewConfigStep
<1>2. CASE T!WriteFile
  BY <1>2, WriteFileStep
<1>3. CASE T!AcceptLoop
  BY <1>3, AcceptorStep, ConnectionStep DEF T!AcceptLoop
<1>4. CASE \E c \in Conns : T!Connect(c) \/ T!ClientResets(c) \/ T!End(c)
  BY <1>4, ConnectionStep
<1>5. ASSUME NEW c \in T!Callers, T!Handshake(c)
      PROVE  T!IInv'
  BY <1>5, GetConfigStep, LookStep, StatFileStep, CompareStep, LoadFileStep, StoreStep, ReleaseStep
     DEF T!Handshake
<1>6. CASE UNCHANGED T!vars
  <2>1. UNCHANGED <<configs, disk, limit, checked, built, contexts, refreshing, handshakes, acceptor>>
    BY <1>6 DEF T!vars, T!cacheVars
  <2>2. T!TypeOK'
    BY <2>1 DEF T!IInv, T!TypeOK
  <2> QED BY <2>1, <2>2, SameWorld, WorldStep
<1> QED BY <1>1, <1>2, <1>3, <1>4, <1>5, <1>6 DEF T!Next

\* TlsSiteContexts::current, for any number of handshakes, sites, files and
\* replacements: one call refreshes at a time, its fingerprint is of versions that
\* have been, and whatever it loads it loads after the fingerprint was taken.
THEOREM TlsInvariant ==
  ASSUME T!Bounds
  PROVE  T!Spec => []T!IInv
<1>1. T!Init => T!IInv
  BY TlsInit
<1>2. T!IInv /\ [T!Next]_(T!vars) => T!IInv'
  BY TlsNext
<1> QED BY <1>1, <1>2, PTL DEF T!Spec

\* As long as the cache's fingerprint (built_fingerprint_) agrees with the files on
\* disk, the cache (contexts_) holds what these files give: a renewal that comes
\* between the stats and the loads of a refresh is found by the next one.
THEOREM FingerprintHonest ==
  ASSUME T!Bounds
  PROVE  T!Spec => []FingerprintIsHonest
<1>1. ASSUME T!IInv PROVE FingerprintIsHonest
  <2> SUFFICES ASSUME checked # 0, NEW s \in T!Sites,
                      built[s].pair # NoPair =>
                        /\ built[s].cert = disk[<<built[s].pair, "cert">>]
                        /\ built[s].key = disk[<<built[s].pair, "key">>]
               PROVE  contexts[s] = T!Usable(built[s])
    BY DEF FingerprintIsHonest, T!FingerprintIsHonest
  <2>1. PICK l \in [T!Sites -> T!Stamp] :
          /\ contexts[s] = T!Usable(l[s])
          /\ IF built[s].pair = NoPair THEN built[s] = T!NoStamp /\ l[s] = T!NoStamp
             ELSE T!After("cert", built[s], l[s]) /\ T!After("key", built[s], l[s])
    BY <1>1 DEF T!IInv, T!CacheInv
  <2>2. PICK b, x : b = built[s] /\ x = l[s]
    OBVIOUS
  <2>3. b \in T!Stamp /\ x \in T!Stamp
    BY <1>1, <2>2 DEF T!IInv, T!TypeOK
  <2>4. b.cert \in Nat /\ b.key \in Nat /\ x.cert \in Nat /\ x.key \in Nat
    BY <2>3, StampFields
  <2>5. CASE b.pair = NoPair
    BY <2>1, <2>2, <2>5
  <2>6. CASE b.pair # NoPair
    <3>1. b.cert <= x.cert /\ x.cert <= b.cert /\ b.key <= x.key /\ x.key <= b.key
      BY <2>1, <2>2, <2>6 DEF T!After
    <3>2. x.cert = b.cert /\ x.key = b.key
      BY <2>4, <3>1
    <3> QED BY <2>1, <2>2, <3>2 DEF T!Usable
  <2> QED BY <2>5, <2>6
<1> QED BY <1>1, TlsInvariant, PTL

\* A handshake that current() answers without meeting a refresh is served by the
\* certificates of the sites of the snapshot it read, never by another one's.
THEOREM SnapshotServed ==
  ASSUME T!Bounds
  PROVE  T!Spec => []ServedFromSnapshot
<1>1. T!IInv => ServedFromSnapshot
  BY DEF T!IInv, T!CallInv, ServedFromSnapshot, T!ServedFromSnapshot
<1> QED BY <1>1, TlsInvariant, PTL

-----------------------------------------------------------------------------
(***************************************************************************)
(* RequestRateTracker                                                      *)
(***************************************************************************)
\* What Popped chooses exists.
LEMMA RatePops ==
  ASSUME NEW times \in Seq(Nat), NEW cutoff \in Int
  PROVE  /\ R!Popped(times, cutoff) \in 0..Len(times)
         /\ \A i \in 1..R!Popped(times, cutoff) : times[i] < cutoff
         /\ R!Popped(times, cutoff) < Len(times) => times[R!Popped(times, cutoff) + 1] >= cutoff
<1>1. PICK len \in Nat : len = Len(times)
  BY LenProperties
<1>2. \A i \in 1..len : times[i] \in Nat
  BY <1>1, ElementOfSeq
<1>3. PICK S : S = {n \in 0..len : n < len => times[n + 1] >= cutoff}
  OBVIOUS
<1>4. len \in S /\ S \subseteq Nat
  BY <1>1, <1>3
<1>5. PICK n \in S : \A m \in S : n <= m
  BY <1>4, LeastNat
<1>6. n \in 0..len /\ (n < len => times[n + 1] >= cutoff)
  BY <1>3, <1>5
<1>7. ASSUME NEW i \in 1..n PROVE times[i] < cutoff
  <2>1. i \in 1..len /\ i - 1 \in 0..len /\ i - 1 < len /\ i - 1 < n /\ (i - 1) + 1 = i
    BY <1>6, <1>7
  <2>2. i - 1 \notin S
    BY <1>4, <1>5, <1>6, <2>1
  <2>3. ~(times[(i - 1) + 1] >= cutoff)
    BY <1>3, <2>1, <2>2
  <2>4. times[i] \in Nat
    BY <1>2, <2>1
  <2> QED BY <2>1, <2>3, <2>4
<1>8. \E m \in 0..Len(times) : /\ \A i \in 1..m : times[i] < cutoff
                               /\ m < Len(times) => times[m + 1] >= cutoff
  BY <1>1, <1>6, <1>7
<1> QED BY <1>8 DEF R!Popped

\* What is left is the end of the times, from the first within the window on.
LEMMA TrimmedTimes ==
  ASSUME NEW times \in Seq(Nat), NEW cutoff \in Int
  PROVE  \E p \in 0..Len(times) :
           /\ \A i \in 1..p : times[i] < cutoff
           /\ p < Len(times) => times[p + 1] >= cutoff
           /\ R!Trim(times, cutoff) \in Seq(Nat)
           /\ Len(R!Trim(times, cutoff)) = Len(times) - p
           /\ \A k \in 1..(Len(times) - p) : R!Trim(times, cutoff)[k] = times[p + k]
<1>1. PICK len \in Nat : len = Len(times)
  BY LenProperties
<1>2. PICK p : p = R!Popped(times, cutoff)
  OBVIOUS
<1>3. /\ p \in 0..len /\ \A i \in 1..p : times[i] < cutoff
      /\ p < len => times[p + 1] >= cutoff
  BY <1>1, <1>2, RatePops
<1>4. R!Trim(times, cutoff) = SubSeq(times, p + 1, len)
  BY <1>1, <1>2 DEF R!Trim
<1>5. p + 1 \in 1..(len + 1) /\ len \in p..len
  BY <1>1, <1>3
<1>6. /\ SubSeq(times, p + 1, len) \in Seq(Nat)
      /\ Len(SubSeq(times, p + 1, len)) = len - p
      /\ \A k \in 1..(len - p) : SubSeq(times, p + 1, len)[k] = times[p + k]
  <2>1. \A i \in 1..len : times[i] \in Nat
    BY <1>1, ElementOfSeq
  <2>2. \A i \in (p + 1)..len : times[i] \in Nat
    BY <1>3, <2>1
  <2>3. /\ SubSeq(times, p + 1, len) \in Seq(Nat)
        /\ Len(SubSeq(times, p + 1, len)) = IF p + 1 <= len THEN len - (p + 1) + 1 ELSE 0
        /\ \A i \in 1..(len - (p + 1) + 1) : SubSeq(times, p + 1, len)[i] = times[(p + 1) + i - 1]
    <3>1. PICK from \in Int : from = p + 1
      BY <1>1, <1>3
    <3>2. \A i \in from..len : times[i] \in Nat
      BY <2>2, <3>1
    <3>3. len \in Int
      BY <1>1
    <3>4. /\ SubSeq(times, from, len) \in Seq(Nat)
          /\ Len(SubSeq(times, from, len)) = IF from <= len THEN len - from + 1 ELSE 0
          /\ \A i \in 1..(len - from + 1) : SubSeq(times, from, len)[i] = times[from + i - 1]
      BY ONLY <3>1, <3>2, <3>3, SubSeqProperties
    <3> QED BY <3>1, <3>4
  <2>4. \A k \in 1..(len - p) : (p + 1) + k - 1 = p + k /\ k \in 1..(len - (p + 1) + 1)
    BY <1>1, <1>3
  <2> QED BY <1>1, <1>3, <2>3, <2>4
<1> QED BY <1>1, <1>3, <1>4, <1>6

LEMMA SeqOfNat ==
  ASSUME NEW s \in Seq(Nat)
  PROVE  /\ Len(s) \in Nat /\ \A i \in 1..Len(s) : s[i] \in Nat
         /\ s = <<>> <=> Len(s) = 0
  BY LenProperties, ElementOfSeq, EmptySeq

\* A longer lag and a later bound allow more.
LEMMA LaterLag ==
  ASSUME NEW times \in Seq(Nat), NEW all \in Seq(Nat), NEW bound \in Int, NEW more \in Int,
         bound <= more, NEW by \in Nat, NEW to \in Nat, by <= to
  PROVE  /\ R!OldAreMissing(times, all, bound) => R!OldAreMissing(times, all, more)
         /\ R!InOrder(all, by) => R!InOrder(all, to)
<1>1. PICK a \in Nat : a = Len(all) /\ \A i \in 1..a : all[i] \in Nat
  BY SeqOfNat
<1>2. PICK t \in Nat : t = Len(times)
  BY SeqOfNat
<1>3. ASSUME R!OldAreMissing(times, all, bound), NEW i \in 1..(a - t)
      PROVE  all[i] < more
  <2>1. all[i] < bound /\ i \in 1..a
    BY <1>1, <1>2, <1>3 DEF R!OldAreMissing
  <2>2. all[i] \in Nat
    BY <1>1, <2>1
  <2> QED BY <2>1, <2>2
<1>4. ASSUME R!InOrder(all, by), NEW i \in 1..a, NEW j \in 1..a, i < j
      PROVE  all[i] <= all[j] + to
  <2>1. all[i] <= all[j] + by
    BY <1>1, <1>4 DEF R!InOrder
  <2>2. PICK x \in Nat, y \in Nat : x = all[i] /\ y = all[j]
    BY <1>1
  <2>3. x <= y + by => x <= y + to
    BY ONLY x \in Nat, y \in Nat, by \in Nat, to \in Nat, by <= to
  <2> QED BY <2>1, <2>2, <2>3, Zenon
<1> QED BY <1>1, <1>2, <1>3, <1>4 DEF R!OldAreMissing, R!InOrder

\* A sweep forgets an IP: its last time is out of the window, so all are, up to the lag.
LEMMA SweptTail ==
  ASSUME NEW times \in Seq(Nat), NEW all \in Seq(Nat), NEW bound \in Int, NEW by \in Nat,
         NEW cutoff \in Int, cutoff + by <= bound, R!IsTail(times, all),
         R!OldAreMissing(times, all, bound), R!InOrder(all, by), R!Idle(times, cutoff)
  PROVE  R!IsTail(<<>>, all) /\ R!OldAreMissing(<<>>, all, bound)
<1>1. PICK a \in Nat : a = Len(all) /\ \A i \in 1..a : all[i] \in Nat
  BY SeqOfNat
<1>2. PICK t \in Nat : t = Len(times)
  BY SeqOfNat
<1>3. ASSUME NEW i \in 1..a PROVE all[i] < bound
  <2>1. CASE t = 0
    BY <1>1, <1>2, <1>3, <2>1 DEF R!OldAreMissing
  <2>2. CASE t # 0
    <3>1. times # <<>> /\ times[t] < cutoff
      BY <1>2, <2>2, SeqOfNat DEF R!Idle
    <3>2. t <= a /\ times[t] = all[a]
      <4>1. t <= a /\ \A k \in 1..t : times[k] = all[a - t + k]
        BY <1>1, <1>2 DEF R!IsTail
      <4>2. t \in 1..t /\ a - t + t = a
        BY <2>2
      <4> QED BY <4>1, <4>2
    <3>3. a \in 1..a
      <4>1. t <= a
        BY <3>2
      <4> QED BY <2>2, <4>1
    <3>4. all[a] < cutoff /\ all[a] \in Nat /\ all[i] \in Nat
      BY <1>1, <3>1, <3>2, <3>3
    <3>5. i = a \/ i < a
      BY <1>1
    <3>6. i < a => all[i] <= all[a] + by
      BY <1>1, <3>3 DEF R!InOrder
    <3> QED BY <3>4, <3>5, <3>6
  <2> QED BY <2>1, <2>2
<1>4. Len(<<>>) = 0
  OBVIOUS
<1>5. a - 0 = a /\ 0 <= a
  OBVIOUS
<1> QED BY <1>1, <1>3, <1>4, <1>5 DEF R!IsTail, R!OldAreMissing

\* A time is pushed that is behind no other by more than the lag.
LEMMA PushedTail ==
  ASSUME NEW times \in Seq(Nat), NEW all \in Seq(Nat), NEW bound \in Int, NEW by \in Nat,
         NEW now \in Nat, R!IsTail(times, all), R!OldAreMissing(times, all, bound),
         R!InOrder(all, by), \A i \in 1..Len(all) : all[i] <= now + by
  PROVE  /\ R!IsTail(Append(times, now), Append(all, now))
         /\ R!OldAreMissing(Append(times, now), Append(all, now), bound)
         /\ R!InOrder(Append(all, now), by)
<1>1. PICK a \in Nat : a = Len(all) /\ \A i \in 1..a : all[i] \in Nat
  BY SeqOfNat
<1>2. PICK t \in Nat : t = Len(times)
  BY SeqOfNat
<1>3. PICK times2, all2 : times2 = Append(times, now) /\ all2 = Append(all, now)
  OBVIOUS
<1>4. /\ Len(times2) = t + 1 /\ Len(all2) = a + 1 /\ times2[t + 1] = now /\ all2[a + 1] = now
      /\ \A k \in 1..t : times2[k] = times[k]
      /\ \A i \in 1..a : all2[i] = all[i]
  BY <1>1, <1>2, <1>3, AppendProperties
<1>5. t <= a /\ \A k \in 1..t : times[k] = all[a - t + k]
  BY <1>1, <1>2 DEF R!IsTail
<1>6. ASSUME NEW k \in 1..(t + 1) PROVE times2[k] = all2[(a + 1) - (t + 1) + k]
  <2>1. CASE k = t + 1
    <3>1. (a + 1) - (t + 1) + k = a + 1
      BY <2>1
    <3> QED BY <1>4, <2>1, <3>1
  <2>2. CASE k \in 1..t
    <3>1. a - t + k \in 1..a /\ (a + 1) - (t + 1) + k = a - t + k
      BY <1>5, <2>2
    <3> QED BY <1>4, <1>5, <2>2, <3>1
  <2>3. k = t + 1 \/ k \in 1..t
    OBVIOUS
  <2> QED BY <2>1, <2>2, <2>3
<1>7. ASSUME NEW i \in 1..((a + 1) - (t + 1)) PROVE all2[i] < bound
  <2>1. i \in 1..(a - t) /\ i \in 1..a
    BY <1>5
  <2> QED BY <1>1, <1>2, <1>4, <2>1 DEF R!OldAreMissing
<1>8. ASSUME NEW i \in 1..(a + 1), NEW j \in 1..(a + 1), i < j
      PROVE  all2[i] <= all2[j] + by
  <2>1. i \in 1..a /\ (j \in 1..a \/ j = a + 1)
    BY <1>8
  <2>2. all[i] <= now + by /\ all2[i] = all[i]
    BY <1>1, <1>4, <2>1
  <2>3. j \in 1..a => all[i] <= all[j] + by /\ all2[j] = all[j]
    BY <1>1, <1>4, <1>8, <2>1 DEF R!InOrder
  <2> QED BY <1>4, <2>1, <2>2, <2>3
<1>9. t + 1 <= a + 1
  BY <1>5
<1> QED BY <1>3, <1>4, <1>6, <1>7, <1>8, <1>9 DEF R!IsTail, R!OldAreMissing, R!InOrder

\* The front is popped: what is left is within the window, up to the lag.
LEMMA TrimmedTail ==
  ASSUME NEW times \in Seq(Nat), NEW all \in Seq(Nat), NEW bound \in Int, NEW by \in Nat,
         NEW cutoff \in Int, cutoff <= bound, R!IsTail(times, all),
         R!OldAreMissing(times, all, bound), R!InOrder(all, by)
  PROVE  /\ R!Trim(times, cutoff) \in Seq(Nat)
         /\ R!IsTail(R!Trim(times, cutoff), all)
         /\ R!OldAreMissing(R!Trim(times, cutoff), all, bound)
         /\ \A k \in 1..Len(R!Trim(times, cutoff)) : R!Trim(times, cutoff)[k] >= cutoff - by
<1>1. PICK a \in Nat : a = Len(all) /\ \A i \in 1..a : all[i] \in Nat
  BY SeqOfNat
<1>2. PICK t \in Nat : t = Len(times)
  BY SeqOfNat
<1>3. PICK kept : kept = R!Trim(times, cutoff)
  OBVIOUS
<1>4. PICK p \in 0..t :
        /\ \A i \in 1..p : times[i] < cutoff
        /\ p < t => times[p + 1] >= cutoff
        /\ kept \in Seq(Nat) /\ Len(kept) = t - p
        /\ \A k \in 1..(t - p) : kept[k] = times[p + k]
  <2>1. \E p \in 0..Len(times) :
          /\ \A i \in 1..p : times[i] < cutoff
          /\ p < Len(times) => times[p + 1] >= cutoff
          /\ R!Trim(times, cutoff) \in Seq(Nat)
          /\ Len(R!Trim(times, cutoff)) = Len(times) - p
          /\ \A k \in 1..(Len(times) - p) : R!Trim(times, cutoff)[k] = times[p + k]
    BY TrimmedTimes
  <2> QED BY <1>2, <1>3, <2>1, Zenon
<1>5. t <= a /\ \A k \in 1..t : times[k] = all[a - t + k]
  BY <1>1, <1>2 DEF R!IsTail
<1>6. ASSUME NEW k \in 1..(t - p) PROVE kept[k] = all[a - (t - p) + k]
  <2>1. p + k \in 1..t /\ a - t + (p + k) = a - (t - p) + k
    BY <1>2, <1>4
  <2> QED BY <1>4, <1>5, <2>1
<1>7. ASSUME NEW i \in 1..(a - (t - p)) PROVE all[i] < bound
  <2>1. CASE i \in 1..(a - t)
    BY <1>1, <1>2, <2>1 DEF R!OldAreMissing
  <2>2. CASE i \notin 1..(a - t)
    <3>1. PICK k \in 1..p : i = a - t + k
      <4>1. i - (a - t) \in 1..p /\ i = a - t + (i - (a - t))
        BY <1>4, <1>5, <2>2
      <4> QED BY <4>1
    <3>2. k \in 1..t
      BY <1>4
    <3>3. times[k] < cutoff /\ times[k] = all[i]
      BY <1>4, <1>5, <3>1, <3>2
    <3>4. all[i] \in Nat
      BY <1>1, <1>4, <1>5
    <3> QED BY <3>3, <3>4
  <2> QED BY <2>1, <2>2
<1>8. ASSUME NEW k \in 1..(t - p) PROVE kept[k] >= cutoff - by
  <2>1. p < t /\ 1 \in 1..(t - p) /\ p + 1 \in 1..t
    BY <1>4
  <2>2. PICK f, i : f = a - (t - p) + 1 /\ i = a - (t - p) + k
    OBVIOUS
  <2>3. f \in 1..a /\ i \in 1..a /\ (f = i \/ f < i)
    BY <1>4, <1>5, <2>1, <2>2
  <2>4. kept[k] = all[i] /\ kept[1] = all[f] /\ kept[1] >= cutoff
    BY <1>4, <1>6, <2>1, <2>2
  <2>5. all[f] \in Nat /\ all[i] \in Nat
    BY <1>1, <2>3
  <2>6. f < i => all[f] <= all[i] + by
    BY <1>1, <2>3 DEF R!InOrder
  <2>7. PICK x \in Nat, y \in Nat : x = all[f] /\ y = all[i]
    BY <2>5
  <2>8. x >= cutoff /\ (x = y \/ x <= y + by) /\ kept[k] = y
    BY <2>3, <2>4, <2>6, <2>7, Zenon
  <2>9. y >= cutoff - by
    BY ONLY <2>8, x \in Nat, y \in Nat, by \in Nat, cutoff \in Int
  <2> QED BY <2>8, <2>9, Zenon
<1>9. t - p <= a
  BY <1>4, <1>5
<1> QED BY <1>1, <1>3, <1>4, <1>6, <1>7, <1>8, <1>9 DEF R!IsTail, R!OldAreMissing

\* With a positive window the time just pushed stays, at the end.
LEMMA OwnTimeStays ==
  ASSUME NEW times \in Seq(Nat), NEW now \in Nat, NEW cutoff \in Int, cutoff < now
  PROVE  /\ R!Trim(Append(times, now), cutoff) # <<>>
         /\ R!Trim(Append(times, now), cutoff)[Len(R!Trim(Append(times, now), cutoff))] = now
<1>1. PICK t \in Nat : t = Len(times)
  BY SeqOfNat
<1>2. PICK pushed, kept : pushed = Append(times, now) /\ kept = R!Trim(pushed, cutoff)
  OBVIOUS
<1>3. pushed \in Seq(Nat) /\ Len(pushed) = t + 1 /\ pushed[t + 1] = now
  BY <1>1, <1>2, AppendProperties
<1>4. PICK p \in 0..(t + 1) :
        /\ \A i \in 1..p : pushed[i] < cutoff
        /\ kept \in Seq(Nat) /\ Len(kept) = t + 1 - p
        /\ \A k \in 1..(t + 1 - p) : kept[k] = pushed[p + k]
  <2>1. \E p \in 0..Len(pushed) :
          /\ \A i \in 1..p : pushed[i] < cutoff
          /\ p < Len(pushed) => pushed[p + 1] >= cutoff
          /\ R!Trim(pushed, cutoff) \in Seq(Nat)
          /\ Len(R!Trim(pushed, cutoff)) = Len(pushed) - p
          /\ \A k \in 1..(Len(pushed) - p) : R!Trim(pushed, cutoff)[k] = pushed[p + k]
    BY <1>3, TrimmedTimes
  <2>2. kept = R!Trim(pushed, cutoff) /\ Len(pushed) = t + 1
    BY <1>2, <1>3
  <2>3. \E p \in 0..(t + 1) :
          /\ \A i \in 1..p : pushed[i] < cutoff
          /\ p < t + 1 => pushed[p + 1] >= cutoff
          /\ kept \in Seq(Nat)
          /\ Len(kept) = t + 1 - p
          /\ \A k \in 1..(t + 1 - p) : kept[k] = pushed[p + k]
    BY <2>1, <2>2
  <2> QED BY <2>3
<1>5. t + 1 \notin 1..p
  BY <1>3, <1>4
<1>6. p <= t
  BY <1>4, <1>5
<1>7. t + 1 - p \in 1..(t + 1 - p) /\ p + (t + 1 - p) = t + 1 /\ t + 1 - p # 0
  BY <1>1, <1>4, <1>6
<1>8. kept[t + 1 - p] = now
  BY <1>3, <1>4, <1>7
<1>9. kept # <<>>
  BY <1>4, <1>7, SeqOfNat
<1> QED BY <1>2, <1>4, <1>8, <1>9

LEMMA RateTypes ==
  ASSUME R!Bounds, R!IInv
  PROVE  /\ steady \in Nat /\ last_sweep \in Nat /\ cut \in Int /\ lag \in Nat
         /\ rate_calls \in [Handlers -> R!Call \cup {NoCall}]
         /\ history \in [Ips -> Seq(Nat)] /\ seen \in [Ips -> Seq(Nat)]
         /\ count \in [call : R!Call, n : Nat] \cup {NoCall}
  BY DEF R!IInv, R!Types

LEMMA RateCall ==
  ASSUME R!Bounds, NEW call \in R!Call
  PROVE  /\ call # NoCall /\ call.ip \in Ips /\ call.now \in Nat /\ call.window \in Windows
         /\ call.window \in Int /\ call.now - call.window \in Int
<1>1. call # NoCall /\ call.ip \in Ips /\ call.now \in Nat /\ call.window \in Windows
  BY DEF R!Bounds, R!Call
<1>2. call.window \in Int
  BY <1>1 DEF R!Bounds
<1>3. call.now - call.window \in Int
  BY <1>1, <1>2
<1> QED BY <1>1, <1>2, <1>3

LEMMA LargestWindow ==
  ASSUME R!Bounds
  PROVE  /\ R!Largest(Windows) \in Windows /\ R!Largest(Windows) \in Int
         /\ \A v \in Windows : v <= R!Largest(Windows)
  BY DEF R!Bounds, R!Largest

\* A step that moves the clock or enters a call.
LEMMA RateWaits ==
  ASSUME R!Bounds, R!IInv, UNCHANGED <<history, last_sweep, seen, cut, lag, count>>,
         steady' \in Nat, steady <= steady', rate_calls' \in [Handlers -> R!Call \cup {NoCall}],
         \A c \in Handlers : rate_calls'[c] # NoCall => rate_calls'[c].now <= steady'
  PROVE  R!IInv'
<1>1. R!Types'
  BY DEF R!IInv, R!Types
<1>2. \A ip \in Ips : \A i \in 1..Len(seen[ip]) : seen[ip][i] <= steady'
  <2> TAKE ip \in Ips
  <2>1. PICK all \in Seq(Nat) : all = seen[ip]
    BY RateTypes
  <2>2. \A i \in 1..Len(all) : all[i] \in Nat /\ all[i] <= steady
    BY <2>1, SeqOfNat DEF R!IInv, R!NotAhead
  <2>3. steady \in Nat
    BY RateTypes
  <2> QED BY <2>1, <2>2, <2>3
<1>3. last_sweep <= steady'
  <2>1. last_sweep \in Nat /\ steady \in Nat /\ last_sweep <= steady
    BY RateTypes DEF R!IInv, R!NotAhead
  <2> QED BY <2>1
<1>4. R!NotAhead'
  BY <1>2, <1>3 DEF R!NotAhead
<1>5. R!Counted'
  BY DEF R!IInv, R!Counted
<1>6. \A ip \in Ips : R!Fresh(ip)' <=> R!Fresh(ip)
  BY DEF R!Fresh
<1> QED BY <1>1, <1>4, <1>5, <1>6 DEF R!IInv

LEMMA TickStep ==
  ASSUME R!Bounds, R!IInv, R!Tick
  PROVE  R!IInv'
<1>1. steady' = steady + 1 /\ UNCHANGED <<rate_calls, history, last_sweep, seen, cut, lag, count>>
  BY DEF R!Tick
<1>2. steady \in Nat /\ rate_calls \in [Handlers -> R!Call \cup {NoCall}]
  BY RateTypes
<1>3. steady' \in Nat /\ steady <= steady'
  BY <1>1, <1>2
<1>4. ASSUME NEW c \in Handlers, rate_calls[c] # NoCall PROVE rate_calls[c].now <= steady'
  <2>1. rate_calls[c].now <= steady
    BY <1>4 DEF R!IInv, R!NotAhead
  <2>2. rate_calls[c] \in R!Call
    BY <1>2, <1>4
  <2>3. rate_calls[c].now \in Nat
    BY <2>2 DEF R!Call
  <2> QED BY <1>2, <1>3, <2>1, <2>3
<1> QED BY <1>1, <1>2, <1>3, <1>4, RateWaits

LEMMA RateEnterStep ==
  ASSUME R!Bounds, R!IInv, NEW c \in Handlers, R!Enter(c)
  PROVE  R!IInv'
<1>1. PICK ip \in Ips, window \in Windows :
        rate_calls' = [rate_calls EXCEPT ![c] = [ip |-> ip, now |-> steady, window |-> window]]
  BY DEF R!Enter
<1>2. UNCHANGED <<steady, history, last_sweep, seen, cut, lag, count>>
  BY DEF R!Enter
<1>3. steady \in Nat /\ rate_calls \in [Handlers -> R!Call \cup {NoCall}]
  BY RateTypes
<1>4. PICK new : new = [ip |-> ip, now |-> steady, window |-> window]
  OBVIOUS
<1>5. new \in R!Call /\ new.now = steady
  BY <1>3, <1>4 DEF R!Call
<1>6. rate_calls' \in [Handlers -> R!Call \cup {NoCall}]
  BY <1>1, <1>3, <1>4, <1>5
<1>7. steady' = steady /\ steady <= steady
  BY <1>2, <1>3
<1>8. ASSUME NEW d \in Handlers, rate_calls'[d] # NoCall PROVE rate_calls'[d].now <= steady'
  <2>1. CASE d = c
    BY <1>1, <1>3, <1>4, <1>5, <1>7, <2>1
  <2>2. CASE d # c
    <3>1. rate_calls'[d] = rate_calls[d]
      BY <1>1, <1>3, <2>2
    <3> QED BY <1>2, <1>8, <3>1 DEF R!IInv, R!NotAhead
  <2> QED BY <2>1, <2>2
<1> QED BY <1>2, <1>3, <1>6, <1>7, <1>8, RateWaits

\* record(), for an IP it may sweep: `times` becomes `left`.
LEMMA SweepIp ==
  ASSUME NEW times \in Seq(Nat), NEW all \in Seq(Nat), NEW bound \in Int, NEW by \in Nat,
         NEW cutoff \in Int, cutoff + by <= bound, R!IsTail(times, all),
         R!OldAreMissing(times, all, bound), R!InOrder(all, by), NEW due \in BOOLEAN,
         NEW left, left = IF due /\ R!Idle(times, cutoff) THEN <<>> ELSE times
  PROVE  /\ left \in Seq(Nat) /\ R!IsTail(left, all) /\ R!OldAreMissing(left, all, bound)
         /\ left # <<>> => left = times /\ (due => left[Len(left)] >= cutoff)
<1>1. CASE due /\ R!Idle(times, cutoff)
  <2>1. left = <<>>
    BY <1>1
  <2> QED BY <1>1, <2>1, SweptTail
<1>2. CASE ~(due /\ R!Idle(times, cutoff))
  <2>1. left = times
    BY <1>2
  <2>2. ASSUME left # <<>>, due PROVE left[Len(left)] >= cutoff
    <3>1. ~(times[Len(times)] < cutoff) /\ times # <<>>
      BY <1>2, <2>1, <2>2 DEF R!Idle
    <3>2. Len(times) \in 1..Len(times)
      BY <3>1, SeqOfNat
    <3>3. times[Len(times)] \in Nat
      BY <3>2, SeqOfNat
    <3> QED BY <2>1, <3>1, <3>3
  <2> QED BY <2>1, <2>2
<1> QED BY <1>1, <1>2

LEMMA RecordStep ==
  ASSUME R!Bounds, R!IInv, NEW c \in Handlers, R!Record(c)
  PROVE  R!IInv'
<1>1. PICK call : call = rate_calls[c]
  OBVIOUS
<1>2. PICK ip, now, window, cutoff : /\ ip = call.ip /\ now = call.now /\ window = call.window
                                     /\ cutoff = now - window
  OBVIOUS
<1>3. PICK due : due = (now - last_sweep >= window)
  OBVIOUS
<1>4. PICK swept : swept = [i \in Ips |-> IF due /\ R!Idle(history[i], cutoff) THEN <<>> ELSE history[i]]
  OBVIOUS
<1>5. PICK kept : kept = R!Trim(Append(swept[ip], now), cutoff)
  OBVIOUS
<1>6. /\ call # NoCall
      /\ history' = [swept EXCEPT ![ip] = kept]
      /\ last_sweep' = (IF due THEN now ELSE last_sweep)
      /\ seen' = [seen EXCEPT ![ip] = Append(@, now)]
      /\ cut' = (IF cutoff > cut THEN cutoff ELSE cut)
      /\ lag' = (IF steady - now > lag THEN steady - now ELSE lag)
      /\ count' = [call |-> call, n |-> Len(kept)]
      /\ rate_calls' = [rate_calls EXCEPT ![c] = NoCall]
      /\ steady' = steady
  BY <1>1, <1>2, <1>3, <1>4, <1>5 DEF R!Record
<1>7. /\ steady \in Nat /\ last_sweep \in Nat /\ cut \in Int /\ lag \in Nat
      /\ rate_calls \in [Handlers -> R!Call \cup {NoCall}]
      /\ history \in [Ips -> Seq(Nat)] /\ seen \in [Ips -> Seq(Nat)]
  BY RateTypes
<1>8. call \in R!Call
  BY <1>1, <1>6, <1>7
<1>9. ip \in Ips /\ now \in Nat /\ window \in Windows /\ window \in Int /\ cutoff \in Int
  BY <1>2, <1>8, RateCall
<1>10. now <= steady
  BY <1>1, <1>2, <1>6 DEF R!IInv, R!NotAhead
<1>11. PICK by, to : by = lag' /\ to = cut'
  OBVIOUS
<1>12. /\ by \in Nat /\ lag <= by /\ steady <= now + by
       /\ to \in Int /\ cut <= to /\ cutoff <= to
  BY <1>6, <1>7, <1>9, <1>10, <1>11
<1>13. /\ cut + lag \in Int /\ to + by \in Int /\ cut + lag <= to + by
       /\ cutoff + by <= to + by /\ cutoff <= to + by
  BY <1>7, <1>9, <1>12
<1>14. due \in BOOLEAN
  BY <1>3
<1>15. ASSUME NEW i \in Ips
       PROVE  /\ R!IsTail(history[i], seen[i]) /\ R!OldAreMissing(history[i], seen[i], to + by)
              /\ R!InOrder(seen[i], by)
              /\ history[i] \in Seq(Nat) /\ seen[i] \in Seq(Nat)
  <2>1. /\ R!IsTail(history[i], seen[i]) /\ R!OldAreMissing(history[i], seen[i], cut + lag)
        /\ R!InOrder(seen[i], lag)
    BY DEF R!IInv
  <2>2. history[i] \in Seq(Nat) /\ seen[i] \in Seq(Nat)
    BY <1>7
  <2> QED BY <1>7, <1>12, <1>13, <2>1, <2>2, LaterLag
<1>16. ASSUME NEW i \in Ips
       PROVE  /\ swept[i] \in Seq(Nat) /\ R!IsTail(swept[i], seen[i])
              /\ R!OldAreMissing(swept[i], seen[i], to + by)
              /\ swept[i] # <<>> => swept[i] = history[i] /\ (due => swept[i][Len(swept[i])] >= cutoff)
  <2>1. PICK times, all, left, bound : /\ times = history[i] /\ all = seen[i] /\ left = swept[i]
                                       /\ bound = to + by
    OBVIOUS
  <2>2. /\ times \in Seq(Nat) /\ all \in Seq(Nat) /\ R!IsTail(times, all)
        /\ R!OldAreMissing(times, all, bound) /\ R!InOrder(all, by)
    BY <1>15, <2>1
  <2>3. left = IF due /\ R!Idle(times, cutoff) THEN <<>> ELSE times
    BY <1>4, <2>1
  <2>4. bound \in Int /\ cutoff + by <= bound
    BY <1>13, <2>1
  <2>5. /\ left \in Seq(Nat) /\ R!IsTail(left, all) /\ R!OldAreMissing(left, all, bound)
        /\ left # <<>> => left = times /\ (due => left[Len(left)] >= cutoff)
    BY <1>9, <1>12, <1>14, <2>2, <2>3, <2>4, SweepIp
  <2> QED BY <2>1, <2>5
<1>17. PICK all : all = Append(seen[ip], now)
  OBVIOUS
<1>18. /\ kept \in Seq(Nat) /\ all \in Seq(Nat) /\ R!IsTail(kept, all)
       /\ R!OldAreMissing(kept, all, to + by) /\ R!InOrder(all, by)
       /\ \A k \in 1..Len(kept) : kept[k] >= cutoff - by
  <2>1. PICK left, old, bound : left = swept[ip] /\ old = seen[ip] /\ bound = to + by
    OBVIOUS
  <2>2. /\ left \in Seq(Nat) /\ old \in Seq(Nat) /\ R!IsTail(left, old)
        /\ R!OldAreMissing(left, old, bound) /\ R!InOrder(old, by)
    BY <1>9, <1>15, <1>16, <2>1
  <2>3. \A i \in 1..Len(old) : old[i] <= now + by
    <3> TAKE i \in 1..Len(old)
    <3>1. old[i] <= steady /\ old[i] \in Nat
      BY <1>9, <2>1, <2>2, SeqOfNat DEF R!IInv, R!NotAhead
    <3> QED BY <1>7, <1>9, <1>12, <3>1
  <2>4. PICK pushed : pushed = Append(left, now)
    OBVIOUS
  <2>5. bound \in Int /\ cutoff <= bound
    BY <1>13, <2>1
  <2>6. R!IsTail(pushed, all) /\ R!OldAreMissing(pushed, all, bound) /\ R!InOrder(all, by)
    BY <1>9, <1>12, <1>17, <2>1, <2>2, <2>3, <2>4, <2>5, PushedTail
  <2>7. pushed \in Seq(Nat) /\ all \in Seq(Nat) /\ kept = R!Trim(pushed, cutoff)
    BY <1>5, <1>9, <1>17, <2>1, <2>2, <2>4, AppendProperties
  <2> QED BY <1>9, <1>12, <2>1, <2>5, <2>6, <2>7, TrimmedTail
<1>19. swept \in [Ips -> Seq(Nat)]
  BY <1>4, <1>16
<1>20. /\ history' \in [Ips -> Seq(Nat)] /\ seen' \in [Ips -> Seq(Nat)]
       /\ history'[ip] = kept /\ seen'[ip] = all
       /\ \A i \in Ips \ {ip} : history'[i] = swept[i] /\ seen'[i] = seen[i]
  BY <1>6, <1>7, <1>9, <1>17, <1>18, <1>19
<1>21. R!Types'
  <2>1. rate_calls' \in [Handlers -> R!Call \cup {NoCall}]
    BY <1>6, <1>7
  <2>2. last_sweep' \in Nat
    BY <1>6, <1>7, <1>9
  <2>3. count' \in [call : R!Call, n : Nat] \cup {NoCall}
    BY <1>6, <1>8, <1>18, LenProperties
  <2> QED BY <1>6, <1>7, <1>11, <1>12, <1>20, <2>1, <2>2, <2>3 DEF R!Types
<1>22. R!NotAhead'
  <2>1. last_sweep' <= steady'
    BY <1>6, <1>10 DEF R!IInv, R!NotAhead
  <2>2. \A d \in Handlers : rate_calls'[d] # NoCall => rate_calls'[d].now <= steady'
    BY <1>6, <1>7 DEF R!IInv, R!NotAhead
  <2>3. \A i \in Ips : \A k \in 1..Len(seen'[i]) : seen'[i][k] <= steady'
    <3> TAKE i \in Ips
    <3>1. CASE i # ip
      BY <1>6, <1>20, <3>1 DEF R!IInv, R!NotAhead
    <3>2. CASE i = ip
      <4>1. PICK old \in Seq(Nat) : old = seen[ip]
        BY <1>7, <1>9
      <4>2. PICK n \in Nat : n = Len(old)
        BY SeqOfNat
      <4>3. Len(all) = n + 1 /\ all[n + 1] = now /\ \A k \in 1..n : all[k] = old[k]
        BY <1>9, <1>17, <4>1, <4>2, AppendProperties
      <4>4. \A k \in 1..n : old[k] <= steady
        BY <1>9, <4>1, <4>2 DEF R!IInv, R!NotAhead
      <4>5. \A k \in 1..(n + 1) : k \in 1..n \/ k = n + 1
        OBVIOUS
      <4>6. \A k \in 1..(n + 1) : all[k] <= steady
        BY <1>10, <4>3, <4>4, <4>5
      <4> QED BY <1>6, <1>20, <3>2, <4>3, <4>6
    <3> QED BY <3>1, <3>2
  <2> QED BY <2>1, <2>2, <2>3 DEF R!NotAhead
<1>23. R!Positive => last_sweep' > now - window
  <2> SUFFICES ASSUME R!Positive PROVE last_sweep' > now - window
    OBVIOUS
  <2>1. window > 0
    BY <1>9 DEF R!Positive
  <2>2. CASE due
    <3>1. last_sweep' = now
      BY <1>6, <2>2
    <3> QED BY <1>9, <2>1, <3>1
  <2>3. CASE ~due
    <3>1. last_sweep' = last_sweep /\ ~(now - last_sweep >= window)
      BY <1>3, <1>6, <2>3
    <3>2. last_sweep > now - window
      BY <1>7, <1>9, <3>1
    <3> QED BY <3>1, <3>2
  <2> QED BY <1>14, <2>2, <2>3
<1>24. R!Counted'
  <2>1. /\ count'.call = call /\ count'.n = Len(kept) /\ count'.call.ip = ip
        /\ count'.call.now = now /\ count'.call.window = window
    BY <1>2, <1>6
  <2>2. \A k \in 1..Len(kept) : kept[k] >= now - window - lag'
    BY <1>2, <1>11, <1>18
  <2> QED BY <1>20, <1>23, <2>1, <2>2 DEF R!Counted, R!Positive
<1>25. ASSUME NEW i \in Ips
       PROVE  /\ R!IsTail(history'[i], seen'[i])
              /\ R!OldAreMissing(history'[i], seen'[i], cut' + lag')
              /\ R!InOrder(seen'[i], lag')
  <2>1. cut' + lag' = to + by /\ lag' = by
    BY <1>11
  <2>2. CASE i = ip
    BY <1>18, <1>20, <2>1, <2>2
  <2>3. CASE i # ip
    BY <1>15, <1>16, <1>20, <2>1, <2>3
  <2> QED BY <2>2, <2>3
<1>26. ASSUME R!Positive, NEW i \in Ips PROVE R!Fresh(i)'
  <2>1. PICK w : w = R!Largest(Windows)
    OBVIOUS
  <2>2. w \in Int /\ window <= w /\ window > 0
    BY <1>9, <1>26, <2>1, LargestWindow DEF R!Positive
  <2>3. PICK last : last = last_sweep'
    OBVIOUS
  <2>4. last \in Nat /\ last <= now + by /\ (due => last = now)
    <3>1. last_sweep <= steady
      BY DEF R!IInv, R!NotAhead
    <3> QED BY <1>6, <1>7, <1>9, <1>12, <2>3, <3>1
  <2>5. PICK h : h = history'[i]
    OBVIOUS
  <2>6. ASSUME h # <<>> PROVE h[Len(h)] >= last - w - by
    <3>1. CASE i = ip
      <4>1. PICK left : left = swept[ip]
        OBVIOUS
      <4>2. left \in Seq(Nat)
        BY <1>9, <1>16, <4>1
      <4>3. cutoff < now
        BY <1>2, <1>9, <2>2
      <4>4. kept = R!Trim(Append(left, now), cutoff)
        BY <1>5, <4>1
      <4>5. kept[Len(kept)] = now
        BY <1>9, <4>2, <4>3, <4>4, OwnTimeStays
      <4>6. h = kept
        BY <1>20, <2>5, <3>1
      <4>7. now >= last - w - by
        BY <1>9, <1>12, <2>2, <2>4
      <4> QED BY <4>5, <4>6, <4>7
    <3>2. CASE i # ip
      <4>1. h = swept[i]
        BY <1>20, <2>5, <3>2
      <4>2. h = history[i] /\ (due => h[Len(h)] >= cutoff) /\ h \in Seq(Nat)
        BY <1>16, <2>6, <4>1
      <4>3. Len(h) \in 1..Len(h)
        BY <2>6, <4>2, SeqOfNat
      <4>4. PICK x \in Nat : x = h[Len(h)]
        BY <4>2, <4>3, SeqOfNat
      <4>5. CASE due
        <5>1. x >= now - window
          BY <1>2, <4>2, <4>4, <4>5
        <5>2. x >= last - w - by
          BY <1>9, <1>12, <2>2, <2>4, <4>5, <5>1
        <5> QED BY <4>4, <5>2
      <4>6. CASE ~due
        <5>1. last = last_sweep
          BY <1>6, <2>3, <4>6
        <5>2. R!Fresh(i)
          BY <1>26 DEF R!IInv
        <5>3. x >= last - w - lag
          BY <2>1, <2>6, <4>2, <4>4, <5>1, <5>2 DEF R!Fresh
        <5>4. x >= last - w - by
          BY <1>7, <1>12, <2>2, <2>4, <5>3
        <5> QED BY <4>4, <5>4
      <4> QED BY <1>14, <4>5, <4>6
    <3> QED BY <3>1, <3>2
  <2> QED BY <1>11, <2>1, <2>3, <2>5, <2>6 DEF R!Fresh, R!Largest
<1> QED BY <1>21, <1>22, <1>24, <1>25, <1>26 DEF R!IInv, R!Positive

LEMMA RateInit ==
  ASSUME R!Bounds, R!Init
  PROVE  R!IInv
<1>1. R!Largest(Windows) \in Int
  BY LargestWindow
<1>2. /\ steady = 0 /\ last_sweep = 0 /\ cut = 0 - R!Largest(Windows) /\ lag = 0 /\ count = NoCall
      /\ rate_calls = [c \in Handlers |-> NoCall]
      /\ history = [ip \in Ips |-> <<>>] /\ seen = [ip \in Ips |-> <<>>]
  BY DEF R!Init
<1>3. <<>> \in Seq(Nat) /\ Len(<<>>) = 0
  OBVIOUS
<1>4. R!Types
  BY <1>1, <1>2, <1>3 DEF R!Types
<1>5. \A ip \in Ips : Len(seen[ip]) = 0 /\ Len(history[ip]) = 0 /\ history[ip] = <<>>
  BY <1>2, <1>3
<1>6. 1..0 = {} /\ 0 - 0 = 0 /\ 0 <= 0
  OBVIOUS
<1>7. R!NotAhead /\ R!Counted
  BY <1>2, <1>5, <1>6 DEF R!NotAhead, R!Counted
<1>8. \A ip \in Ips : /\ R!IsTail(history[ip], seen[ip]) /\ R!InOrder(seen[ip], lag)
                      /\ R!OldAreMissing(history[ip], seen[ip], cut + lag)
                      /\ R!Fresh(ip)
  BY <1>5, <1>6 DEF R!IsTail, R!InOrder, R!OldAreMissing, R!Fresh
<1> QED BY <1>4, <1>7, <1>8 DEF R!IInv

\* RequestRateTracker, for any number of callers and IPs and any windows: what is
\* kept of an IP is the end of what was seen of it, in order up to the time by
\* which calls overtook each other, and what is gone is below every later cutoff.
THEOREM RateInvariant ==
  ASSUME R!Bounds
  PROVE  R!Spec => []R!IInv
<1>1. R!Init => R!IInv
  BY RateInit
<1>2. R!IInv /\ [R!Next]_(R!vars) => R!IInv'
  <2> SUFFICES ASSUME R!IInv, [R!Next]_(R!vars) PROVE R!IInv'
    OBVIOUS
  <2>1. CASE R!Tick
    BY <2>1, TickStep
  <2>2. ASSUME NEW c \in Handlers, R!Enter(c) PROVE R!IInv'
    BY <2>2, RateEnterStep
  <2>3. ASSUME NEW c \in Handlers, R!Record(c) PROVE R!IInv'
    BY <2>3, RecordStep
  <2>4. CASE UNCHANGED R!vars
    <3>1. /\ UNCHANGED <<steady, rate_calls, history, last_sweep, seen, cut, lag, count>>
          /\ steady \in Nat /\ rate_calls \in [Handlers -> R!Call \cup {NoCall}]
      BY <2>4, RateTypes DEF R!vars
    <3>2. steady <= steady
      BY <3>1
    <3>3. \A c \in Handlers : rate_calls[c] # NoCall => rate_calls[c].now <= steady
      BY DEF R!IInv, R!NotAhead
    <3> QED BY <3>1, <3>2, <3>3, RateWaits
  <2> QED BY <2>1, <2>2, <2>3, <2>4 DEF R!Next
<1> QED BY <1>1, <1>2, PTL DEF R!Spec

\* The places from one on: as many as there are.
LEMMA PlacesFrom ==
  ASSUME NEW n \in Nat, NEW k \in 0..n
  PROVE  IsFiniteSet((k + 1)..n) /\ Cardinality((k + 1)..n) = n - k
<1>1. k + 1 \in Int /\ n \in Int
  OBVIOUS
<1>2. /\ IsFiniteSet((k + 1)..n)
      /\ Cardinality((k + 1)..n) = IF k + 1 > n THEN 0 ELSE n - (k + 1) + 1
  BY <1>1, FS_Interval
<1> QED BY <1>2

\* record() returns the number of requests of its window, up to the time by which
\* calls overtake each other between the clock and the lock: at least those that no
\* call could have discarded and at most those of the window.
THEOREM RateCounts ==
  ASSUME R!Bounds
  PROVE  R!Spec => []RateWithinLag
<1>1. ASSUME R!IInv PROVE RateWithinLag
  <2> SUFFICES ASSUME count # NoCall
               PROVE  /\ count.n >= R!Since(count.call.ip, cut + lag)
                      /\ count.n <= R!Since(count.call.ip,
                                            count.call.now - count.call.window - lag)
    BY DEF RateWithinLag, R!RateWithinLag
  <2>1. PICK call, ip, h, all : /\ call = count.call /\ ip = call.ip
                                /\ h = history[ip] /\ all = seen[ip]
    OBVIOUS
  <2>2. call \in R!Call
    BY <1>1, <2>1, RateTypes
  <2>3. ip \in Ips /\ call.now - call.window \in Int
    BY <2>1, <2>2, RateCall
  <2>4. h \in Seq(Nat) /\ all \in Seq(Nat) /\ cut \in Int /\ lag \in Nat
    BY <1>1, <2>1, <2>3, RateTypes
  <2>5. PICK n \in Nat : n = Len(h)
    BY <2>4, SeqOfNat
  <2>6. PICK a \in Nat : a = Len(all) /\ DOMAIN all = 1..a /\ \A i \in 1..a : all[i] \in Nat
    BY <2>4, SeqOfNat, LenProperties
  <2>7. count.n = n
    BY <1>1, <2>1, <2>5 DEF R!IInv, R!Counted
  <2>8. /\ n <= a /\ \A k \in 1..n : h[k] = all[a - n + k]
        /\ \A i \in 1..(a - n) : all[i] < cut + lag
    BY <1>1, <2>1, <2>3, <2>5, <2>6 DEF R!IInv, R!IsTail, R!OldAreMissing
  <2>9. PICK k \in 0..a : k = a - n
    BY <2>8
  <2>10. IsFiniteSet((k + 1)..a) /\ Cardinality((k + 1)..a) = n
    <3>1. IsFiniteSet((k + 1)..a) /\ Cardinality((k + 1)..a) = a - k
      BY PlacesFrom
    <3>2. a - k = n
      BY <2>9
    <3> QED BY <3>1, <3>2
  <2>11. count.n >= R!Since(ip, cut + lag)
    <3>1. PICK S : S = {i \in 1..a : all[i] >= cut + lag}
      OBVIOUS
    <3>2. S \subseteq (k + 1)..a
      <4> SUFFICES ASSUME NEW i \in S PROVE i \in (k + 1)..a
        OBVIOUS
      <4>1. i \in 1..a /\ all[i] >= cut + lag
        BY <3>1
      <4>2. all[i] \in Nat /\ cut + lag \in Int
        BY <2>4, <2>6, <4>1
      <4>3. i \notin 1..(a - n)
        BY <2>8, <4>1, <4>2
      <4> QED BY <2>9, <4>1, <4>3
    <3>3. Cardinality(S) <= Cardinality((k + 1)..a) /\ IsFiniteSet(S)
      BY <2>10, <3>2, FS_Subset
    <3>4. Cardinality(S) \in Nat
      BY <3>3, FS_CardinalityType
    <3>5. R!Since(ip, cut + lag) = Cardinality(S)
      <4>1. S = {i \in DOMAIN all : all[i] >= cut + lag}
        BY <2>6, <3>1
      <4>2. S = {i \in DOMAIN seen[ip] : seen[ip][i] >= cut + lag}
        BY <2>1, <4>1, Zenon
      <4> QED BY <4>2, Zenon DEF R!Since, R!Cardinality, Cardinality
    <3> QED BY <2>7, <2>10, <3>3, <3>4, <3>5
  <2>12. count.n <= R!Since(ip, call.now - call.window - lag)
    <3>1. PICK t, S : t = call.now - call.window - lag /\ S = {i \in 1..a : all[i] >= t}
      OBVIOUS
    <3>2. \A j \in 1..n : h[j] >= t
      BY <1>1, <2>1, <2>5, <3>1 DEF R!IInv, R!Counted
    <3>3. (k + 1)..a \subseteq S
      <4> SUFFICES ASSUME NEW i \in (k + 1)..a PROVE i \in S
        OBVIOUS
      <4>1. PICK j \in 1..n : i = a - n + j
        <5>1. i - (a - n) \in 1..n /\ i = a - n + (i - (a - n))
          BY <2>9
        <5> QED BY <5>1
      <4>2. all[i] >= t
        BY <2>8, <3>2, <4>1
      <4>3. i \in 1..a
        BY <2>9
      <4> QED BY <3>1, <4>2, <4>3
    <3>4. IsFiniteSet(1..a)
      BY FS_Interval
    <3>5. IsFiniteSet(S)
      BY <3>1, <3>4, FS_Subset
    <3>6. Cardinality((k + 1)..a) <= Cardinality(S)
      BY <3>3, <3>5, FS_Subset
    <3>7. R!Since(ip, t) = Cardinality(S)
      <4>1. S = {i \in DOMAIN all : all[i] >= t}
        BY <2>6, <3>1
      <4>2. S = {i \in DOMAIN seen[ip] : seen[ip][i] >= t}
        BY <2>1, <4>1, Zenon
      <4> QED BY <4>2, Zenon DEF R!Since, R!Cardinality, Cardinality
    <3> QED BY <2>7, <2>10, <3>1, <3>6, <3>7
  <2> QED BY <2>1, <2>11, <2>12
<1> QED BY <1>1, RateInvariant, PTL

\* After a request no IP stays tracked whose last request is further back than the
\* caller's window, the longest window and the lag (sweep_locked), for the windows
\* the admin's route accepts.
THEOREM IdleSwept ==
  ASSUME R!Bounds, R!Positive
  PROVE  R!Spec => []IdleIpsAreSwept
<1>1. ASSUME R!IInv PROVE IdleIpsAreSwept
  <2> SUFFICES ASSUME count # NoCall, NEW ip \in Ips, history[ip] # <<>>
               PROVE  history[ip][Len(history[ip])]
                        > count.call.now - count.call.window - R!Largest(Windows) - lag
    BY DEF IdleIpsAreSwept, R!IdleIpsAreSwept
  <2>1. PICK call, h, w : call = count.call /\ h = history[ip] /\ w = R!Largest(Windows)
    OBVIOUS
  <2>2. call \in R!Call
    BY <1>1, <2>1, RateTypes
  <2>3. PICK t \in Int : t = call.now - call.window
    BY <2>2, RateCall
  <2>4. h \in Seq(Nat) /\ last_sweep \in Nat /\ lag \in Nat
    BY <1>1, <2>1, RateTypes
  <2>5. Len(h) \in 1..Len(h)
    BY <2>1, <2>4, SeqOfNat
  <2>6. PICK x \in Nat : x = h[Len(h)]
    BY <2>4, <2>5, SeqOfNat
  <2>7. w \in Int
    BY <2>1, LargestWindow
  <2>8. x >= last_sweep - w - lag
    BY <1>1, <2>1, <2>6 DEF R!IInv, R!Fresh
  <2>9. last_sweep > t
    BY <1>1, <2>1, <2>3 DEF R!IInv, R!Counted
  <2>10. x > t - w - lag
    BY <2>4, <2>7, <2>8, <2>9
  <2> QED BY <2>1, <2>3, <2>6, <2>10
<1> QED BY <1>1, RateInvariant, PTL

-----------------------------------------------------------------------------
(***************************************************************************)
(* WebAuthn                                                                *)
(***************************************************************************)
LEMMA IsSeqLen ==
  ASSUME NEW s, W!IsSeq(s)
  PROVE  Len(s) \in Nat /\ DOMAIN s = 1..Len(s)
  BY LenProperties DEF W!IsSeq

\* parse_authenticator_data finds the id, the key and the counter of whole data.
LEMMA WholeParsed ==
  ASSUME NEW data, NEW made, W!IsSeq(data), W!IsSeq(made.id), W!Carries(data, made),
         W!HasFlag(data[2].n, W!kFlagAttestedCredentialData)
  PROVE  /\ W!parse_authenticator_data(data).id = made.id
         /\ W!parse_authenticator_data(data).key = made.key
         /\ W!parse_authenticator_data(data).count = made.count
         /\ W!parse_authenticator_data(data).flags = data[2].n
         /\ W!parse_authenticator_data(data).ok <=> W!parse_cbor(made.key) /\ made.key.kind = "map"
<1>1. PICK id : id = made.id
  OBVIOUS
<1>2. PICK size \in Nat : size = Len(id) /\ DOMAIN id = 1..size
  BY <1>1, IsSeqLen
<1>3. PICK len \in Nat : len = Len(data) /\ DOMAIN data = 1..len
  BY IsSeqLen
<1>4. /\ len >= 6 + size /\ data[3].n = made.count /\ data[5].n = size
      /\ \A i \in 1..size : data[5 + i] = id[i]
      /\ data[6 + size] = made.key
  BY <1>1, <1>2, <1>3 DEF W!Carries
<1>5. PICK offset \in Nat : offset = 5 + size
  OBVIOUS
<1>6. W!kFixedHeaderLen = 3
  BY DEF W!kFixedHeaderLen
<1>7. /\ ~(len < 3) /\ ~(len < 3 + 2) /\ 3 + 2 + size = offset /\ ~(len < offset) /\ ~(offset >= len)
      /\ offset + 1 = 6 + size /\ 3 + 3 = 6
  BY <1>4, <1>5
<1>8. W!parse_authenticator_data(data) =
        [ok |-> W!parse_cbor(data[offset + 1]) /\ data[offset + 1].kind = "map",
         flags |-> data[2].n, id |-> SubSeq(data, 6, offset), key |-> data[offset + 1], count |-> data[3].n]
  BY <1>3, <1>4, <1>6, <1>7 DEF W!parse_authenticator_data
<1>9. SubSeq(data, 6, offset) = id
  <2>1. PICK S : S = {data[i] : i \in DOMAIN data}
    OBVIOUS
  <2>2. \A i \in 6..offset : data[i] \in S
    <3>1. len >= 6 + size
      BY <1>4
    <3>2. \A i \in 6..offset : i \in 1..len
      BY ONLY <1>5, <3>1, size \in Nat, len \in Nat
    <3> QED BY <1>3, <2>1, <3>2, Zenon
  <2>3. PICK sub : sub = SubSeq(data, 6, offset)
    OBVIOUS
  <2>4. 6 \in Int /\ offset \in Int
    OBVIOUS
  <2>5. /\ sub \in Seq(S) /\ Len(sub) = IF 6 <= offset THEN offset - 6 + 1 ELSE 0
        /\ \A i \in 1..(offset - 6 + 1) : sub[i] = data[6 + i - 1]
    BY <2>2, <2>3, <2>4, SubSeqProperties
  <2>6. offset - 6 + 1 = size /\ Len(sub) = size
    BY <1>5, <2>5
  <2>7. \A i \in 1..size : 6 + i - 1 = 5 + i
    OBVIOUS
  <2>8. \A i \in 1..size : sub[i] = id[i]
    BY <1>4, <2>5, <2>6, <2>7
  <2>9. PICK U : U = S \cup {id[i] : i \in DOMAIN id}
    OBVIOUS
  <2>10. id \in Seq({id[i] : i \in DOMAIN id})
    BY <1>1 DEF W!IsSeq
  <2>11. id \in Seq(U) /\ sub \in Seq(U)
    BY <2>5, <2>9, <2>10, SeqDef
  <2>12. sub = id
    BY <1>2, <2>6, <2>8, <2>11, SeqEqual
  <2> QED BY <2>3, <2>12
<1>10. data[offset + 1] = made.key
  BY <1>4, <1>7
<1>11. PICK parsed : parsed = W!parse_authenticator_data(data)
  OBVIOUS
<1>12. parsed = [ok |-> W!parse_cbor(made.key) /\ made.key.kind = "map",
                 flags |-> data[2].n, id |-> id, key |-> made.key, count |-> made.count]
  BY <1>4, <1>8, <1>9, <1>10, <1>11, Zenon
<1>13. parsed.id = id /\ parsed.key = made.key /\ parsed.count = made.count /\ parsed.flags = data[2].n
  BY <1>12
<1>14. parsed.ok = (W!parse_cbor(made.key) /\ made.key.kind = "map")
  BY <1>12, Zenon
<1> QED BY <1>1, <1>11, <1>13, <1>14, Zenon

\* It refuses data that ends before the key does.
LEMMA CutRefused ==
  ASSUME NEW data, NEW made, W!IsSeq(data), W!IsSeq(made.id), W!CutShort(data, made)
  PROVE  W!parse_authenticator_data(data).ok = FALSE
<1>1. PICK size \in Nat : size = Len(made.id)
  BY IsSeqLen
<1>2. PICK len \in Nat : len = Len(data)
  BY IsSeqLen
<1>3. len < 6 + size /\ (len >= 5 => data[5].n = size) /\ W!kFixedHeaderLen = 3
  BY <1>1, <1>2 DEF W!CutShort, W!kFixedHeaderLen
<1>4. W!parse_authenticator_data(data) = W!Throws
  <2>1. CASE len < 5
    BY <1>2, <1>3, <2>1 DEF W!parse_authenticator_data
  <2>2. CASE ~(len < 5)
    <3>1. 3 + 2 = 5 /\ data[5].n = size /\ 5 + size >= len
      BY <1>3, <2>2
    <3> QED BY <1>2, <1>3, <2>2, <3>1 DEF W!parse_authenticator_data
  <2> QED BY <2>1, <2>2
<1>5. W!Throws.ok = FALSE
  BY DEF W!Throws
<1> QED BY <1>4, <1>5, Zenon

\* It refuses data whose flags attest no credential.
LEMMA UnattestedRefused ==
  ASSUME NEW data, W!IsSeq(data), ~W!HasFlag(data[2].n, W!kFlagAttestedCredentialData)
  PROVE  W!parse_authenticator_data(data).ok = FALSE
<1>1. W!parse_authenticator_data(data) = W!Throws
  BY DEF W!parse_authenticator_data
<1>2. W!Throws.ok = FALSE
  BY DEF W!Throws
<1> QED BY <1>1, <1>2, Zenon

\* A registration is accepted if everything about it is fine, and then parsed as made.
LEMMA RegistrationChecked ==
  ASSUME W!Bounds, NEW input \in Inputs
  PROVE  /\ W!verify_webauthn_registration(input.client, input.rp, input.data)
              <=> /\ input.client = W!ClientFields /\ input.rp /\ {"UP", "AT"} \subseteq input.flags
                  /\ input.whole /\ input.made.usable
         /\ W!verify_webauthn_registration(input.client, input.rp, input.data)
              => /\ W!parse_authenticator_data(input.data).id = input.made.id
                 /\ W!parse_authenticator_data(input.data).key = input.made.key
                 /\ W!parse_authenticator_data(input.data).count = input.made.count
                 /\ input.made.count \in Nat /\ W!KeyPasses(input.made.key)
<1>1. PICK data, made, parsed, flags : /\ data = input.data /\ made = input.made
                                       /\ parsed = W!parse_authenticator_data(data)
                                       /\ flags = input.flags
  OBVIOUS
<1> DEFINE ok == W!verify_webauthn_registration(input.client, input.rp, input.data)
           present == W!HasFlag(parsed.flags, W!kFlagUserPresent)
           attested == W!HasFlag(data[2].n, W!kFlagAttestedCredentialData)
<1>2. /\ W!IsSeq(made.id) /\ W!IsSeq(data) /\ made.count \in Nat
      /\ made.usable <=> W!KeyPasses(made.key)
      /\ input.whole => W!Carries(data, made)
      /\ ~input.whole => W!CutShort(data, made)
      /\ W!Flagged(data, flags)
  BY <1>1, Zenon DEF W!Bounds
<1>3. ok <=> /\ input.client = W!ClientFields /\ parsed.ok /\ input.rp /\ present
             /\ W!parse_cbor(parsed.key) /\ W!parse_cose_public_key(parsed.key)
  BY <1>1, Zenon DEF W!verify_webauthn_registration, W!verify_client_data
<1>4. CASE input.whole
  <2>0. Len(data) >= 2
    <3>1. Len(data) \in Nat /\ Len(made.id) \in Nat /\ Len(data) >= 6 + Len(made.id)
      BY <1>2, <1>4, IsSeqLen DEF W!Carries
    <3> QED BY <3>1
  <2>1. /\ "UP" \in flags <=> W!HasFlag(data[2].n, W!kFlagUserPresent)
        /\ "AT" \in flags <=> attested
    BY <1>2, <2>0, Zenon DEF W!Flagged
  <2>2. W!parse_cose_public_key(made.key) => made.key.kind = "map"
    BY Zenon DEF W!parse_cose_public_key
  <2>3. CASE attested
    <3>1. /\ parsed.id = made.id /\ parsed.key = made.key /\ parsed.count = made.count
          /\ parsed.flags = data[2].n
          /\ parsed.ok <=> W!parse_cbor(made.key) /\ made.key.kind = "map"
      BY <1>1, <1>2, <1>4, <2>3, WholeParsed, Zenon
    <3>2. {"UP", "AT"} \subseteq flags <=> present
      <4>1. present <=> "UP" \in flags
        BY <2>1, <3>1, Zenon
      <4>2. "AT" \in flags
        BY <2>1, <2>3, Zenon
      <4>3. {"UP", "AT"} \subseteq flags <=> "UP" \in flags
        BY <4>2
      <4> QED BY <4>1, <4>3, Zenon
    <3>3. ok <=> /\ input.client = W!ClientFields /\ input.rp /\ {"UP", "AT"} \subseteq flags
                 /\ made.usable
      BY <1>2, <1>3, <2>2, <3>1, <3>2, Zenon DEF W!KeyPasses
    <3> QED BY <1>1, <1>2, <1>4, <3>1, <3>3, Zenon
  <2>4. CASE ~attested
    <3>1. parsed.ok = FALSE
      BY <1>1, <1>2, <2>4, UnattestedRefused, Zenon
    <3>2. ~({"UP", "AT"} \subseteq flags)
      BY <2>1, <2>4
    <3> QED BY <1>1, <1>3, <3>1, <3>2, Zenon
  <2> QED BY <2>3, <2>4
<1>5. CASE ~input.whole
  <2>1. parsed.ok = FALSE
    BY <1>1, <1>2, <1>5, CutRefused, Zenon
  <2> QED BY <1>3, <1>5, <2>1, Zenon
<1> QED BY <1>4, <1>5, Zenon

\* The registrations known so far keep their numbers.
IdsKept == DOMAIN ids \subseteq DOMAIN ids' /\ \A n \in DOMAIN ids : ids'[n] = ids[n]

\* The passkeys of a store stay registered, and no counter is accepted meanwhile.
LEMMA StoreLater ==
  ASSUME NEW passkeys, W!StoreInv(passkeys), accepted' = accepted, IdsKept,
         overlap \subseteq overlap'
  PROVE  W!StoreInv(passkeys)'
<1>1. \A key : W!KeyPasses(key)' <=> W!KeyPasses(key)
  BY DEF W!KeyPasses
<1>2. \A passkey : W!IsPasskey(passkey)' <=> W!IsPasskey(passkey)
  BY DEF W!IsPasskey, W!KeyPasses
<1> QED BY <1>2 DEF W!StoreInv, IdsKept

\* Registrations are numbered from 1.
LEMMA IdsNumbered ==
  ASSUME W!IInv
  PROVE  Len(ids) \in Nat /\ DOMAIN ids = 1..Len(ids)
  BY IsSeqLen DEF W!IInv

\* What was accepted was registered.
LEMMA AcceptedTypes ==
  ASSUME W!IInv
  PROVE  /\ Len(accepted) \in Nat /\ DOMAIN accepted = 1..Len(accepted)
         /\ \A i \in DOMAIN accepted : accepted[i].n \in DOMAIN ids /\ accepted[i].count \in Nat
<1>1. PICK D : D = DOMAIN ids
  OBVIOUS
<1>2. accepted \in Seq([n : D, count : Nat])
  BY <1>1 DEF W!IInv
<1>3. Len(accepted) \in Nat /\ DOMAIN accepted = 1..Len(accepted)
  BY <1>2, LenProperties
<1>4. \A i \in 1..Len(accepted) : accepted[i] \in [n : D, count : Nat]
  BY <1>2, ElementOfSeq
<1> QED BY <1>1, <1>3, <1>4

LEMMA QuietStep ==
  ASSUME W!IInv, accepted' = accepted, W!IsSeq(ids)', IdsKept, overlap \subseteq overlap',
         W!StoreInv(users)', W!StoreInv(file)', DOMAIN req' = Logins,
         \A r \in Logins : W!LoginInv(r)', W!Attested'
  PROVE  W!IInv'
<1>1. PICK D, E : D = DOMAIN ids /\ E = DOMAIN ids'
  OBVIOUS
<1>2. accepted \in Seq([n : D, count : Nat])
  BY <1>1 DEF W!IInv
<1>3. [n : D, count : Nat] \subseteq [n : E, count : Nat]
  BY <1>1 DEF IdsKept
<1>4. accepted' \in Seq([n : E, count : Nat])
  BY <1>2, <1>3, SeqMonotonic
<1>5. W!CountersRise'
  <2>1. \A i \in DOMAIN accepted : ids'[accepted[i].n] = ids[accepted[i].n]
    BY AcceptedTypes DEF IdsKept
  <2>2. W!CountersRise
    BY DEF W!IInv
  <2> QED BY <2>1, <2>2 DEF W!CountersRise
<1> QED BY <1>1, <1>4, <1>5 DEF W!IInv

\* A passkey that is the first of its id stays it as long as no other one with
\* the id comes before it, and a login of it can go on.
LEMMA LoginLater ==
  ASSUME W!IInv, NEW r \in Logins, req'[r] = req[r], IdsKept, overlap \subseteq overlap',
         req[r].at = "update" /\ ids[req[r].n] \notin overlap' =>
           /\ req[r].n \in DOMAIN users' /\ users'[req[r].n] = users[req[r].n]
           /\ \A m \in DOMAIN users' :
                m \in DOMAIN users \/ (m \in DOMAIN ids' /\ ids'[m] = ids[req[r].n] => req[r].n <= m),
         DOMAIN users' \subseteq DOMAIN ids',
         \A q \in Logins : req'[q].at = "update" => req'[q] = req[q]
  PROVE  W!LoginInv(r)'
<1>1. W!LoginInv(r) /\ W!StoreInv(users)
  BY DEF W!IInv
<1>2. PICK n : n = req[r].n
  OBVIOUS
<1>3. ASSUME req[r].at = "update"
      PROVE  n \in DOMAIN ids' /\ ids'[n] = ids[n] /\ req[r].count \in Nat
  BY <1>1, <1>2, <1>3 DEF W!LoginInv, IdsKept
<1>4. ASSUME req[r].at = "update", ids[n] \notin overlap'
      PROVE  /\ W!IsFirst(users, n)'
             /\ W!CounterAccepted(users'[n].count, req[r].count)
             /\ \A q \in Logins : req'[q].at = "update" /\ ids'[req'[q].n] = ids'[n] => q = r
  <2>1. /\ W!IsFirst(users, n) /\ W!CounterAccepted(users[n].count, req[r].count)
        /\ \A q \in Logins : req[q].at = "update" /\ ids[req[q].n] = ids[n] => q = r
    BY <1>1, <1>2, <1>4 DEF W!LoginInv
  <2>2. n \in DOMAIN users' /\ users'[n] = users[n]
    BY <1>2, <1>4
  <2>3. ASSUME NEW m \in DOMAIN users', ids'[m] = ids'[n] PROVE n <= m
    <3>1. CASE m \in DOMAIN users
      <4>1. ids'[m] = ids[m]
        BY <1>1, <3>1 DEF W!StoreInv, IdsKept
      <4> QED BY <1>3, <1>4, <2>1, <2>3, <3>1, <4>1 DEF W!IsFirst
    <3>2. CASE m \notin DOMAIN users
      BY <1>2, <1>3, <1>4, <2>3, <3>2
    <3> QED BY <3>1, <3>2
  <2>4. ASSUME NEW q \in Logins, req'[q].at = "update", ids'[req'[q].n] = ids'[n] PROVE q = r
    <3>1. req'[q] = req[q] /\ W!LoginInv(q)
      BY <2>4 DEF W!IInv
    <3>2. req[q].n \in DOMAIN ids
      BY <2>4, <3>1 DEF W!LoginInv
    <3>3. ids'[req[q].n] = ids[req[q].n]
      BY <3>2 DEF IdsKept
    <3> QED BY <1>3, <1>4, <2>1, <2>4, <3>1, <3>3
  <2> QED BY <2>1, <2>2, <2>3, <2>4 DEF W!IsFirst
<1>5. \A a, b : W!CounterAccepted(a, b)' <=> W!CounterAccepted(a, b)
  BY DEF W!CounterAccepted
<1> QED BY <1>2, <1>3, <1>4, <1>5 DEF W!LoginInv, W!IsFirst, W!CounterAccepted

LEMMA RegisterStep ==
  ASSUME W!Bounds, W!IInv, NEW input \in Inputs, NEW saved \in BOOLEAN, W!Register(input, saved)
  PROVE  W!IInv'
<1>1. PICK ok, parsed :
        /\ ok = W!verify_webauthn_registration(input.client, input.rp, input.data)
        /\ parsed = W!parse_authenticator_data(input.data)
  OBVIOUS
<1>2. /\ ok <=> /\ input.client = W!ClientFields /\ input.rp /\ {"UP", "AT"} \subseteq input.flags
                /\ input.whole /\ input.made.usable
      /\ ok => /\ parsed.id = input.made.id /\ parsed.key = input.made.key
               /\ parsed.count = input.made.count
               /\ input.made.count \in Nat /\ W!KeyPasses(input.made.key)
  <2>1. ok = W!verify_webauthn_registration(input.client, input.rp, input.data)
    BY <1>1, Zenon
  <2>2. /\ W!verify_webauthn_registration(input.client, input.rp, input.data)
             <=> /\ input.client = W!ClientFields /\ input.rp /\ {"UP", "AT"} \subseteq input.flags
                 /\ input.whole /\ input.made.usable
        /\ W!verify_webauthn_registration(input.client, input.rp, input.data)
             => /\ W!parse_authenticator_data(input.data).id = input.made.id
                /\ W!parse_authenticator_data(input.data).key = input.made.key
                /\ W!parse_authenticator_data(input.data).count = input.made.count
                /\ input.made.count \in Nat /\ W!KeyPasses(input.made.key)
    BY RegistrationChecked, Zenon
  <2>3. parsed = W!parse_authenticator_data(input.data)
    BY <1>1, Zenon
  <2> QED BY <2>1, <2>2, <2>3, Zenon
<1>3. /\ IF ok THEN /\ W!Save(W!With(users, Len(ids) + 1, [key |-> parsed.key, count |-> parsed.count]), saved)
                    /\ ids' = Append(ids, parsed.id)
         ELSE UNCHANGED <<users, file, ids>>
      /\ answered' = [op |-> "register", input |-> input, ok |-> ok,
                      stored |-> [id |-> parsed.id, key |-> parsed.key, count |-> parsed.count]]
      /\ UNCHANGED <<req, accepted, overlap>>
  BY <1>1, Zenon DEF W!Register
<1>4. W!Attested'
  <2>1. /\ answered'.input = input /\ answered'.stored.id = parsed.id
        /\ answered'.stored.key = parsed.key /\ answered'.stored.count = parsed.count
    BY <1>3
  <2>2. answered'.ok = ok
    BY <1>3, Zenon
  <2> QED BY <1>2, <2>1, <2>2, Zenon DEF W!Attested, W!ClientFields
<1>5. /\ W!IsSeq(ids) /\ W!StoreInv(users) /\ W!StoreInv(file) /\ DOMAIN req = Logins
      /\ \A r \in Logins : W!LoginInv(r)
  BY DEF W!IInv
<1>6. PICK len \in Nat : len = Len(ids) /\ DOMAIN ids = 1..len
  <2>1. Len(ids) \in Nat /\ DOMAIN ids = 1..Len(ids)
    BY IdsNumbered
  <2> QED BY <2>1, Zenon
<1>7. CASE ~ok
  <2>1. UNCHANGED <<users, file, ids, req, accepted, overlap>>
    BY <1>3, <1>7
  <2>2. IdsKept /\ overlap \subseteq overlap' /\ W!IsSeq(ids)'
    BY <1>5, <2>1 DEF IdsKept, W!IsSeq
  <2>3. W!StoreInv(users)' /\ W!StoreInv(file)'
    <3>1. PICK u, f : u = users /\ f = file
      OBVIOUS
    <3>2. W!StoreInv(u)' /\ W!StoreInv(f)'
      BY <1>5, <2>1, <2>2, <3>1, StoreLater
    <3> QED BY <2>1, <3>1, <3>2 DEF W!StoreInv
  <2>4. \A r \in Logins : W!LoginInv(r)'
    BY <1>5, <2>1 DEF W!LoginInv, W!CounterAccepted, W!IsFirst
  <2> QED BY <1>4, <1>5, <2>1, <2>2, <2>3, <2>4, QuietStep
<1>8. CASE ok
  <2>1. PICK n, id, passkey, new :
          /\ n = len + 1 /\ id = parsed.id
          /\ passkey = [key |-> parsed.key, count |-> parsed.count]
          /\ new = W!With(users, n, passkey)
    OBVIOUS
  <2>2. /\ users' = new /\ file' = (IF saved THEN new ELSE file) /\ ids' = Append(ids, id)
    BY <1>3, <1>6, <1>8, <2>1 DEF W!Save
  <2>3. /\ DOMAIN new = DOMAIN users \cup {n} /\ new[n] = passkey
        /\ \A j \in DOMAIN users : j # n => new[j] = users[j]
    BY <2>1 DEF W!With
  <2>4. DOMAIN users \subseteq 1..len /\ n \notin 1..len /\ n \in Nat
    BY <1>5, <1>6, <2>1 DEF W!StoreInv
  <2>5. /\ DOMAIN ids' = 1..(len + 1) /\ ids'[n] = id /\ \A j \in 1..len : ids'[j] = ids[j]
        /\ W!IsSeq(ids)'
    <3>1. PICK S, X : S = {ids[j] : j \in DOMAIN ids} /\ X = S \cup {id}
      OBVIOUS
    <3>2. ids \in Seq(X) /\ id \in X
      BY <1>5, <3>1, SeqMonotonic DEF W!IsSeq
    <3>3. PICK more : more = Append(ids, id)
      OBVIOUS
    <3>4. /\ more \in Seq(X) /\ Len(more) = len + 1 /\ DOMAIN more = 1..(len + 1)
          /\ more[len + 1] = id /\ \A j \in 1..len : more[j] = ids[j]
      BY <1>6, <3>2, <3>3, AppendProperties, LenProperties
    <3>5. W!IsSeq(more)
      <4>1. PICK U : U = {more[k] : k \in DOMAIN more}
        OBVIOUS
      <4>2. \A j \in 1..Len(more) : more[j] \in U
        BY <3>4, <4>1
      <4>3. more \in Seq(U)
        BY <3>4, <4>2
      <4> QED BY <4>1, <4>3 DEF W!IsSeq
    <3>6. ids' = more
      BY <2>2, <3>3
    <3>7. W!IsSeq(ids')
      BY <3>5, <3>6
    <3> QED BY <2>1, <3>4, <3>6, <3>7 DEF W!IsSeq
  <2>6. IdsKept /\ overlap \subseteq overlap'
    BY <1>3, <1>6, <2>5 DEF IdsKept
  <2>7. W!IsPasskey(passkey)
    <3>1. passkey.key = input.made.key /\ passkey.count = input.made.count
      BY <1>2, <1>8, <2>1
    <3>2. passkey = [key |-> passkey.key, count |-> passkey.count]
      BY <2>1
    <3> QED BY <1>2, <1>8, <3>1, <3>2, Zenon DEF W!IsPasskey
  <2>8. \A i \in DOMAIN accepted : accepted[i].n # n
    BY <1>6, <2>4, AcceptedTypes
  <2>9. W!StoreInv(new)'
    <3>1. \A p : W!IsPasskey(p)' <=> W!IsPasskey(p)
      BY DEF W!IsPasskey, W!KeyPasses
    <3>2. DOMAIN new \subseteq DOMAIN ids'
      BY <2>1, <2>3, <2>4, <2>5
    <3>3. \A j \in DOMAIN new : W!IsPasskey(new[j])
      BY <1>5, <2>3, <2>4, <2>7 DEF W!StoreInv
    <3>4. ASSUME NEW j \in DOMAIN new, NEW i \in DOMAIN accepted, accepted[i].n = j,
                 ids'[j] \notin overlap
          PROVE  accepted[i].count <= new[j].count
      <4>1. j \in DOMAIN users /\ j # n
        BY <2>3, <2>8, <3>4
      <4>2. new[j] = users[j] /\ ids'[j] = ids[j]
        BY <2>3, <2>4, <2>5, <4>1
      <4> QED BY <1>5, <3>4, <4>1, <4>2 DEF W!StoreInv
    <3> QED BY <1>3, <3>1, <3>2, <3>3, <3>4 DEF W!StoreInv
  <2>10. PICK f : f = file
    OBVIOUS
  <2>11. W!StoreInv(f)'
    BY <1>3, <1>5, <2>6, <2>10, StoreLater
  <2>12. W!StoreInv(users)' /\ W!StoreInv(file)'
    BY <2>2, <2>9, <2>10, <2>11 DEF W!StoreInv
  <2>13. ASSUME NEW r \in Logins PROVE W!LoginInv(r)'
    <3>1. W!LoginInv(r)
      BY <1>5
    <3>2. req[r].at = "update" => req[r].n \in 1..len /\ req[r].n <= n
      BY <1>6, <2>1, <3>1 DEF W!LoginInv
    <3>3. req[r].at = "update" /\ ids[req[r].n] \notin overlap' =>
            /\ req[r].n \in DOMAIN users' /\ users'[req[r].n] = users[req[r].n]
            /\ \A m \in DOMAIN users' :
                 m \in DOMAIN users \/ (m \in DOMAIN ids' /\ ids'[m] = ids[req[r].n] => req[r].n <= m)
      BY <1>3, <2>2, <2>3, <2>4, <3>1, <3>2 DEF W!LoginInv, W!IsFirst
    <3>4. DOMAIN users' \subseteq DOMAIN ids'
      BY <2>1, <2>2, <2>3, <2>4, <2>5
    <3> QED BY <1>3, <2>6, <3>3, <3>4, LoginLater
  <2> QED BY <1>3, <1>4, <1>5, <2>5, <2>6, <2>12, <2>13, QuietStep
<1> QED BY <1>7, <1>8

LEMMA NoAnswer ==
  ASSUME answered' = W!NoInput
  PROVE  W!Attested'
<1>1. W!NoInput.op = "none"
  BY DEF W!NoInput
<1> QED BY <1>1 DEF W!Attested

LEMMA RemoveStep ==
  ASSUME W!Bounds, W!IInv, NEW n, NEW saved \in BOOLEAN, W!Remove(n, saved)
  PROVE  W!IInv'
<1>1. PICK new : new = W!Without(users, n)
  OBVIOUS
<1>2. /\ users' = new /\ file' = (IF saved THEN new ELSE file) /\ overlap' = W!Overlapping(ids[n])
      /\ answered' = W!NoInput /\ UNCHANGED <<req, accepted, ids>>
  BY <1>1 DEF W!Remove, W!Save
<1>3. /\ W!IsSeq(ids) /\ W!StoreInv(users) /\ W!StoreInv(file) /\ DOMAIN req = Logins
      /\ \A r \in Logins : W!LoginInv(r)
  BY DEF W!IInv
<1>4. DOMAIN new = DOMAIN users \ {n} /\ \A j \in DOMAIN new : new[j] = users[j]
  BY <1>1 DEF W!Without
<1>5. W!StoreInv(new)
  BY <1>3, <1>4 DEF W!StoreInv
<1>6. IdsKept /\ overlap \subseteq overlap' /\ W!IsSeq(ids)'
  BY <1>2, <1>3 DEF W!Overlapping, IdsKept, W!IsSeq
<1>7. PICK f : f = file
  OBVIOUS
<1>8. W!StoreInv(new)' /\ W!StoreInv(f)'
  BY <1>2, <1>3, <1>5, <1>6, <1>7, StoreLater
<1>9. W!StoreInv(users)' /\ W!StoreInv(file)'
  BY <1>2, <1>7, <1>8 DEF W!StoreInv
<1>10. ASSUME NEW r \in Logins PROVE W!LoginInv(r)'
  <2>1. W!LoginInv(r)
    BY <1>3
  <2>2. req[r].at = "update" /\ ids[req[r].n] = ids[n] => ids[req[r].n] \in overlap'
    BY <1>2 DEF W!Overlapping, W!InProgress
  <2>3. req[r].at = "update" /\ ids[req[r].n] \notin overlap' =>
          /\ req[r].n \in DOMAIN users' /\ users'[req[r].n] = users[req[r].n]
          /\ \A m \in DOMAIN users' : m \in DOMAIN users
    BY <1>2, <1>4, <1>6, <2>1, <2>2 DEF W!LoginInv, W!IsFirst
  <2>4. DOMAIN users' \subseteq DOMAIN ids'
    BY <1>2, <1>5 DEF W!StoreInv
  <2> QED BY <1>2, <1>6, <2>3, <2>4, LoginLater
<1>11. W!Attested'
  BY <1>2, NoAnswer
<1> QED BY <1>2, <1>3, <1>6, <1>9, <1>10, <1>11, QuietStep

LEMMA VerifyStep ==
  ASSUME W!Bounds, W!IInv, NEW r \in Logins, NEW n \in DOMAIN users, NEW sent \in Counts,
         NEW client, NEW rp, NEW present, NEW signed,
         W!Verify(r, n, sent, client, rp, present, signed)
  PROVE  W!IInv'
<1>1. PICK login, id : login = [at |-> "update", n |-> n, count |-> sent] /\ id = ids[n]
  OBVIOUS
<1>2. /\ req[r].at = "idle" /\ W!IsFirst(users, n) /\ req' = [req EXCEPT ![r] = login]
      /\ overlap' = W!Overlapping(id) /\ answered' = W!NoInput
      /\ UNCHANGED <<users, file, accepted, ids>>
  BY <1>1 DEF W!Verify
<1>3. W!CounterAccepted(users[n].count, sent)
  BY Zenon DEF W!Verify, W!verify_webauthn_authentication
<1>4. /\ W!IsSeq(ids) /\ W!StoreInv(users) /\ W!StoreInv(file) /\ DOMAIN req = Logins
      /\ \A q \in Logins : W!LoginInv(q)
  BY DEF W!IInv
<1>5. IdsKept /\ overlap \subseteq overlap' /\ W!IsSeq(ids)'
  BY <1>2, <1>4 DEF W!Overlapping, IdsKept, W!IsSeq
<1>6. W!StoreInv(users)' /\ W!StoreInv(file)'
  <2>1. PICK u, f : u = users /\ f = file
    OBVIOUS
  <2>2. W!StoreInv(u)' /\ W!StoreInv(f)'
    BY <1>2, <1>4, <1>5, <2>1, StoreLater
  <2> QED BY <1>2, <2>1, <2>2 DEF W!StoreInv
<1>7. /\ DOMAIN req' = Logins /\ req'[r] = login
      /\ \A q \in Logins \ {r} : req'[q] = req[q]
  BY <1>2, <1>4
<1>8. login.at = "update" /\ login.n = n /\ login.count = sent
  BY <1>1
<1>9. n \in DOMAIN ids /\ sent \in Nat
  BY <1>4 DEF W!StoreInv, W!Bounds
<1>10. \A q \in Logins : req[q].at = "update" /\ ids[req[q].n] = id => id \in overlap'
  BY <1>2 DEF W!Overlapping, W!InProgress
<1>11. W!LoginInv(r)'
  <2>1. \A q \in Logins : req'[q].at = "update" /\ ids[req'[q].n] = id /\ id \notin overlap' => q = r
    BY <1>7, <1>10
  <2> QED BY <1>1, <1>2, <1>3, <1>7, <1>8, <1>9, <2>1
          DEF W!LoginInv, W!CounterAccepted, W!IsFirst
<1>12. ASSUME NEW q \in Logins, q # r PROVE W!LoginInv(q)'
  <2>1. W!LoginInv(q) /\ req'[q] = req[q]
    BY <1>4, <1>7, <1>12
  <2>2. ASSUME req[q].at = "update", ids[req[q].n] \notin overlap',
               NEW p \in Logins, req'[p].at = "update", ids[req'[p].n] = ids[req[q].n]
        PROVE  p = q
    <3>1. p # r
      BY <1>1, <1>7, <1>8, <1>10, <2>2
    <3>2. req'[p] = req[p]
      BY <1>7, <3>1
    <3> QED BY <1>5, <2>1, <2>2, <3>2 DEF W!LoginInv
  <2> QED BY <1>2, <1>5, <2>1, <2>2 DEF W!LoginInv, W!CounterAccepted, W!IsFirst
<1>13. W!Attested'
  BY <1>2, NoAnswer
<1> QED BY <1>2, <1>5, <1>6, <1>7, <1>11, <1>12, <1>13, QuietStep

LEMMA RestartStep ==
  ASSUME W!Bounds, W!IInv, W!Restart
  PROVE  W!IInv'
<1>1. /\ users' = file /\ req' = [r \in Logins |-> W!Idle] /\ answered' = W!NoInput
      /\ UNCHANGED <<file, accepted, ids, overlap>>
  BY DEF W!Restart
<1>2. PICK f : f = file
  OBVIOUS
<1>3. IdsKept /\ overlap \subseteq overlap' /\ W!IsSeq(ids)'
  BY <1>1 DEF IdsKept, W!IInv, W!IsSeq
<1>4. W!StoreInv(f)'
  BY <1>1, <1>2, <1>3, StoreLater DEF W!IInv
<1>5. W!StoreInv(users)' /\ W!StoreInv(file)'
  BY <1>1, <1>2, <1>4 DEF W!StoreInv
<1>6. W!Idle.at = "idle"
  BY DEF W!Idle
<1>7. \A r \in Logins : W!LoginInv(r)'
  BY <1>1, <1>6 DEF W!LoginInv
<1>8. W!Attested'
  BY <1>1, NoAnswer
<1>9. DOMAIN req' = Logins
  BY <1>1
<1> QED BY <1>1, <1>3, <1>5, <1>7, <1>8, <1>9, QuietStep

\* A counter that is accepted is not below the one it was checked against.
LEMMA AcceptedIsAbove ==
  ASSUME NEW stored \in Nat, NEW sent \in Nat, W!CounterAccepted(stored, sent)
  PROVE  /\ stored <= sent
         /\ \A n \in Nat : n <= stored => n < sent \/ (n = 0 /\ sent = 0)
  BY DEF W!CounterAccepted

LEMMA UpdateStep ==
  ASSUME W!Bounds, W!IInv, NEW r \in Logins, NEW saved \in BOOLEAN, W!UpdateSignCount(r, saved)
  PROVE  W!IInv'
<1>1. PICK n, id, sent, targets, found :
        /\ n = req[r].n /\ id = ids[n] /\ sent = req[r].count
        /\ targets = W!Found(n) /\ found = (targets # {})
  OBVIOUS
<1>2. PICK new : new = IF found THEN W!Counted(n, sent) ELSE users
  OBVIOUS
<1>3. /\ req[r].at = "update" /\ users' = new
      /\ file' = IF found /\ saved THEN new ELSE file
      /\ accepted' = IF saved \/ ~found THEN Append(accepted, [n |-> n, count |-> sent]) ELSE accepted
      /\ req' = [req EXCEPT ![r] = W!Idle]
      /\ UNCHANGED <<ids, overlap, answered>>
  BY <1>1, <1>2 DEF W!UpdateSignCount, W!Save
<1>4. /\ W!IsSeq(ids) /\ W!StoreInv(users) /\ W!StoreInv(file) /\ DOMAIN req = Logins
      /\ \A q \in Logins : W!LoginInv(q)
      /\ accepted \in Seq([n : DOMAIN ids, count : Nat]) /\ W!CountersRise /\ W!Attested
  BY DEF W!IInv
<1>5. /\ n \in DOMAIN ids /\ sent \in Nat
      /\ id \notin overlap =>
           /\ W!IsFirst(users, n) /\ W!CounterAccepted(users[n].count, sent)
           /\ \A q \in Logins : req[q].at = "update" /\ ids[req[q].n] = id => q = r
  BY <1>1, <1>3, <1>4 DEF W!LoginInv
<1>6. /\ targets \subseteq DOMAIN users
      /\ \A m \in targets : ids[m] = id /\ (W!IsFirst(users, n) => m = n)
      /\ W!IsFirst(users, n) => n \in targets
  <2>1. \A m \in targets : m \in DOMAIN users /\ W!IsFirst(users, m) /\ ids[m] = ids[n]
    BY <1>1 DEF W!Found
  <2>2. W!IsFirst(users, n) => n \in targets
    BY <1>1 DEF W!Found, W!IsFirst
  <2>3. DOMAIN users \subseteq Nat
    BY <1>4, IdsNumbered DEF W!StoreInv
  <2>4. ASSUME W!IsFirst(users, n), NEW m \in targets PROVE m = n
    <3>1. n \in DOMAIN users /\ m \in DOMAIN users /\ n <= m /\ m <= n
      BY <2>1, <2>4 DEF W!IsFirst
    <3>2. n \in Nat /\ m \in Nat
      BY <2>3, <3>1
    <3> QED BY <3>1, <3>2
  <2> QED BY <1>1, <2>1, <2>2, <2>4
<1>7. PICK len \in Nat : len = Len(accepted)
  BY AcceptedTypes
<1>8. /\ DOMAIN accepted = 1..len
      /\ \A i \in 1..len : accepted[i].n \in DOMAIN ids /\ accepted[i].count \in Nat
  BY <1>7, AcceptedTypes
<1>9. PICK entry, D : entry = [n |-> n, count |-> sent] /\ D = DOMAIN ids
  OBVIOUS
<1>10. entry \in [n : D, count : Nat] /\ entry.n = n /\ entry.count = sent
  BY <1>5, <1>9
<1>11. /\ accepted' \in Seq([n : D, count : Nat])
       /\ \/ accepted' = accepted /\ ~saved /\ found
          \/ /\ DOMAIN accepted' = 1..(len + 1) /\ accepted'[len + 1] = entry
             /\ \A i \in 1..len : accepted'[i] = accepted[i]
             /\ saved \/ ~found
  <2>1. CASE saved \/ ~found
    <3>1. accepted' = Append(accepted, entry)
      BY <1>3, <1>9, <2>1
    <3>2. accepted \in Seq([n : D, count : Nat])
      BY <1>4, <1>9
    <3>3. /\ Append(accepted, entry) \in Seq([n : D, count : Nat])
          /\ Len(Append(accepted, entry)) = len + 1
          /\ DOMAIN Append(accepted, entry) = 1..(len + 1)
          /\ Append(accepted, entry)[len + 1] = entry
          /\ \A i \in 1..len : Append(accepted, entry)[i] = accepted[i]
      BY <1>7, <1>10, <3>2, AppendProperties, LenProperties
    <3> QED BY <2>1, <3>1, <3>3
  <2>2. CASE ~(saved \/ ~found)
    BY <1>3, <1>4, <1>9, <2>2
  <2> QED BY <2>1, <2>2
<1>12. ASSUME NEW m \in DOMAIN users
       PROVE  users[m].count \in Nat /\ W!IsPasskey(users[m])
  BY <1>4, <1>12 DEF W!StoreInv, W!IsPasskey
<1>13. ASSUME id \notin overlap
       PROVE  /\ found /\ n \in DOMAIN users
              /\ \A i \in 1..len : accepted[i].n = n =>
                   /\ accepted[i].count <= sent
                   /\ accepted[i].count < sent \/ (accepted[i].count = 0 /\ sent = 0)
  <2>1. n \in DOMAIN users /\ n \in targets /\ W!CounterAccepted(users[n].count, sent)
    BY <1>5, <1>6, <1>13
  <2>2. PICK stored \in Nat : stored = users[n].count
    BY <1>12, <2>1
  <2>3. stored <= sent /\ \A k \in Nat : k <= stored => k < sent \/ (k = 0 /\ sent = 0)
    BY <1>5, <2>1, <2>2, AcceptedIsAbove
  <2>4. \A i \in 1..len : accepted[i].n = n => accepted[i].count <= stored
    BY <1>1, <1>4, <1>8, <1>13, <2>1, <2>2 DEF W!StoreInv
  <2>5. \A k \in Nat : k <= stored => k <= sent
    BY <1>5, <2>3
  <2> QED BY <1>1, <1>8, <2>1, <2>3, <2>4, <2>5
<1>14. /\ DOMAIN new = DOMAIN users
       /\ \A m \in DOMAIN users : ids[m] # id \/ m \notin targets => new[m] = users[m]
       /\ \A m \in targets : new[m].count = sent
       /\ \A m \in DOMAIN users : W!IsPasskey(new[m])
  <2>1. CASE found
    <3>1. new = [m \in DOMAIN users |->
                   IF m \in targets THEN [key |-> users[m].key, count |-> sent] ELSE users[m]]
      BY <1>1, <1>2, <2>1 DEF W!Counted
    <3>2. ASSUME NEW m \in targets
          PROVE  new[m].count = sent /\ W!IsPasskey(new[m])
      <4>1. PICK key : key = users[m].key
        OBVIOUS
      <4>2. W!KeyPasses(key) /\ m \in DOMAIN users
        BY <1>6, <1>12, <4>1 DEF W!IsPasskey
      <4>3. new[m] = [key |-> key, count |-> sent]
        BY <3>1, <4>1, <4>2
      <4>4. new[m].key = key /\ new[m].count = sent
        BY <4>3
      <4> QED BY <1>5, <4>2, <4>3, <4>4 DEF W!IsPasskey
    <3>3. \A m \in DOMAIN users : m \notin targets => new[m] = users[m]
      BY <3>1
    <3>4. DOMAIN new = DOMAIN users
      BY <3>1
    <3>5. \A m \in DOMAIN users : ids[m] # id => m \notin targets
      BY <1>6
    <3> QED BY <1>12, <3>2, <3>3, <3>4, <3>5
  <2>2. CASE ~found
    BY <1>1, <1>2, <1>12, <2>2
  <2> QED BY <1>1, <2>1, <2>2
<1>15. \A p : W!IsPasskey(p)' <=> W!IsPasskey(p)
  BY DEF W!IsPasskey, W!KeyPasses
<1>16. W!StoreInv(new)'
  <2>1. DOMAIN new \subseteq DOMAIN ids'
    BY <1>3, <1>4, <1>14 DEF W!StoreInv
  <2>2. \A m \in DOMAIN new : W!IsPasskey(new[m])
    BY <1>14
  <2>3. ASSUME NEW m \in DOMAIN new, NEW i \in DOMAIN accepted', accepted'[i].n = m,
               ids[m] \notin overlap
        PROVE  accepted'[i].count <= new[m].count
    <3>1. CASE ids[m] = id
      <4>1. m \in DOMAIN users /\ id \notin overlap
        BY <1>14, <2>3, <3>1
      <4>2. W!IsFirst(users, n) /\ n \in targets /\ \A k \in targets : k = n
        BY <1>5, <1>6, <4>1
      <4>3. (i \in 1..len /\ accepted'[i] = accepted[i]) \/ accepted'[i] = entry
        BY <1>8, <1>11, <2>3
      <4>4. sent <= sent
        BY <1>5
      <4>5. CASE m = n
        <5>1. new[m].count = sent
          BY <1>14, <4>2, <4>5
        <5> QED BY <1>10, <1>13, <2>3, <4>1, <4>3, <4>4, <4>5, <5>1
      <4>6. CASE m # n
        <5>1. i \in 1..len /\ accepted'[i] = accepted[i] /\ new[m] = users[m]
          BY <1>10, <1>14, <2>3, <4>1, <4>2, <4>3, <4>6
        <5> QED BY <1>4, <1>8, <2>3, <4>1, <5>1 DEF W!StoreInv
      <4> QED BY <4>5, <4>6
    <3>2. CASE ids[m] # id
      <4>1. i \in 1..len /\ accepted'[i] = accepted[i]
        BY <1>1, <1>8, <1>10, <1>11, <2>3, <3>2
      <4>2. new[m] = users[m] /\ m \in DOMAIN users
        BY <1>14, <2>3, <3>2
      <4> QED BY <1>4, <1>8, <2>3, <4>1, <4>2 DEF W!StoreInv
    <3> QED BY <3>1, <3>2
  <2> QED BY <1>3, <1>15, <2>1, <2>2, <2>3 DEF W!StoreInv
<1>17. W!StoreInv(users)'
  BY <1>3, <1>16 DEF W!StoreInv
<1>18. W!StoreInv(file)'
  <2>1. CASE found /\ saved
    BY <1>3, <1>16, <2>1 DEF W!StoreInv
  <2>2. CASE ~(found /\ saved)
    <3>1. file' = file
      BY <1>3, <2>2
    <3>2. ASSUME NEW m \in DOMAIN file, NEW i \in DOMAIN accepted', accepted'[i].n = m,
                 ids[m] \notin overlap
          PROVE  accepted'[i].count <= file[m].count
      <4>1. accepted' = accepted \/ ~found
        BY <1>11, <2>2
      <4>2. i \in 1..len /\ accepted'[i] = accepted[i]
        BY <1>1, <1>8, <1>10, <1>11, <1>13, <3>2, <4>1
      <4> QED BY <1>4, <1>8, <3>2, <4>2 DEF W!StoreInv
    <3> QED BY <1>3, <1>4, <1>15, <3>1, <3>2 DEF W!StoreInv
  <2> QED BY <2>1, <2>2
<1>19. W!CountersRise'
  <2> SUFFICES ASSUME NEW i \in DOMAIN accepted', NEW j \in DOMAIN accepted', i < j,
                      accepted'[i].n = accepted'[j].n, ids[accepted'[i].n] \notin overlap
               PROVE  \/ accepted'[i].count < accepted'[j].count
                      \/ accepted'[i].count = 0 /\ accepted'[j].count = 0
    BY <1>3 DEF W!CountersRise
  <2>1. CASE accepted' = accepted
    BY <1>4, <2>1 DEF W!CountersRise
  <2>2. CASE /\ DOMAIN accepted' = 1..(len + 1) /\ accepted'[len + 1] = entry
             /\ \A k \in 1..len : accepted'[k] = accepted[k]
    <3>1. i \in 1..len /\ (j \in 1..len \/ j = len + 1)
      BY <2>2
    <3>2. CASE j \in 1..len
      BY <1>4, <1>8, <2>2, <3>1, <3>2 DEF W!CountersRise
    <3>3. CASE j = len + 1
      <4>1. accepted'[j] = entry /\ accepted'[i] = accepted[i]
        BY <2>2, <3>1, <3>3
      <4> QED BY <1>1, <1>10, <1>13, <3>1, <4>1
    <3> QED BY <3>1, <3>2, <3>3
  <2> QED BY <1>11, <2>1, <2>2
<1>20. /\ DOMAIN req' = Logins /\ req'[r].at = "idle"
       /\ \A q \in Logins \ {r} : req'[q] = req[q]
  BY <1>3, <1>4 DEF W!Idle
<1>21. IdsKept /\ W!IsSeq(ids)' /\ overlap \subseteq overlap' /\ DOMAIN users' \subseteq DOMAIN ids'
  BY <1>3, <1>4, <1>14 DEF IdsKept, W!IsSeq, W!StoreInv
<1>22. ASSUME NEW q \in Logins PROVE W!LoginInv(q)'
  <2>1. CASE q = r
    BY <1>20, <2>1 DEF W!LoginInv
  <2>2. CASE q # r
    <3>1. W!LoginInv(q) /\ req'[q] = req[q]
      BY <1>4, <1>20, <2>2
    <3>2. ASSUME req[q].at = "update", ids[req[q].n] \notin overlap'
          PROVE  /\ req[q].n \in DOMAIN users' /\ users'[req[q].n] = users[req[q].n]
                 /\ \A m \in DOMAIN users' : m \in DOMAIN users
      <4>1. ids[req[q].n] \notin overlap
        BY <1>3, <3>2
      <4>2. ids[req[q].n] # id
        BY <1>5, <2>2, <3>2, <4>1
      <4>3. req[q].n \in DOMAIN users
        BY <3>1, <3>2, <4>1 DEF W!LoginInv, W!IsFirst
      <4> QED BY <1>3, <1>14, <4>2, <4>3
    <3>3. \A p \in Logins : req'[p].at = "update" => req'[p] = req[p]
      BY <1>20
    <3> QED BY <1>21, <3>1, <3>2, <3>3, LoginLater
  <2> QED BY <2>1, <2>2
<1>23. W!Attested'
  BY <1>3, <1>4, Zenon DEF W!Attested, W!ClientFields
<1>24. accepted' \in Seq([n : DOMAIN ids', count : Nat])
  BY <1>3, <1>9, <1>11
<1> QED BY <1>17, <1>18, <1>19, <1>20, <1>21, <1>22, <1>23, <1>24 DEF W!IInv

LEMMA PasskeysInit ==
  ASSUME W!Init
  PROVE  W!IInv
<1>1. /\ users = <<>> /\ file = <<>> /\ accepted = <<>> /\ answered = W!NoInput /\ ids = <<>>
      /\ req = [r \in Logins |-> W!Idle]
  BY DEF W!Init
<1>2. DOMAIN <<>> = {} /\ \A S : <<>> \in Seq(S)
  BY EmptySeq
<1>3. W!StoreInv(users) /\ W!StoreInv(file) /\ W!CountersRise /\ W!IsSeq(ids)
  BY <1>1, <1>2 DEF W!StoreInv, W!CountersRise, W!IsSeq
<1>4. W!Idle.at = "idle" /\ W!NoInput.op = "none"
  BY DEF W!Idle, W!NoInput
<1>5. \A r \in Logins : W!LoginInv(r)
  BY <1>1, <1>4 DEF W!LoginInv
<1>6. W!Attested
  BY <1>1, <1>4 DEF W!Attested
<1> QED BY <1>1, <1>2, <1>3, <1>5, <1>6 DEF W!IInv

\* Passkeys, for any logins, authenticators and restarts: no stored counter, in
\* memory or in the file, is below one that opened a session, and the one a login
\* compared with is still there when it stores its own.
THEOREM PasskeysInvariant ==
  ASSUME W!Bounds
  PROVE  W!Spec => []W!IInv
<1>1. W!Init => W!IInv
  BY PasskeysInit
<1>2. W!IInv /\ [W!Next]_(W!vars) => W!IInv'
  <2> SUFFICES ASSUME W!IInv, [W!Next]_(W!vars) PROVE W!IInv'
    OBVIOUS
  <2>1. ASSUME NEW input \in Inputs, NEW saved \in BOOLEAN, W!Register(input, saved) PROVE W!IInv'
    BY <2>1, RegisterStep
  <2>2. ASSUME NEW n \in DOMAIN users, NEW saved \in BOOLEAN, W!Remove(n, saved) PROVE W!IInv'
    BY <2>2, RemoveStep
  <2>3. ASSUME NEW r \in Logins, NEW saved \in BOOLEAN, W!UpdateSignCount(r, saved) PROVE W!IInv'
    BY <2>3, UpdateStep
  <2>4. ASSUME NEW r \in Logins, NEW n \in DOMAIN users, NEW sent \in Counts,
               NEW client \in SUBSET W!ClientFields, NEW rp \in BOOLEAN, NEW present \in BOOLEAN,
               NEW signed \in BOOLEAN, W!Verify(r, n, sent, client, rp, present, signed)
        PROVE  W!IInv'
    BY <2>4, VerifyStep
  <2>5. CASE W!Restart
    BY <2>5, RestartStep
  <2>6. CASE UNCHANGED W!vars
    <3>1. UNCHANGED <<users, file, req, accepted, ids, overlap, answered>>
      BY <2>6 DEF W!vars
    <3>2. W!StoreInv(users)' /\ W!StoreInv(file)' /\ W!CountersRise'
      BY <3>1 DEF W!IInv, W!StoreInv, W!CountersRise, W!IsPasskey, W!KeyPasses
    <3>3. \A r \in Logins : W!LoginInv(r)'
      BY <3>1 DEF W!IInv, W!LoginInv, W!CounterAccepted, W!IsFirst
    <3>4. W!Attested'
      BY <3>1, Zenon DEF W!IInv, W!Attested, W!ClientFields
    <3>5. W!IsSeq(ids)'
      BY <3>1 DEF W!IInv, W!IsSeq
    <3> QED BY <3>1, <3>2, <3>3, <3>4, <3>5 DEF W!IInv
  <2> QED BY <2>1, <2>2, <2>3, <2>4, <2>5, <2>6 DEF W!Next
<1> QED BY <1>1, <1>2, PTL DEF W!Spec

\* The counters with which a registered passkey opened sessions rise, through failed
\* saves, restarts and further registrations of its id, unless logins of that id
\* overlapped each other or a removal (verify_webauthn_authentication, update_webauthn_sign_count).
THEOREM CountersAlwaysRise ==
  ASSUME W!Bounds
  PROVE  W!Spec => []CountersRise
<1>1. W!IInv => CountersRise
  BY DEF W!IInv, CountersRise
<1> QED BY <1>1, PasskeysInvariant, PTL

\* A registration is stored as the authenticator made it, for every length of the id
\* and whatever follows the key; data that is cut short anywhere or carries no
\* credential by its flags is refused, and so is a key of the wrong shape or one that
\* OpenSSL does not take; every key in the account can be used (parse_authenticator_data, verify_webauthn_registration).
THEOREM AsAttested ==
  ASSUME W!Bounds
  PROVE  W!Spec => []StoredAsAttested
<1>1. W!IInv => StoredAsAttested
  <2>1. W!IInv => \A n \in DOMAIN users : W!KeyPasses(users[n].key)
    BY DEF W!IInv, W!StoreInv, W!IsPasskey
  <2>2. W!IInv => W!Attested
    BY DEF W!IInv
  <2> QED BY <2>1, <2>2, Zenon DEF StoredAsAttested, W!StoredAsAttested
<1> QED BY <1>1, PasskeysInvariant, PTL
=============================================================================
