------------------------ MODULE IpBlockTrackerProofs -------------------------
(***************************************************************************)
(* Proofs about IpBlockTracker for any callers, addresses, ranges, prune   *)
(* interval and length of time: the inductive invariant, the bound on      *)
(* lapsed entries, and that the tracker implements BlockList.              *)
(***************************************************************************)
EXTENDS IpBlockTracker, TLAPS

(***************************************************************************)
(* What the fields of a call hold.                                         *)
(***************************************************************************)
LEMMA CallFields ==
  ASSUME NEW call \in List!Call
  PROVE  /\ call.op = "add" => call.key \in Keys /\ call.expires \in Times /\ call.now \in Times
         /\ call.op = "remove" => call.key \in Keys
         /\ call.op = "is_blocked" => call.ip \in Addrs /\ call.now \in Times
         /\ call.op = "list_active" => call.now \in Times
  BY DEF List!Call, List!Idle, List!Keys, List!Times, Keys, Times

LEMMA IdleCall == List!Idle \in List!Call /\ List!Idle.op \notin {"add", "remove", "is_blocked", "list_active"}
  BY DEF List!Call, List!Idle

(***************************************************************************)
(* The parts of the invariant that are not about types.                    *)
(***************************************************************************)
ClockInv ==
  /\ last_prune <= clock
  /\ \A c \in Callers : calls[c].op \in Timed => calls[c].now <= clock

FreshInv == \A e \in exact \cup cidrs : e.expires > last_prune \/ e.at >= last_prune

LEMMA IInvParts == IInv <=> TypeOK /\ OneEntryPerKey /\ ClockInv /\ FreshInv
  BY DEF IInv, ClockInv, FreshInv

LEMMA InitIInv == Init => IInv
  BY IpBlockTrackerAssumption, IdleCall
  DEF Init, IInv, TypeOK, OneEntryPerKey, Timed, Times, List!Idle

LEMMA TickStep == ASSUME IInv, Tick PROVE IInv'
<1>1. TypeOK' /\ OneEntryPerKey'
  BY IpBlockTrackerAssumption DEF Tick, IInv, TypeOK, OneEntryPerKey, Times
<1>2. ClockInv'
  <2>1. ASSUME NEW c \in Callers, calls[c].op \in Timed PROVE calls[c].now <= clock + 1
    <3>1. calls[c].now \in Int /\ clock \in Int /\ calls[c].now <= clock
      BY <2>1, CallFields DEF IInv, TypeOK, Timed, Times
    <3> QED
      BY <3>1
  <2> QED
    BY <2>1, IpBlockTrackerAssumption DEF Tick, IInv, TypeOK, ClockInv, Times
<1>3. FreshInv'
  BY DEF Tick, IInv, FreshInv
<1> QED
  BY <1>1, <1>2, <1>3, IInvParts DEF IInv, ClockInv, FreshInv

LEMMA BeginStep ==
  ASSUME IInv, NEW c \in Callers, NEW call \in List!Call, Begin(c, call),
         call.op \in Timed => call.now <= clock
  PROVE  IInv'
  BY DEF Begin, IInv, TypeOK, OneEntryPerKey

LEMMA EnterStep ==
  ASSUME IInv, NEW c \in Callers,
         EnterAdd(c) \/ EnterRemove(c) \/ EnterIsBlocked(c) \/ EnterListActive(c)
  PROVE  /\ IInv'
         /\ \E call \in List!Call \ {List!Idle} : Begin(c, call)
<1> USE DEF List!Call, List!Idle, List!Keys, List!Times, Keys
<1>0. clock \in Times /\ clock <= clock
  BY IpBlockTrackerAssumption DEF IInv, TypeOK, Times
<1>1. CASE EnterAdd(c)
  <2>1. PICK key \in Keys, expires \in Times :
          Begin(c, [op |-> "add", key |-> key, expires |-> expires, now |-> clock])
    BY <1>1 DEF EnterAdd
  <2> DEFINE call == [op |-> "add", key |-> key, expires |-> expires, now |-> clock]
  <2>2. call \in List!Call \ {List!Idle} /\ call.now <= clock
    BY <1>0 DEF Times
  <2> QED
    BY <2>1, <2>2, BeginStep
<1>2. CASE EnterRemove(c)
  <2>1. PICK key \in Keys : Begin(c, [op |-> "remove", key |-> key])
    BY <1>2 DEF EnterRemove
  <2> DEFINE call == [op |-> "remove", key |-> key]
  <2>2. call \in List!Call \ {List!Idle} /\ call.op \notin Timed
    BY DEF Timed
  <2> QED
    BY <2>1, <2>2, BeginStep
<1>3. CASE EnterIsBlocked(c)
  <2>1. PICK ip \in Addrs : Begin(c, [op |-> "is_blocked", ip |-> ip, now |-> clock])
    BY <1>3 DEF EnterIsBlocked
  <2> DEFINE call == [op |-> "is_blocked", ip |-> ip, now |-> clock]
  <2>2. call \in List!Call \ {List!Idle} /\ call.now <= clock
    BY <1>0 DEF Times
  <2> QED
    BY <2>1, <2>2, BeginStep
<1>4. CASE EnterListActive(c)
  <2> DEFINE call == [op |-> "list_active", now |-> clock]
  <2>2. call \in List!Call \ {List!Idle} /\ call.now <= clock
    BY <1>0 DEF Times
  <2> QED
    BY <1>4, <2>2, BeginStep DEF EnterListActive
<1> QED
  BY <1>1, <1>2, <1>3, <1>4

(***************************************************************************)
(* A call that returns: the other callers are where they were.             *)
(***************************************************************************)
LEMMA ReturnStep ==
  ASSUME IInv, NEW c \in Callers, Return(c), clock' = clock
  PROVE  /\ calls' \in [Callers -> List!Call] /\ calls'[c] = List!Idle
         /\ \A d \in Callers : calls'[d].op \in Timed => calls'[d].now <= clock'
<1>1. calls \in [Callers -> List!Call] /\ calls' = [calls EXCEPT ![c] = List!Idle]
  BY DEF IInv, TypeOK, Return
<1>2. calls' \in [Callers -> List!Call] /\ calls'[c] = List!Idle
  BY <1>1, IdleCall
<1>3. ASSUME NEW d \in Callers, calls'[d].op \in Timed PROVE calls'[d].now <= clock
  <2>1. d # c
    BY <1>2, <1>3, IdleCall DEF Timed
  <2>2. calls'[d] = calls[d]
    BY <1>1, <2>1
  <2> QED
    BY <1>3, <2>2 DEF IInv
<1> QED
  BY <1>2, <1>3

(***************************************************************************)
(* The entries an add keeps, and what it makes of last_prune_.             *)
(***************************************************************************)
LEMMA AddStep == ASSUME IInv, NEW c \in Callers, Add(c) PROVE IInv'
<1> DEFINE now == calls[c].now
           e == [key |-> calls[c].key, expires |-> calls[c].expires, at |-> clock]
<1>1. /\ now \in Times /\ calls[c].key \in Keys /\ e \in Entry /\ now <= clock
      /\ clock \in Int /\ now \in Int /\ last_prune \in Int
  <2>1. calls[c] \in List!Call /\ calls[c].op = "add" /\ clock \in Times /\ last_prune \in Times
    BY DEF IInv, TypeOK, Add
  <2>2. now <= clock
    BY <2>1 DEF IInv, Timed
  <2>3. now \in Times /\ calls[c].key \in Keys /\ calls[c].expires \in Times
    BY <2>1, CallFields
  <2> QED
    BY <2>1, <2>2, <2>3 DEF Entry, Times
<1>2. /\ last_prune' = IF PruneDue(now) THEN now ELSE last_prune
      /\ clock' = clock /\ Return(c)
      /\ \/ e.key \in Addrs /\ exact' = Replacing(Kept(exact, now), e) /\ cidrs' = Kept(cidrs, now)
         \/ e.key \notin Addrs /\ exact' = Kept(exact, now) /\ cidrs' = Replacing(Kept(cidrs, now), e)
  BY DEF Add
<1>3. /\ \A f \in exact' : f = e \/ f \in Kept(exact, now)
      /\ \A f \in cidrs' : f = e \/ f \in Kept(cidrs, now)
      /\ \A f \in exact' : f = e \/ f.key # e.key
      /\ \A f \in cidrs' : f = e \/ f.key # e.key
      /\ e \in exact' => e.key \in Addrs
      /\ e \in cidrs' => e.key \in Cidrs
  <2>1. /\ \A f \in exact : f.key \in Addrs
        /\ \A f \in cidrs : f.key \in Cidrs
        /\ Addrs \cap Cidrs = {} /\ e.key \in Addrs \cup Cidrs
    BY <1>1, IpBlockTrackerAssumption DEF IInv, TypeOK, Keys
  <2> HIDE DEF e, now
  <2> QED
    BY <1>2, <2>1 DEF Replacing, Kept, Prune
<1>4. /\ \A f \in Kept(exact, now) : f \in exact /\ (PruneDue(now) => f.expires > now)
      /\ \A f \in Kept(cidrs, now) : f \in cidrs /\ (PruneDue(now) => f.expires > now)
  BY DEF Kept, Prune
<1> HIDE DEF e, now
<1>5. TypeOK'
  <2>1. exact' \subseteq Entry /\ \A f \in exact' : f.key \in Addrs
    BY <1>1, <1>3, <1>4 DEF IInv, TypeOK
  <2>2. cidrs' \subseteq Entry /\ \A f \in cidrs' : f.key \in Cidrs
    BY <1>1, <1>3, <1>4 DEF IInv, TypeOK
  <2>3. clock' \in Times /\ last_prune' \in Times
    BY <1>1, <1>2 DEF IInv, TypeOK
  <2>4. calls' \in [Callers -> List!Call]
    BY <1>2, ReturnStep
  <2> QED
    BY <2>1, <2>2, <2>3, <2>4 DEF TypeOK
<1>6. OneEntryPerKey'
  BY <1>3, <1>4 DEF IInv, OneEntryPerKey
<1>7. ClockInv'
  BY <1>1, <1>2, ReturnStep DEF IInv, ClockInv
<1>8. FreshInv'
  <2>1. ASSUME NEW f \in exact' \cup cidrs' PROVE f.expires > last_prune' \/ f.at >= last_prune'
    <3>1. CASE f = e
      <4>1. e.at = clock /\ last_prune <= clock
        BY DEF e, IInv
      <4> QED
        BY <1>1, <1>2, <3>1, <4>1
    <3>2. CASE f # e /\ PruneDue(now)
      BY <1>2, <1>3, <1>4, <3>2
    <3>3. CASE f # e /\ ~PruneDue(now)
      BY <1>2, <1>3, <1>4, <3>3 DEF IInv
    <3> QED
      BY <3>1, <3>2, <3>3
  <2> QED
    BY <2>1 DEF FreshInv
<1> QED
  BY <1>5, <1>6, <1>7, <1>8 DEF IInv, ClockInv, FreshInv

LEMMA RemoveStep == ASSUME IInv, NEW c \in Callers, Remove(c) PROVE IInv'
<1>1. /\ exact' \subseteq exact /\ cidrs' \subseteq cidrs
      /\ clock' = clock /\ last_prune' = last_prune /\ Return(c)
  BY DEF Remove
<1>2. TypeOK' /\ OneEntryPerKey'
  BY <1>1, ReturnStep DEF IInv, TypeOK, OneEntryPerKey
<1>3. ClockInv' /\ FreshInv'
  BY <1>1, ReturnStep DEF IInv, ClockInv, FreshInv
<1> QED
  BY <1>2, <1>3 DEF IInv, ClockInv, FreshInv

LEMMA IsBlockedStep == ASSUME IInv, NEW c \in Callers, IsBlocked(c) PROVE IInv'
<1>1. /\ UNCHANGED <<clock, exact, cidrs, last_prune>> /\ Return(c)
  BY DEF IsBlocked
<1>2. TypeOK' /\ OneEntryPerKey'
  BY <1>1, ReturnStep DEF IInv, TypeOK, OneEntryPerKey
<1>3. ClockInv' /\ FreshInv'
  BY <1>1, ReturnStep DEF IInv, ClockInv, FreshInv
<1> QED
  BY <1>2, <1>3 DEF IInv, ClockInv, FreshInv

LEMMA ListActiveStep == ASSUME IInv, NEW c \in Callers, ListActive(c) PROVE IInv'
<1> DEFINE now == calls[c].now
<1>1. /\ now \in Times /\ now <= clock
  <2>1. calls[c] \in List!Call /\ calls[c].op = "list_active"
    BY DEF IInv, TypeOK, ListActive
  <2> QED
    BY <2>1, CallFields DEF IInv, Timed
<1>2. /\ exact' = Prune(exact, now) /\ cidrs' = Prune(cidrs, now)
      /\ last_prune' = now /\ clock' = clock /\ Return(c)
  BY DEF ListActive
<1> HIDE DEF now
<1>3. TypeOK' /\ OneEntryPerKey'
  BY <1>1, <1>2, ReturnStep DEF IInv, TypeOK, OneEntryPerKey, Prune
<1>4. ClockInv' /\ FreshInv'
  BY <1>1, <1>2, ReturnStep DEF IInv, ClockInv, FreshInv, Prune
<1> QED
  BY <1>3, <1>4 DEF IInv, ClockInv, FreshInv

LEMMA NextIInv == IInv /\ [Next]_vars => IInv'
<1> SUFFICES ASSUME IInv, [Next]_vars PROVE IInv'
  OBVIOUS
<1>1. CASE UNCHANGED vars
  BY <1>1 DEF vars, IInv, TypeOK, OneEntryPerKey
<1> QED
  BY <1>1, TickStep, EnterStep, AddStep, RemoveStep, IsBlockedStep, ListActiveStep DEF Next

\* Under any interleaving of the calls, lists hold one entry per key, no call is
\* ahead of the clock, and an entry that has lapsed was stored since last_prune_.
THEOREM Invariance == Spec => []IInv
<1> QED
  BY InitIInv, NextIInv, PTL DEF Spec

\* The type invariant: exact_ holds addresses only and cidrs_ ranges only.
THEOREM TypeCorrect == Spec => []TypeOK
<1>1. IInv => TypeOK
  BY DEF IInv
<1> QED
  BY <1>1, Invariance, PTL

\* No key has two entries.
THEOREM UniqueEntries == Spec => []OneEntryPerKey
<1>1. IInv => OneEntryPerKey
  BY DEF IInv
<1> QED
  BY <1>1, Invariance, PTL

(***************************************************************************)
(* The bound on lapsed entries: an add either prunes, or the last prune is *)
(* less than an interval ago and FreshInv speaks of the rest.              *)
(***************************************************************************)
LEMMA AddLeavesNoPile ==
  ASSUME IInv, NEW c \in Callers, Add(c), NEW f \in exact' \cup cidrs',
         NEW since, since = calls[c].now - PruneInterval
  PROVE  f.expires > since \/ f.at > since \/ f.at = clock
<1> DEFINE now == calls[c].now
           e == [key |-> calls[c].key, expires |-> calls[c].expires, at |-> clock]
<1>1. now \in Int /\ last_prune \in Int /\ PruneInterval \in Nat
  <2>1. calls[c] \in List!Call /\ calls[c].op = "add" /\ last_prune \in Times
    BY DEF IInv, TypeOK, Add
  <2> QED
    BY <2>1, CallFields, IpBlockTrackerAssumption DEF Times
<1>2. f = e \/ f \in Kept(exact, now) \/ f \in Kept(cidrs, now)
  BY DEF Add, Replacing
<1>3. CASE f = e
  BY <1>3
<1>4. CASE f # e
  <2>1. f \in exact \cup cidrs /\ (PruneDue(now) => f.expires > now)
    BY <1>2, <1>4 DEF Kept, Prune
  <2>2. f.expires \in Int /\ f.at \in Int
    BY <2>1 DEF IInv, TypeOK, Entry, Times
  <2>3. f.expires > last_prune \/ f.at >= last_prune
    BY <2>1 DEF IInv
  <2> QED
    BY <1>1, <2>1, <2>2, <2>3 DEF PruneDue
<1> QED
  BY <1>3, <1>4

\* "ban waves can't pile up": no add leaves an entry behind that had lapsed
\* and been stored a prune interval before it.
THEOREM NoPile == Spec => NoPileUp
<1> DEFINE A(c) == calls[c].op = "add" /\ calls'[c] = List!Idle =>
                     \A e \in exact' \cup cidrs' :
                       LET since == calls[c].now - PruneInterval
                       IN  e.expires > since \/ e.at > since \/ e.at = clock
<1>1. ASSUME IInv, Next, NEW c \in Callers PROVE A(c)
  <2> SUFFICES ASSUME calls[c].op = "add", calls'[c] = List!Idle PROVE Add(c)
    BY <1>1, AddLeavesNoPile
  <2>1. calls[c] # List!Idle /\ calls[c] # calls'[c] /\ calls \in [Callers -> List!Call]
    BY <1>1, IdleCall DEF IInv, TypeOK
  <2>2. ASSUME NEW d \in Callers, Return(d) PROVE d = c
    BY <2>1, <2>2 DEF Return
  <2>3. ASSUME NEW d \in Callers, NEW call, Begin(d, call) PROVE FALSE
    BY <2>1, <2>3 DEF Begin
  <2>4. ASSUME NEW d \in Callers,
               EnterAdd(d) \/ EnterRemove(d) \/ EnterIsBlocked(d) \/ EnterListActive(d)
        PROVE  FALSE
    BY <2>3, <2>4 DEF EnterAdd, EnterRemove, EnterIsBlocked, EnterListActive
  <2>5. ASSUME NEW d \in Callers, Remove(d) \/ IsBlocked(d) \/ ListActive(d) PROVE FALSE
    BY <2>2, <2>5 DEF Remove, IsBlocked, ListActive
  <2>6. ASSUME NEW d \in Callers, Add(d) PROVE Add(c)
    BY <2>2, <2>6 DEF Add
  <2>7. ~Tick
    BY <2>1 DEF Tick
  <2> QED
    BY <1>1, <2>4, <2>5, <2>6, <2>7 DEF Next
<1>2. IInv /\ [Next]_vars => [\A c \in Callers : A(c)]_vars
  BY <1>1
<1> QED
  BY <1>2, Invariance, PTL DEF Spec, NoPileUp

-----------------------------------------------------------------------------
(***************************************************************************)
(* The refinement.  blocks is what the entries stand for, ghost field      *)
(* dropped; pruning removes lapsed blocks, replacing replaces by key.      *)
(***************************************************************************)
Blocks == Plain(exact \cup cidrs)

LEMMA PlainPrune ==
  ASSUME NEW S, NEW t PROVE Plain(Prune(S, t)) = {b \in Plain(S) : b.expires > t}
  BY DEF Plain, Prune

LEMMA PlainReplacing ==
  ASSUME NEW S, NEW key, NEW expires, NEW at,
         NEW e, e = [key |-> key, expires |-> expires, at |-> at]
  PROVE  Plain(Replacing(S, e))
           = {b \in Plain(S) : b.key # key} \cup {[key |-> key, expires |-> expires]}
  BY DEF Plain, Replacing

LEMMA PlainRemove ==
  ASSUME NEW S, NEW key
  PROVE  Plain({e \in S : e.key # key}) = {b \in Plain(S) : b.key # key}
  BY DEF Plain

LEMMA RefineTick == ASSUME IInv, Tick PROVE List!Tick
  BY DEF Tick, List!Tick, Plain

LEMMA RefineEnter ==
  ASSUME IInv, NEW c \in Callers,
         EnterAdd(c) \/ EnterRemove(c) \/ EnterIsBlocked(c) \/ EnterListActive(c)
  PROVE  List!Enter(c)
<1>1. PICK call \in List!Call \ {List!Idle} : Begin(c, call)
  BY EnterStep
<1> QED
  BY <1>1 DEF Begin, List!Enter, Plain

LEMMA RefineAdd == ASSUME IInv, NEW c \in Callers, Add(c) PROVE List!Add(c)
<1> DEFINE now == calls[c].now
           key == calls[c].key
           expires == calls[c].expires
           e == [key |-> key, expires |-> expires, at |-> clock]
           all == exact \cup cidrs
           gone == IF PruneDue(now) THEN {b \in Plain(all) : ~(b.expires > now)} ELSE {}
<1>1. now \in Int /\ clock \in Int /\ now <= clock /\ key \in Keys
  <2>1. calls[c] \in List!Call /\ calls[c].op = "add" /\ clock \in Times
    BY DEF IInv, TypeOK, Add
  <2> QED
    BY <2>1, CallFields DEF IInv, Timed, Times
<1>2. \A b \in Plain(all) : b.expires \in Int
  BY DEF Plain, IInv, TypeOK, Entry, Times
<1>3. gone \in List!Forgetting
  <2>1. ASSUME NEW b \in gone PROVE b \in Plain(all) /\ b.expires <= clock
    <3>1. b \in Plain(all) /\ ~(b.expires > now)
      BY <2>1
    <3> HIDE DEF all, now
    <3>2. b.expires \in Int
      BY <1>2, <3>1
    <3> QED
      BY <1>1, <3>1, <3>2
  <2> HIDE DEF gone
  <2> QED
    BY <2>1 DEF List!Forgetting
<1>4. exact' \cup cidrs' = Replacing(Kept(all, now), e)
  <2>1. /\ \A f \in exact : f.key \in Addrs
        /\ \A f \in cidrs : f.key \in Cidrs
        /\ Addrs \cap Cidrs = {} /\ key \in Addrs \cup Cidrs
    BY <1>1, IpBlockTrackerAssumption DEF IInv, TypeOK, Keys
  <2>2. e.key = key
    OBVIOUS
  <2>3. \/ key \in Addrs /\ exact' = Replacing(Kept(exact, now), e) /\ cidrs' = Kept(cidrs, now)
        \/ key \notin Addrs /\ exact' = Kept(exact, now) /\ cidrs' = Replacing(Kept(cidrs, now), e)
    BY DEF Add
  <2> HIDE DEF e, now, key
  <2> QED
    BY <2>1, <2>2, <2>3 DEF Replacing, Kept, Prune
<1>5. Plain(exact' \cup cidrs') =
        {b \in Plain(Kept(all, now)) : b.key # key} \cup {[key |-> key, expires |-> expires]}
  <2>1. Plain(Replacing(Kept(all, now), e)) =
          {b \in Plain(Kept(all, now)) : b.key # key} \cup {[key |-> key, expires |-> expires]}
    <3> HIDE DEF all, now, key, expires
    <3> QED
      BY PlainReplacing
  <2> QED
    BY <1>4, <2>1
<1>6. Plain(Kept(all, now)) = Plain(all) \ gone
  BY PlainPrune DEF Kept
<1>7. List!Return(c) /\ calls[c].op = "add" /\ reply' = NoReply /\ clock' = clock
  BY DEF Add, Return, List!Return
<1>8. Plain(exact \cup cidrs)' = Plain(exact' \cup cidrs')
  BY DEF Plain
<1> HIDE DEF gone
<1> QED
  BY <1>3, <1>5, <1>6, <1>7, <1>8 DEF List!Add

LEMMA RefineRemove == ASSUME IInv, NEW c \in Callers, Remove(c) PROVE List!Remove(c)
<1> DEFINE key == calls[c].key
           all == exact \cup cidrs
<1>0. \/ exact' = {e \in exact : e.key # key} /\ cidrs' = cidrs
      \/ cidrs' = {e \in cidrs : e.key # key} /\ exact' = exact
  BY DEF Remove
<1>1. exact' \cup cidrs' = {e \in all : e.key # key}
  <2>1. /\ \A f \in exact : f.key \in Addrs
        /\ \A f \in cidrs : f.key \in Cidrs
        /\ Addrs \cap Cidrs = {} /\ key \in Addrs \cup Cidrs
    <3>1. calls[c] \in List!Call /\ calls[c].op = "remove"
      BY DEF IInv, TypeOK, Remove
    <3> QED
      BY <3>1, CallFields, IpBlockTrackerAssumption DEF IInv, TypeOK, Keys
  <2>2. \/ key \in Addrs /\ exact' = {e \in exact : e.key # key} /\ cidrs' = cidrs
        \/ key \notin Addrs /\ cidrs' = {e \in cidrs : e.key # key} /\ exact' = exact
    BY DEF Remove
  <2> HIDE DEF key
  <2> QED
    BY <2>1, <2>2
<1>2. Plain(exact' \cup cidrs') = {b \in Plain(all) : b.key # key}
  <2>1. Plain({e \in all : e.key # key}) = {b \in Plain(all) : b.key # key}
    <3> HIDE DEF all, key
    <3> QED
      BY PlainRemove
  <2> QED
    BY <1>1, <2>1
<1>3. PICK answer \in BOOLEAN : /\ reply' = [answer |-> answer]
                                /\ answer <=> exact' # exact \/ cidrs' # cidrs
  BY DEF Remove
<1>4. exact' \subseteq exact /\ cidrs' \subseteq cidrs
  BY DEF Remove
<1>5. ASSUME answer PROVE \E b \in Plain(all) : b.key = key
  <2>1. PICK f \in all : f.key = key
    <3> HIDE DEF key
    <3> QED
      BY <1>0, <1>3, <1>5
  <2>2. [key |-> f.key, expires |-> f.expires] \in Plain(all)
    BY DEF Plain
  <2> QED
    BY <2>1, <2>2
<1>6. ASSUME NEW b \in Plain(all), b.key = key PROVE answer
  <2>1. PICK f \in all : f.key = key
    BY <1>6 DEF Plain
  <2>2. f \notin exact' \cup cidrs'
    BY <1>1, <2>1
  <2> QED
    BY <1>3, <2>1, <2>2
<1>7. List!Return(c) /\ calls[c].op = "remove" /\ clock' = clock
  BY DEF Remove, Return, List!Return
<1>8. Plain(exact \cup cidrs)' = Plain(exact' \cup cidrs')
  BY DEF Plain
<1>9. answer => Plain(exact' \cup cidrs') # Plain(all)
  BY <1>2, <1>5
<1>10. (\E b \in List!InForce(clock) : b.key = key) => answer
  BY <1>6 DEF List!InForce
<1> HIDE DEF key, all
<1> QED
  BY <1>2, <1>3, <1>7, <1>8, <1>9, <1>10 DEF List!Remove, key, all

LEMMA RefineIsBlocked == ASSUME IInv, NEW c \in Callers, IsBlocked(c) PROVE List!IsBlocked(c)
<1> DEFINE now == calls[c].now
           ip == calls[c].ip
           all == exact \cup cidrs
<1>1. now \in Int /\ clock \in Int /\ now <= clock /\ ip \in Addrs
  <2>1. calls[c] \in List!Call /\ calls[c].op = "is_blocked" /\ clock \in Times
    BY DEF IInv, TypeOK, IsBlocked
  <2> QED
    BY <2>1, CallFields DEF IInv, Timed, Times
<1>2. PICK answer \in BOOLEAN :
        /\ reply' = [answer |-> answer]
        /\ answer <=> \/ \E e \in exact : e.key = ip /\ e.expires > now
                      \/ \E e \in cidrs : e.expires > now /\ ip \in Covers[e.key]
  BY DEF IsBlocked
<1>3. /\ \A e \in exact : e.key \in Addrs
      /\ \A e \in cidrs : e.key \in Cidrs
      /\ Addrs \cap Cidrs = {}
      /\ \A e \in all : e.expires \in Int
  BY IpBlockTrackerAssumption DEF IInv, TypeOK, Entry, Times
<1> HIDE DEF now, ip
<1>4. answer <=> \E e \in all : e.expires > now /\ (e.key = ip \/ (e.key \in Cidrs /\ ip \in Covers[e.key]))
  BY <1>1, <1>2, <1>3
<1>5. ASSUME NEW t
      PROVE  List!Blocking(t, ip) <=>
               \E e \in all : e.expires > t /\ (e.key = ip \/ (e.key \in Cidrs /\ ip \in Covers[e.key]))
  <2> HIDE DEF all
  <2>1. \A e \in all : [key |-> e.key, expires |-> e.expires] \in Plain(all)
    BY DEF Plain
  <2>2. \A b \in Plain(all) : \E e \in all : b = [key |-> e.key, expires |-> e.expires]
    BY DEF Plain
  <2>3. List!Blocking(t, ip) <=>
          \E b \in Plain(all) : b.expires > t /\ (b.key = ip \/ (b.key \in Cidrs /\ ip \in Covers[b.key]))
    BY DEF List!Blocking, List!InForce, List!Matches, all
  <2>4. ASSUME NEW b \in Plain(all), b.expires > t,
               b.key = ip \/ (b.key \in Cidrs /\ ip \in Covers[b.key])
        PROVE  \E e \in all : e.expires > t /\ (e.key = ip \/ (e.key \in Cidrs /\ ip \in Covers[e.key]))
    <3>1. PICK e \in all : b = [key |-> e.key, expires |-> e.expires]
      BY <2>2
    <3>2. b.key = e.key /\ b.expires = e.expires
      BY <3>1
    <3> QED
      BY <2>4, <3>2
  <2>5. ASSUME NEW e \in all, e.expires > t,
               e.key = ip \/ (e.key \in Cidrs /\ ip \in Covers[e.key])
        PROVE  \E b \in Plain(all) : b.expires > t /\ (b.key = ip \/ (b.key \in Cidrs /\ ip \in Covers[b.key]))
    <3> DEFINE b == [key |-> e.key, expires |-> e.expires]
    <3>1. b \in Plain(all) /\ b.key = e.key /\ b.expires = e.expires
      BY <2>1
    <3> QED
      BY <2>5, <3>1
  <2> QED
    BY <2>3, <2>4, <2>5
<1>6. List!Blocking(clock, ip) => answer
  BY <1>1, <1>3, <1>4, <1>5
<1>7. answer => List!Blocking(now, ip)
  BY <1>4, <1>5
<1>8. List!Return(c) /\ calls[c].op = "is_blocked" /\ clock' = clock
      /\ Plain(exact \cup cidrs)' = Plain(exact \cup cidrs)
  BY DEF IsBlocked, Return, List!Return, Plain
<1> QED
  BY <1>2, <1>6, <1>7, <1>8 DEF List!IsBlocked, now, ip

LEMMA RefineListActive == ASSUME IInv, NEW c \in Callers, ListActive(c) PROVE List!ListActive(c)
<1> DEFINE now == calls[c].now
           all == exact \cup cidrs
           gone == {b \in Plain(all) : ~(b.expires > now)}
           listed == {b \in Plain(all) : b.expires > now}
<1>1. now \in Int /\ clock \in Int /\ now <= clock
  <2>1. calls[c] \in List!Call /\ calls[c].op = "list_active" /\ clock \in Times
    BY DEF IInv, TypeOK, ListActive
  <2> QED
    BY <2>1, CallFields DEF IInv, Timed, Times
<1>2. \A b \in Plain(all) : b.expires \in Int
  BY DEF Plain, IInv, TypeOK, Entry, Times
<1>3. exact' \cup cidrs' = Prune(all, now) /\ reply' = [listed |-> Plain(exact' \cup cidrs')]
  BY DEF ListActive, Prune
<1>4. Plain(exact' \cup cidrs') = listed
  BY <1>3, PlainPrune
<1>5. listed = Plain(all) \ gone
  OBVIOUS
<1>6. gone \in List!Forgetting
  <2>1. ASSUME NEW b \in gone PROVE b \in Plain(all) /\ b.expires <= clock
    <3>1. b \in Plain(all) /\ ~(b.expires > now)
      BY <2>1
    <3> HIDE DEF all, now
    <3>2. b.expires \in Int
      BY <1>2, <3>1
    <3> QED
      BY <1>1, <3>1, <3>2
  <2> HIDE DEF gone
  <2> QED
    BY <2>1 DEF List!Forgetting
<1>7. listed \in SUBSET List!InForce(now) /\ List!InForce(clock) \subseteq listed
  BY <1>1, <1>2 DEF List!InForce
<1>8. List!Return(c) /\ calls[c].op = "list_active" /\ clock' = clock
      /\ Plain(exact \cup cidrs)' = Plain(exact' \cup cidrs')
  BY DEF ListActive, Return, List!Return, Plain
<1> HIDE DEF gone, listed, now
<1> QED
  BY <1>3, <1>4, <1>5, <1>6, <1>7, <1>8 DEF List!ListActive, now

\* The tracker implements BlockList: its throttled pruning, and clock reads
\* that other calls overtake, never show in an answer.
THEOREM Refinement == Spec => ImplementsBlockList
<1>1. Init => List!Init
  BY DEF Init, List!Init, Plain
<1>2. ASSUME IInv, Next PROVE List!Next
  BY <1>2, RefineTick, RefineEnter, RefineAdd, RefineRemove, RefineIsBlocked, RefineListActive
  DEF Next, List!Next
<1>3. UNCHANGED vars => UNCHANGED List!vars
  BY DEF vars, List!vars, Plain
<1>4. IInv /\ [Next]_vars => [List!Next]_(List!vars)
  BY <1>2, <1>3
<1> QED
  BY <1>1, <1>4, Invariance, PTL DEF Spec, ImplementsBlockList, List!Spec
=============================================================================
