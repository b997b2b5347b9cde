-------------------------- MODULE HttpSessionProofs --------------------------
(***************************************************************************)
(* The safety properties of HttpSession, for any number of connections,    *)
(* clients, requests and configurations, and any scores and thresholds.    *)
(***************************************************************************)
EXTENDS HttpSession, TLAPS

-----------------------------------------------------------------------------
(***************************************************************************)
(* What the checks decide                                                  *)
(***************************************************************************)

\* A short list of checks has a first one that is failed, if any is: the
\* pipeline of evaluate_header_checks yields one of its own checks or none.
LEMMA FirstOfSeven ==
  ASSUME NEW hits
  PROVE  First(HeaderOrder, hits) \in {"none"} \cup Checks
<1> DEFINE First7 == \E i \in 1..7 : /\ HeaderOrder[i] \in hits
                                     /\ \A j \in 1..7 : j < i => HeaderOrder[j] \notin hits
<1>1. DOMAIN HeaderOrder = 1..7
  BY DEF HeaderOrder
<1>2. \A i \in 1..7 : HeaderOrder[i] \in Checks
  BY DEF Checks
<1>3. CASE \A i \in DOMAIN HeaderOrder : HeaderOrder[i] \notin hits
  BY <1>3 DEF First
<1>4. CASE ~ \A i \in DOMAIN HeaderOrder : HeaderOrder[i] \notin hits
  <2> HIDE DEF HeaderOrder
  <2>1. \E i \in 1..7 : HeaderOrder[i] \in hits
    BY <1>1, <1>4
  <2>2. First7
    <3>1. CASE HeaderOrder[1] \in hits BY <3>1
    <3>2. CASE HeaderOrder[1] \notin hits /\ HeaderOrder[2] \in hits BY <3>2
    <3>3. CASE HeaderOrder[1] \notin hits /\ HeaderOrder[2] \notin hits /\ HeaderOrder[3] \in hits
      BY <3>3
    <3>4. CASE (\A j \in 1..3 : HeaderOrder[j] \notin hits) /\ HeaderOrder[4] \in hits BY <3>4
    <3>5. CASE (\A j \in 1..4 : HeaderOrder[j] \notin hits) /\ HeaderOrder[5] \in hits BY <3>5
    <3>6. CASE (\A j \in 1..5 : HeaderOrder[j] \notin hits) /\ HeaderOrder[6] \in hits BY <3>6
    <3>7. CASE (\A j \in 1..6 : HeaderOrder[j] \notin hits) BY <3>7, <2>1
    <3> QED BY <3>1, <3>2, <3>3, <3>4, <3>5, <3>6, <3>7
  <2>3. PICK i \in DOMAIN HeaderOrder :
          First(HeaderOrder, hits) = HeaderOrder[i]
    BY <1>1, <1>4, <2>2 DEF First
  <2> QED BY <1>1, <1>2, <2>3
<1> QED BY <1>3, <1>4

\* The same for check_body_size and the body blacklist.
LEMMA FirstOfTwo ==
  ASSUME NEW hits
  PROVE  First(BodyOrder, hits) \in {"none"} \cup Checks
<1>1. DOMAIN BodyOrder = 1..2
  BY DEF BodyOrder
<1>2. \A i \in 1..2 : BodyOrder[i] \in Checks
  BY DEF Checks
<1>3. CASE \A i \in DOMAIN BodyOrder : BodyOrder[i] \notin hits
  BY <1>3 DEF First
<1>4. CASE ~ \A i \in DOMAIN BodyOrder : BodyOrder[i] \notin hits
  <2> HIDE DEF BodyOrder
  <2>1. \E i \in 1..2 : /\ BodyOrder[i] \in hits
                        /\ \A j \in 1..2 : j < i => BodyOrder[j] \notin hits
    <3>1. CASE BodyOrder[1] \in hits BY <3>1
    <3>2. CASE BodyOrder[1] \notin hits BY <1>1, <1>4, <3>2
    <3> QED BY <3>1, <3>2
  <2>2. PICK i \in DOMAIN BodyOrder :
          First(BodyOrder, hits) = BodyOrder[i]
    BY <1>1, <1>4, <2>1 DEF First
  <2> QED BY <1>1, <1>2, <2>2
<1> QED BY <1>3, <1>4

\* And for check_request_rate, a list of one.
LEMMA FirstOfOne ==
  ASSUME NEW hits
  PROVE  First(<<"speed_check">>, hits) \in {"none"} \cup Checks
<1>1. "speed_check" \in Checks
  BY DEF Checks
<1>2. DOMAIN <<"speed_check">> = 1..1 /\ <<"speed_check">>[1] = "speed_check"
  OBVIOUS
<1>3. CASE "speed_check" \notin hits
  BY <1>2, <1>3 DEF First
<1>4. CASE "speed_check" \in hits
  <2>1. First(<<"speed_check">>, hits)
          = <<"speed_check">>[CHOOSE i \in 1..1 : /\ <<"speed_check">>[i] \in hits
                                                  /\ \A j \in 1..1 : j < i => <<"speed_check">>[j] \notin hits]
    BY <1>2, <1>4 DEF First
  <2>2. (CHOOSE i \in 1..1 : /\ <<"speed_check">>[i] \in hits
                             /\ \A j \in 1..1 : j < i => <<"speed_check">>[j] \notin hits) = 1
    BY <1>2, <1>4
  <2> QED BY <1>1, <1>2, <2>1, <2>2
<1> QED BY <1>3, <1>4

\* Every stage of the pipeline yields a check or none.
LEMMA FailedIsCheck ==
  ASSUME NEW c
  PROVE  /\ Failed(c, <<"speed_check">>) \in {"none"} \cup Checks
         /\ Failed(c, HeaderOrder) \in {"none"} \cup Checks
         /\ Failed(c, BodyOrder) \in {"none"} \cup Checks
BY FirstOfOne, FirstOfSeven, FirstOfTwo, Zenon DEF Failed

-----------------------------------------------------------------------------
(***************************************************************************)
(* Types of what the handlers keep                                         *)
(***************************************************************************)
SessionTypeOK ==
  /\ config \in Config /\ changes \in 0..MaxChanges
  /\ banned \subseteq Ips
  /\ pc \in [Conns -> {"closed", "get", "read", "write"} \cup Handling]
  /\ snap \in [Conns -> Config]
  /\ req \in [Conns -> Request]
  /\ verdict \in [Conns -> Gates \cup Checks]
  /\ \A c \in Conns : pc[c] = "award" => verdict[c] \in Checks
  /\ seen \in [Conns -> Nat] /\ logged \in [Conns -> Nat]
  /\ total \in 0..MaxRequests
  /\ bar \in [Ips -> Int]
  /\ served \in [Conns -> [Causes -> Nat]]

LEMMA ValuesHaveTypes == NoRequest \in Request /\ NoConfig \in Config
<1>1. 0 \in IntMin..IntMax /\ [check \in Checks |-> 0] \in [Checks -> IntMin..IntMax]
  BY HttpSessionAssumption
<1> QED BY <1>1 DEF NoRequest, Request, NoConfig, Config

LEMMA InitSessionType == Init => SessionTypeOK
  BY ValuesHaveTypes, HttpSessionAssumption DEF Init, SessionTypeOK, Gates

\* A decision keeps the types if its verdict is a gate, or a check behind which
\* award_score may come.
LEMMA DecideTypes ==
  ASSUME NEW c \in Conns, NEW v, NEW place \in Handling, NEW otherwise \in Handling,
         SessionTypeOK, Decide(c, v, place, otherwise),
         v \in Gates \cup Checks,
         place = "award" => v \in {"none"} \cup Checks,
         otherwise # "award"
  PROVE  /\ (pc \in [Conns -> {"closed", "get", "read", "write"} \cup Handling])'
         /\ (verdict \in [Conns -> Gates \cup Checks])'
         /\ (\A d \in Conns : pc[d] = "award" => verdict[d] \in Checks)'
<1>1. /\ verdict' = [verdict EXCEPT ![c] = v]
      /\ pc' = [pc EXCEPT ![c] = IF v # "none" THEN place ELSE otherwise]
  BY DEF Decide, Goto
<1>2. /\ pc \in [Conns -> {"closed", "get", "read", "write"} \cup Handling]
      /\ verdict \in [Conns -> Gates \cup Checks]
      /\ \A d \in Conns : pc[d] = "award" => verdict[d] \in Checks
  BY DEF SessionTypeOK
<1> QED BY <1>1, <1>2

LEMMA ObserveTypes ==
  ASSUME SessionTypeOK, Observe
  PROVE  served' \in [Conns -> [Causes -> Nat]]
BY DEF SessionTypeOK, Observe

LEMMA NextSessionType == ASSUME SessionTypeOK, [Next]_vars PROVE SessionTypeOK'
<1> USE DEF SessionTypeOK
<1>1. ASSUME NEW c \in Conns, Runs(c) PROVE SessionTypeOK'
  <2>0. served' \in [Conns -> [Causes -> Nat]]
    BY <1>1, ObserveTypes DEF Runs
  <2>1. CASE GetConfig(c)
    BY <2>0, <2>1 DEF GetConfig, Goto, shared, tracker
  <2>2. CASE BanGate(c)
    BY <2>0, <2>2, DecideTypes DEF BanGate, shared, tracker, Handling, Gates
  <2>3. CASE RateCheck(c)
    BY <2>0, <2>3, DecideTypes, FailedIsCheck DEF RateCheck, shared, tracker, Handling, Gates
  <2>4. CASE HeaderChecks(c)
    BY <2>0, <2>4, DecideTypes, FailedIsCheck DEF HeaderChecks, shared, tracker, Handling, Gates
  <2>5. CASE AwardScored(c)
    <3>1. bar' \in [Ips -> Int]
      BY <2>5, HttpSessionAssumption DEF AwardScored, Config
    <3> QED BY <2>0, <2>5, <3>1 DEF AwardScored, Goto, shared, Handling
  <2>6. CASE AwardNothing(c)
    BY <2>0, <2>6 DEF AwardNothing, Goto, shared, Handling
  <2>7. CASE BanIp(c)
    BY <2>0, <2>7, HttpSessionAssumption DEF BanIp, Goto, Handling
  <2>8. CASE ResetScore(c)
    BY <2>0, <2>8 DEF ResetScore, Goto, shared, Handling
  <2>9. CASE Record(c)
    BY <2>0, <2>9 DEF Record, Goto, shared
  <2> QED BY <1>1, <2>1, <2>2, <2>3, <2>4, <2>5, <2>6, <2>7, <2>8, <2>9 DEF Runs
<1>2. ASSUME NEW c \in Conns, NEW place \in {"closed", "get"}, Leave(c, place), Observe
      PROVE  SessionTypeOK'
  BY <1>2, ObserveTypes, ValuesHaveTypes DEF Leave, Goto, shared, Gates
<1>3. ASSUME NEW c \in Conns, Expires(c) PROVE SessionTypeOK'
  <2>1. CASE UpstreamFails(c)
    BY <1>3, <2>1, DecideTypes, ObserveTypes DEF Expires, UpstreamFails, shared, Handling, Gates
  <2> QED
    BY <1>2, <1>3, <2>1 DEF Expires, HeaderFails, BodyFails, WriteFails
<1>4. ASSUME NEW c \in Conns, Completes(c) PROVE SessionTypeOK'
  <2>0. served' \in [Conns -> [Causes -> Nat]] /\ Observe
    BY <1>4, ObserveTypes DEF Completes
  <2>1. CASE Accept(c)
    BY <2>0, <2>1 DEF Accept, Goto, shared
  <2>2. ASSUME NEW r \in Requests, ReadHeader(c, r) PROVE SessionTypeOK'
    <3>1. Entrance(snap[c], r) \in Gates
      BY DEF Entrance, Gates
    <3>2. /\ (pc \in [Conns -> {"closed", "get", "read", "write"} \cup Handling])'
          /\ (verdict \in [Conns -> Gates \cup Checks])'
          /\ (\A d \in Conns : pc[d] = "award" => verdict[d] \in Checks)'
      BY <2>2, <3>1, DecideTypes DEF ReadHeader, Handling
    <3>3. total' \in 0..MaxRequests
      BY <2>2, HttpSessionAssumption DEF ReadHeader
    <3>4. r \in Request
      BY HttpSessionAssumption
    <3>5. seen' \in [Conns -> Nat] /\ req' \in [Conns -> Request]
      BY <2>2, <3>4 DEF ReadHeader
    <3>6. UNCHANGED <<config, changes, banned, snap, logged, bar>>
      BY <2>2 DEF ReadHeader, shared
    <3> QED BY <2>0, <3>2, <3>3, <3>5, <3>6
  <2>3. CASE ReadBody(c)
    BY <2>0, <2>3, DecideTypes, FailedIsCheck DEF ReadBody, shared, Handling, Gates
  <2>4. CASE UpstreamAnswers(c)
    BY <2>0, <2>4, DecideTypes DEF UpstreamAnswers, shared, Handling, Gates
  <2>5. CASE Write(c)
    BY <1>2, <2>0, <2>5 DEF Write
  <2> QED BY <1>4, <2>1, <2>2, <2>3, <2>4, <2>5 DEF Completes
<1>5. CASE Environment
  <2>0. served' \in [Conns -> [Causes -> Nat]]
    BY <1>5, ObserveTypes DEF Environment
  <2>1. CASE SetConfig
    BY <2>0, <2>1, HttpSessionAssumption DEF SetConfig
  <2>2. ASSUME NEW ip \in Ips, Block(ip) \/ Lapse(ip) PROVE SessionTypeOK'
    BY <2>0, <2>2 DEF Block, Lapse
  <2> QED BY <1>5, <2>1, <2>2 DEF Environment
<1>6. CASE UNCHANGED vars
  BY <1>6 DEF vars
<1> QED BY <1>1, <1>3, <1>4, <1>5, <1>6 DEF Next

LEMMA SessionTypeInvariance == Spec => []SessionTypeOK
  BY InitSessionType, NextSessionType, PTL DEF Spec

-----------------------------------------------------------------------------
(***************************************************************************)
(* The handlers use the score tracker as its specification allows          *)
(***************************************************************************)

\* Only award_score changes the tracker, with points its operations accept.
LEMMA TrackerStep ==
  ASSUME SessionTypeOK, [Next]_vars
  PROVE  [Scores!Next]_(Scores!vars)
<1> USE DEF Scores!vars
<1>1. ASSUME NEW c \in Conns, Runs(c) PROVE [Scores!Next]_(Scores!vars)
  <2>0. IpOf[c] \in Ips
    BY HttpSessionAssumption
  <2>1. CASE AwardScored(c)
    <3>1. verdict[c] \in Checks
      BY <2>1 DEF AwardScored, SessionTypeOK
    <3>2. Score(c) \in IntMin..IntMax
      BY <3>1 DEF SessionTypeOK, Score, Config
    <3>3. Score(c) \in Scores!Points
      BY <2>1, <3>2, HttpSessionAssumption DEF AwardScored, Scored, Scores!Points
    <3>4. Scores!AddPoints(IpOf[c], Score(c))
      BY <2>1 DEF AwardScored
    <3> QED BY <2>0, <3>3, <3>4, Zenon DEF Scores!Next
  <2>2. CASE ResetScore(c)
    BY <2>0, <2>2 DEF ResetScore, Scores!Next
  <2>3. CASE ~(AwardScored(c) \/ ResetScore(c))
    BY <1>1, <2>3 DEF Runs, GetConfig, BanGate, RateCheck, HeaderChecks, AwardNothing, BanIp,
      Record, tracker
  <2> QED BY <2>1, <2>2, <2>3
<1>2. ASSUME NEW c \in Conns, Expires(c) \/ Completes(c) PROVE UNCHANGED Scores!vars
  BY <1>2 DEF Expires, HeaderFails, BodyFails, UpstreamFails, WriteFails, Leave,
    Completes, Accept, ReadHeader, ReadBody, UpstreamAnswers, Write, tracker
<1>3. CASE Environment
  BY <1>3 DEF Environment, SetConfig, Block, Lapse, tracker
<1>4. CASE UNCHANGED vars
  BY <1>4 DEF vars
<1> QED BY <1>1, <1>2, <1>3, <1>4 DEF Next

\* What award_score does to the tracker, however many handlers call it, are
\* steps of ScoreTracker's specification: everything proved of it holds here.
THEOREM TrackerContract == Spec => ScoreContract
<1>1. Init => Scores!Init
  BY DEF Init
<1> QED
  BY <1>1, TrackerStep, SessionTypeInvariance, PTL DEF Spec, ScoreContract, Scores!Spec

Tracker == INSTANCE ScoreTrackerProofs

LEMMA TrackerAssumption == Tracker!ScoreTrackerAssumption
  BY HttpSessionAssumption DEF Tracker!ScoreTrackerAssumption

\* Scores and Tracker are the same instance, with and without the proofs.
LEMMA SameTracker ==
  /\ ScoreContract => Tracker!Spec
  /\ Tracker!TypeOK => Scores!TypeOK
  /\ Tracker!BoundedMemory => Scores!BoundedMemory
<1>1. Scores!Init => Tracker!Init
  BY DEF Scores!Init, Tracker!Init, Scores!Fresh, Tracker!Fresh
<1>2. [Scores!Next]_(Scores!vars) => [Tracker!Next]_(Tracker!vars)
  BY Zenon DEF Scores!Next, Tracker!Next, Scores!vars, Tracker!vars, Scores!Reset, Tracker!Reset,
    Scores!Fresh, Tracker!Fresh, Scores!AddPoints, Tracker!AddPoints, Scores!Points, Tracker!Points,
    Scores!AddMore, Tracker!AddMore, Scores!Insert, Tracker!Insert, Scores!Total, Tracker!Total,
    Scores!Clamp, Tracker!Clamp, Scores!Current, Tracker!Current,
    Scores!Evicted, Tracker!Evicted, Scores!Excess, Tracker!Excess
<1>3. ScoreContract => Tracker!Spec
  BY <1>1, <1>2, PTL DEF ScoreContract, Scores!Spec, Tracker!Spec
<1>4. Tracker!TypeOK => Scores!TypeOK
  BY DEF Scores!TypeOK, Tracker!TypeOK, Scores!Entry, Tracker!Entry
<1>5. Tracker!BoundedMemory => Scores!BoundedMemory
  BY Zenon DEF Scores!BoundedMemory, Tracker!BoundedMemory, Scores!Cardinality, Tracker!Cardinality,
    Scores!IsFiniteSet, Tracker!IsFiniteSet
<1> QED BY <1>3, <1>4, <1>5

\* The type invariant: the handlers, what they share and the tracker.
THEOREM TypeCorrect == Spec => []TypeOK
<1>1. SessionTypeOK /\ Scores!TypeOK => TypeOK
  BY DEF SessionTypeOK, TypeOK
<1>2. Tracker!Spec => []Tracker!TypeOK
  BY Tracker!TypeCorrect, TrackerAssumption
<1> QED
  BY <1>1, <1>2, SameTracker, SessionTypeInvariance, TrackerContract, PTL

\* A public listener's memory for scores is bounded, whatever its clients do.
THEOREM TrackerIsBounded == Spec => []Scores!BoundedMemory
<1>1. Tracker!Spec => []Tracker!BoundedMemory
  BY Tracker!MemoryBound, TrackerAssumption
<1> QED
  BY <1>1, SameTracker, TrackerContract, PTL

-----------------------------------------------------------------------------
(***************************************************************************)
(* The log                                                                 *)
(***************************************************************************)

\* A request is read before it is recorded, and one at a time.
LogInv ==
  \A c \in Conns :
    /\ pc[c] \in {"write", "get", "read"} => seen[c] = logged[c]
    /\ pc[c] \in Handling => seen[c] = logged[c] + 1
    /\ pc[c] = "closed" => seen[c] \in {logged[c], logged[c] + 1}

LEMMA LogStep == ASSUME SessionTypeOK, LogInv, [Next]_vars PROVE LogInv'
<1> USE DEF SessionTypeOK, LogInv
<1>1. ASSUME NEW c \in Conns, Runs(c) PROVE LogInv'
  <2>1. CASE Record(c)
    BY <2>1 DEF Record, Goto, Handling
  <2>2. CASE GetConfig(c)
    BY <2>2 DEF GetConfig, Goto, Handling
  <2>3. CASE ~(Record(c) \/ GetConfig(c))
    <3>1. pc[c] \in Handling /\ pc'[c] \in Handling /\ UNCHANGED <<seen, logged>>
      BY <1>1, <2>3 DEF Runs, BanGate, RateCheck, HeaderChecks, AwardScored, AwardNothing, BanIp,
        ResetScore, Decide, Goto, Handling
    <3>2. \A d \in Conns : d # c => pc'[d] = pc[d]
      BY <1>1, <2>3 DEF Runs, BanGate, RateCheck, HeaderChecks, AwardScored, AwardNothing, BanIp,
        ResetScore, Decide, Goto
    <3> QED BY <3>1, <3>2 DEF Handling
  <2> QED BY <2>1, <2>2, <2>3
<1>2. ASSUME NEW c \in Conns, Expires(c) PROVE LogInv'
  BY <1>2 DEF Expires, HeaderFails, BodyFails, UpstreamFails, WriteFails, Leave, Decide, Goto, Handling
<1>3. ASSUME NEW c \in Conns, Completes(c) PROVE LogInv'
  <2>1. CASE Accept(c)
    BY <2>1 DEF Accept, Goto, Handling
  <2>2. ASSUME NEW r \in Requests, ReadHeader(c, r) PROVE LogInv'
    BY <2>2 DEF ReadHeader, Decide, Goto, Handling
  <2>3. CASE ReadBody(c) \/ UpstreamAnswers(c)
    BY <2>3 DEF ReadBody, UpstreamAnswers, Decide, Goto, Handling
  <2>4. CASE Write(c)
    BY <2>4 DEF Write, Leave, Goto, Handling
  <2> QED BY <1>3, <2>1, <2>2, <2>3, <2>4 DEF Completes
<1>4. CASE Environment
  BY <1>4 DEF Environment, SetConfig, Block, Lapse
<1>5. CASE UNCHANGED vars
  BY <1>5 DEF vars
<1> QED BY <1>1, <1>2, <1>3, <1>4, <1>5 DEF Next

\* record_events runs once for each request that gets a response, before it
\* is written; at most the request in progress is not in the log.
THEOREM Recorded == Spec => []ResponsesAreRecorded
<1>1. Init => LogInv
  BY DEF Init, LogInv, Handling
<1>2. SessionTypeOK /\ LogInv => ResponsesAreRecorded
  <2> SUFFICES ASSUME SessionTypeOK, LogInv, NEW c \in Conns
               PROVE  /\ pc[c] \in {"write", "get", "read"} => logged[c] = seen[c]
                      /\ logged[c] <= seen[c] /\ seen[c] <= logged[c] + 1
    BY DEF ResponsesAreRecorded
  <2>1. pc[c] \in {"closed", "get", "read", "write"} \cup Handling /\ seen[c] \in Nat /\ logged[c] \in Nat
    BY DEF SessionTypeOK
  <2>2. seen[c] = logged[c] \/ seen[c] = logged[c] + 1
    BY <2>1 DEF LogInv
  <2> QED BY <2>1, <2>2 DEF LogInv
<1> QED
  BY <1>1, <1>2, LogStep, SessionTypeInvariance, PTL DEF Spec

-----------------------------------------------------------------------------
(***************************************************************************)
(* Scores and bans                                                         *)
(***************************************************************************)
Banning(c) == pc[c] \in {"ban", "reset"}

\* A step that leaves the scores alone, and no handler in the middle of a ban
\* stops banning.
LEMMA ThresholdKept ==
  ASSUME ThresholdMeansBan, UNCHANGED <<tracked, entry, bar>>,
         \A d \in Conns : Banning(d) => Banning(d)'
  PROVE  ThresholdMeansBan'
BY DEF ThresholdMeansBan, Scores!Current, Banning

LEMMA ThresholdStep ==
  ASSUME SessionTypeOK, Scores!TypeOK, ThresholdMeansBan, [Next]_vars
  PROVE  ThresholdMeansBan'
<1>0. /\ pc \in [Conns -> {"closed", "get", "read", "write"} \cup Handling]
      /\ entry \in [Ips -> Scores!Entry]
      /\ tracked \subseteq Ips /\ bar \in [Ips -> Int] /\ snap \in [Conns -> Config]
      /\ IpOf \in [Conns -> Ips]
  BY HttpSessionAssumption DEF SessionTypeOK, Scores!TypeOK
<1>1. ASSUME NEW c \in Conns, AwardScored(c) PROVE ThresholdMeansBan'
  <2> DEFINE p == IpOf[c]
             n == Scores!Total(p, Score(c))
             t == snap[c].threshold
  <2>0. p \in Ips
    BY <1>0
  <2>1. /\ pc[c] = "award"
        /\ pc' = [pc EXCEPT ![c] = IF n >= t THEN "ban" ELSE "record"]
        /\ bar' = [bar EXCEPT ![p] = t]
    BY <1>1 DEF AwardScored, Goto, Crosses
  <2>2. /\ entry'[p].score = n
        /\ \A j \in Ips \ {p} : j \in tracked' => j \in tracked /\ entry'[j] = entry[j]
    <3>1. CASE Scores!AddMore(p, Score(c))
      BY <1>0, <3>1 DEF Scores!AddMore, Scores!Entry
    <3>2. CASE Scores!Insert(p, Score(c))
      BY <1>0, <3>2 DEF Scores!Insert
    <3> QED BY <1>1, <3>1, <3>2 DEF AwardScored, Scores!AddPoints
  <2>3. bar'[p] = t /\ \A j \in Ips \ {p} : bar'[j] = bar[j]
    BY <1>0, <2>0, <2>1
  <2>4. tracked' \subseteq Ips
    BY <1>0, <1>1, <2>0 DEF AwardScored, Scores!AddPoints, Scores!AddMore, Scores!Insert
  <2> HIDE DEF n, t
  <2> SUFFICES ASSUME NEW ip \in tracked', entry'[ip].score >= bar'[ip]
               PROVE  \E d \in Conns : IpOf[d] = ip /\ pc'[d] \in {"ban", "reset"}
    BY DEF ThresholdMeansBan, Scores!Current
  <2>5. CASE ip = p
    BY <1>0, <2>1, <2>2, <2>3, <2>5
  <2>6. CASE ip # p
    <3>1. ip \in tracked /\ entry[ip].score >= bar[ip]
      BY <2>2, <2>3, <2>4, <2>6
    <3>2. PICK d \in Conns : IpOf[d] = ip /\ pc[d] \in {"ban", "reset"}
      BY <3>1 DEF ThresholdMeansBan, Scores!Current
    <3> QED BY <1>0, <2>1, <3>2
  <2> QED BY <2>5, <2>6
<1>2. ASSUME NEW c \in Conns, ResetScore(c) PROVE ThresholdMeansBan'
  <2>1. /\ pc' = [pc EXCEPT ![c] = "record"]
        /\ entry' = [entry EXCEPT ![IpOf[c]] = Scores!Fresh]
        /\ tracked' = tracked \ {IpOf[c]} /\ bar' = bar
    BY <1>2 DEF ResetScore, Goto, Scores!Reset
  <2> SUFFICES ASSUME NEW ip \in tracked', entry'[ip].score >= bar'[ip]
               PROVE  \E d \in Conns : IpOf[d] = ip /\ pc'[d] \in {"ban", "reset"}
    BY DEF ThresholdMeansBan, Scores!Current
  <2>2. ip \in tracked /\ ip # IpOf[c] /\ entry[ip].score >= bar[ip]
    BY <1>0, <2>1
  <2>3. PICK d \in Conns : IpOf[d] = ip /\ pc[d] \in {"ban", "reset"}
    BY <2>2 DEF ThresholdMeansBan, Scores!Current
  <2> QED BY <1>0, <2>1, <2>2, <2>3
<1>3. ASSUME NEW c \in Conns, Runs(c), ~AwardScored(c), ~ResetScore(c) PROVE ThresholdMeansBan'
  <2>1. UNCHANGED <<tracked, entry, bar>> /\ \A d \in Conns : Banning(d) => Banning(d)'
    BY <1>0, <1>3 DEF Runs, GetConfig, BanGate, RateCheck, HeaderChecks, AwardNothing, BanIp, Record,
      Decide, Goto, tracker, Banning
  <2> QED BY <2>1, ThresholdKept
<1>4. ASSUME NEW c \in Conns, Expires(c) \/ Completes(c) PROVE ThresholdMeansBan'
  <2>1. UNCHANGED <<tracked, entry, bar>> /\ \A d \in Conns : Banning(d) => Banning(d)'
    BY <1>0, <1>4 DEF Expires, HeaderFails, BodyFails, UpstreamFails, WriteFails, Leave,
      Completes, Accept, ReadHeader, ReadBody, UpstreamAnswers, Write, Decide, Goto, tracker, Banning
  <2> QED BY <2>1, ThresholdKept
<1>5. CASE Environment
  BY <1>5, ThresholdKept DEF Environment, SetConfig, Block, Lapse, tracker, Banning
<1>6. CASE UNCHANGED vars
  BY <1>6, ThresholdKept DEF vars, Banning
<1> QED BY <1>1, <1>2, <1>3, <1>4, <1>5, <1>6 DEF Next

\* No offender slips past the threshold between the three locks of award_score.
THEOREM ThresholdBans == Spec => []ThresholdMeansBan
<1>1. Init => ThresholdMeansBan
  BY DEF Init, ThresholdMeansBan, Scores!Init
<1>2. TypeOK => SessionTypeOK /\ Scores!TypeOK
  BY DEF TypeOK, SessionTypeOK
<1> QED
  BY <1>1, <1>2, TypeCorrect, ThresholdStep, PTL DEF Spec

-----------------------------------------------------------------------------
(***************************************************************************)
(* How long a connection outlives a block or the kill switch               *)
(***************************************************************************)

\* Where a connection can be that had a request sent upstream while the kill
\* switch was on: the request is still on its way, or the handler has looked
\* at the configuration since.
AfterSwitch(c) ==
  \/ pc[c] \in {"forward", "record", "write", "get"}
  \/ pc[c] = "read" /\ snap[c].off

\* The same for a blocked client.  A request for a whitelisted path still goes
\* through, as the code means it to.
AfterBan(c) ==
  \/ pc[c] \in {"forward", "record", "write", "get", "award", "ban", "reset"}
  \/ pc[c] \in {"read", "gate"} /\ IpOf[c] \notin snap[c].whitelist
  \/ pc[c] \in {"rate", "header", "body"} /\ req[c].route_wl

SwitchInv ==
  \A c \in Conns :
    served[c]["off"] # 0 => served[c]["off"] = 1 /\ ShutOut(c, "off") /\ AfterSwitch(c)

BanInv ==
  \A c \in Conns :
    served[c]["ban"] # 0 => served[c]["ban"] = 1 /\ ShutOut(c, "ban") /\ AfterBan(c)

\* Observe, for one connection and cause: a count that is not reset belongs to
\* a client shut out, and grows only with a request that goes upstream.
LEMMA Counts ==
  ASSUME NEW c \in Conns, NEW why \in Causes, Observe, served'[c][why] # 0
  PROVE  /\ ShutOut(c, why)' /\ pc'[c] # "closed"
         /\ served'[c][why] = IF Forwards(c, why) THEN served[c][why] + 1 ELSE served[c][why]
BY DEF Observe

\* A handler other than the one that moves stays where it is.
LEMMA OthersStay ==
  ASSUME SessionTypeOK, NEW c \in Conns, NEW d \in Conns, c # d,
         Runs(c) \/ Expires(c) \/ Completes(c)
  PROVE  pc'[d] = pc[d] /\ snap'[d] = snap[d] /\ req'[d] = req[d]
<1>1. CASE Runs(c)
  BY <1>1 DEF SessionTypeOK, Runs, GetConfig, BanGate, RateCheck, HeaderChecks, AwardScored, AwardNothing,
    BanIp, ResetScore, Record, Decide, Goto
<1>2. CASE Expires(c)
  BY <1>2 DEF SessionTypeOK, Expires, HeaderFails, BodyFails, UpstreamFails, WriteFails, Leave, Decide, Goto
<1>3. CASE Completes(c)
  BY <1>3 DEF SessionTypeOK, Completes, Accept, ReadHeader, ReadBody, UpstreamAnswers, Write, Leave,
    Decide, Goto
<1> QED BY <1>1, <1>2, <1>3

\* The moves of a handler as its program counter sees them.
LEMMA Moves ==
  ASSUME SessionTypeOK, NEW c \in Conns, Runs(c) \/ Expires(c) \/ Completes(c)
  PROVE  \/ pc'[c] = "closed"
         \/ pc[c] = "closed" /\ pc'[c] = "get"
         \/ pc[c] = "get" /\ pc'[c] = "read" /\ snap'[c] = config /\ UNCHANGED config
         \/ pc[c] = "read" /\ pc'[c] \in {"gate", "record"} /\ snap'[c] = snap[c]
              /\ (snap[c].off => pc'[c] = "record")
         \/ /\ pc[c] = "gate" /\ pc'[c] \in {"rate", "record"} /\ UNCHANGED <<req, snap, banned>>
            /\ IpOf[c] \in banned /\ ~Whitelisted(c) => pc'[c] = "record"
         \/ pc[c] = "rate" /\ pc'[c] \in {"header", "award"} /\ UNCHANGED req
         \/ pc[c] = "header" /\ pc'[c] \in {"body", "award", "record"} /\ UNCHANGED req
         \/ pc[c] = "body" /\ pc'[c] \in {"forward", "award"}
         \/ pc[c] = "forward" /\ pc'[c] = "record"
         \/ pc[c] \in {"award", "ban", "reset"} /\ pc'[c] \in {"record", "ban", "reset"}
         \/ pc[c] = "record" /\ pc'[c] = "write"
         \/ pc[c] = "write" /\ pc'[c] = "get"
<1> USE DEF SessionTypeOK
<1>1. CASE Runs(c)
  <2>1. CASE GetConfig(c)
    BY <2>1 DEF GetConfig, Goto, shared
  <2>2. CASE BanGate(c)
    BY <2>2 DEF BanGate, Decide, Goto, shared
  <2>3. CASE RateCheck(c) \/ HeaderChecks(c)
    BY <2>3 DEF RateCheck, HeaderChecks, Decide, Goto
  <2>4. CASE AwardScored(c) \/ AwardNothing(c) \/ BanIp(c) \/ ResetScore(c) \/ Record(c)
    BY <2>4 DEF AwardScored, AwardNothing, BanIp, ResetScore, Record, Goto
  <2> QED BY <1>1, <2>1, <2>2, <2>3, <2>4 DEF Runs
<1>2. CASE Expires(c)
  BY <1>2 DEF Expires, HeaderFails, BodyFails, UpstreamFails, WriteFails, Leave, Decide, Goto
<1>3. CASE Completes(c)
  <2>1. ASSUME NEW r \in Requests, ReadHeader(c, r)
        PROVE  /\ pc[c] = "read" /\ pc'[c] \in {"gate", "record"} /\ snap'[c] = snap[c]
               /\ (snap[c].off => pc'[c] = "record")
    BY <2>1 DEF ReadHeader, Entrance, Decide, Goto
  <2>2. CASE Accept(c) \/ ReadBody(c) \/ UpstreamAnswers(c) \/ Write(c)
    BY <2>2 DEF Accept, ReadBody, UpstreamAnswers, Write, Leave, Decide, Goto
  <2> QED BY <1>3, <2>1, <2>2 DEF Completes
<1> QED BY <1>1, <1>2, <1>3

\* A step of the rest of the program moves no handler.
LEMMA EnvironmentStays ==
  ASSUME Environment
  PROVE  UNCHANGED <<pc, snap, req>>
BY DEF Environment, SetConfig, Block, Lapse

LEMMA SwitchStep ==
  ASSUME SessionTypeOK, SwitchInv, Next
  PROVE  SwitchInv'
<1> SUFFICES ASSUME NEW d \in Conns, (served[d]["off"] # 0)'
             PROVE  (served[d]["off"] = 1 /\ ShutOut(d, "off") /\ AfterSwitch(d))'
  BY DEF SwitchInv
<1>1. Observe
  BY DEF Next, Environment, Runs, Expires, Completes
<1>2. /\ ShutOut(d, "off")' /\ pc'[d] # "closed"
      /\ served'[d]["off"] = IF Forwards(d, "off") THEN served[d]["off"] + 1 ELSE served[d]["off"]
  BY <1>1, Counts DEF Causes
<1>3. CASE pc'[d] = pc[d] /\ snap'[d] = snap[d]
  BY <1>2, <1>3 DEF Forwards, SwitchInv, AfterSwitch
<1>4. CASE Runs(d) \/ Expires(d) \/ Completes(d)
  <2>1. CASE Forwards(d, "off")
    <3>1. served[d]["off"] = 0
      BY <2>1 DEF Forwards, SwitchInv, AfterSwitch
    <3> QED BY <1>2, <2>1, <3>1 DEF Forwards, AfterSwitch
  <2>2. CASE ~Forwards(d, "off")
    <3>1. served[d]["off"] = 1 /\ AfterSwitch(d)
      BY <1>2, <2>2 DEF SwitchInv
    <3>2. AfterSwitch(d)'
      <4>1. CASE pc[d] = "get" /\ pc'[d] = "read" /\ snap'[d] = config /\ UNCHANGED config
        <5>1. config'.off
          BY <1>2, Zenon DEF ShutOut
        <5>2. snap'[d].off
          BY <4>1, <5>1, Zenon
        <5> QED BY <4>1, <5>2, Zenon DEF AfterSwitch
      <4>2. CASE pc[d] = "read" /\ snap[d].off
        <5>1. pc'[d] = "record"
          BY <1>2, <1>4, <4>2, Moves
        <5> QED BY <5>1 DEF AfterSwitch
      <4>3. CASE pc[d] \in {"forward", "record", "write", "get"} /\ pc'[d] # "read"
        <5>1. pc'[d] \in {"record", "write", "get"}
          BY <1>2, <1>4, <4>3, Moves
        <5> QED BY <5>1 DEF AfterSwitch
      <4> QED BY <1>2, <1>4, <3>1, <4>1, <4>2, <4>3, Moves DEF AfterSwitch
    <3> QED BY <1>2, <2>2, <3>1, <3>2
  <2> QED BY <2>1, <2>2
<1>5. CASE Environment
  BY <1>3, <1>5, EnvironmentStays
<1>6. ASSUME NEW c \in Conns, c # d, Runs(c) \/ Expires(c) \/ Completes(c)
      PROVE  pc'[d] = pc[d] /\ snap'[d] = snap[d]
  BY <1>6, OthersStay
<1> QED BY <1>3, <1>4, <1>5, <1>6 DEF Next

LEMMA BanStep ==
  ASSUME SessionTypeOK, BanInv, Next
  PROVE  BanInv'
<1> SUFFICES ASSUME NEW d \in Conns, (served[d]["ban"] # 0)'
             PROVE  (served[d]["ban"] = 1 /\ ShutOut(d, "ban") /\ AfterBan(d))'
  BY DEF BanInv
<1>1. Observe
  BY DEF Next, Environment, Runs, Expires, Completes
<1>2. /\ ShutOut(d, "ban")' /\ pc'[d] # "closed"
      /\ served'[d]["ban"] = IF Forwards(d, "ban") THEN served[d]["ban"] + 1 ELSE served[d]["ban"]
  BY <1>1, Counts DEF Causes
<1>3. CASE pc'[d] = pc[d] /\ snap'[d] = snap[d] /\ req'[d] = req[d]
  BY <1>2, <1>3 DEF Forwards, BanInv, AfterBan
<1>4. CASE Runs(d) \/ Expires(d) \/ Completes(d)
  <2>1. CASE Forwards(d, "ban")
    <3>1. served[d]["ban"] = 0
      BY <2>1 DEF Forwards, BanInv, AfterBan
    <3> QED BY <1>2, <2>1, <3>1 DEF Forwards, AfterBan
  <2>2. CASE ~Forwards(d, "ban")
    <3>1. served[d]["ban"] = 1 /\ AfterBan(d)
      BY <1>2, <2>2 DEF BanInv
    <3>2. AfterBan(d)'
      BY <1>2, <1>4, <3>1, Moves DEF AfterBan, ShutOut, Whitelisted
    <3> QED BY <1>2, <2>2, <3>1, <3>2
  <2> QED BY <2>1, <2>2
<1>5. CASE Environment
  BY <1>3, <1>5, EnvironmentStays
<1>6. ASSUME NEW c \in Conns, c # d, Runs(c) \/ Expires(c) \/ Completes(c)
      PROVE  pc'[d] = pc[d] /\ snap'[d] = snap[d] /\ req'[d] = req[d]
  BY <1>6, OthersStay
<1> QED BY <1>3, <1>4, <1>5, <1>6 DEF Next

\* Once the kill switch is on, an open connection gets at most one request
\* through to the origin.
THEOREM SwitchBites == Spec => []SwitchBitesWithinOneRequest
<1>1. Init => SwitchInv
  BY DEF Init, SwitchInv, Causes
<1>2. SessionTypeOK /\ SwitchInv /\ [Next]_vars => SwitchInv'
  <2>1. SwitchInv /\ UNCHANGED vars => SwitchInv'
    BY DEF SwitchInv, AfterSwitch, ShutOut, vars
  <2> QED BY <2>1, SwitchStep
<1>3. SessionTypeOK /\ SwitchInv => SwitchBitesWithinOneRequest
  <2>1. SessionTypeOK /\ SwitchInv => \A c \in Conns : served[c]["off"] \in {0, 1}
    BY DEF SwitchInv
  <2>2. \A n \in {0, 1} : n <= 1
    OBVIOUS
  <2> QED BY <2>1, <2>2, Zenon DEF SwitchBitesWithinOneRequest
<1> QED
  BY <1>1, <1>2, <1>3, SessionTypeInvariance, PTL DEF Spec

\* Once a client is blocked, each of its open connections gets at most one
\* more request through, unless its path is whitelisted.
THEOREM BanBites == Spec => []BanBitesWithinOneRequest
<1>1. Init => BanInv
  BY DEF Init, BanInv, Causes
<1>2. SessionTypeOK /\ BanInv /\ [Next]_vars => BanInv'
  <2>1. BanInv /\ UNCHANGED vars => BanInv'
    BY DEF BanInv, AfterBan, ShutOut, vars
  <2> QED BY <2>1, BanStep
<1>3. SessionTypeOK /\ BanInv => BanBitesWithinOneRequest
  <2>1. SessionTypeOK /\ BanInv => \A c \in Conns : served[c]["ban"] \in {0, 1}
    BY DEF BanInv
  <2>2. \A n \in {0, 1} : n <= 1
    OBVIOUS
  <2> QED BY <2>1, <2>2, Zenon DEF BanBitesWithinOneRequest
<1> QED
  BY <1>1, <1>2, <1>3, SessionTypeInvariance, PTL DEF Spec

\* Whichever way a client is shut out, each open connection gets at most one
\* more request through.
THEOREM RefusalsBite == Spec => []RefusalsBiteWithinOneRequest
  BY SwitchBites, BanBites, PTL DEF RefusalsBiteWithinOneRequest
=============================================================================
