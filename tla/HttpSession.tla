----------------------------- MODULE HttpSession -----------------------------
(***************************************************************************)
(* listener/http_session.hpp: the request loop of the public listeners,    *)
(* run by one coroutine per connection on a pool of threads.  The handlers *)
(* share the published configuration, the temporary blocks and the score   *)
(* tracker; each access to one of these is a step of its own, and so is    *)
(* the end of each co_await.                                               *)
(*                                                                         *)
(* The scores are an instance of ScoreTracker.  The blocks are the list    *)
(* that BlockList specifies, with the passing of time left to Lapse.       *)
(***************************************************************************)
EXTENDS Integers, Sequences

CONSTANTS
  Conns,        \* connections
  Ips,          \* client IPs
  IpOf,         \* the client of each connection
  Requests,     \* the requests clients send
  Configs,      \* the configurations that admins and reloads publish
  MaxTracked,   \* of the score tracker
  IntMin,
  IntMax,
  MaxRequests,  \* bound: requests read in a behaviour
  MaxChanges    \* bound: configuration changes in a behaviour

\* evaluate_header_checks behind the method check, and evaluate_body_checks, in
\* the order they are made.  check_country_blacklist never blocks.
HeaderOrder == <<"method_not_allowed", "ip_blacklist", "route_blacklist", "fake_route",
                 "isp_blacklist", "user_agent_blacklist", "referrer_blacklist">>
BodyOrder == <<"body_size_limit", "body_blacklist">>

Checks == {"speed_check"} \cup {HeaderOrder[i] : i \in 1..7} \cup {BodyOrder[i] : i \in 1..2}

\* A request: the checks it would fail, whether its site is disabled, its path
\* whitelisted or a robots.txt the proxy answers itself, and its keep-alive.
Request == [hits : SUBSET Checks, disabled : BOOLEAN, route_wl : BOOLEAN,
            robots : BOOLEAN, keep_alive : BOOLEAN]

\* The part of RuntimeConfig a handler looks at: the kill switch, the IP
\* whitelist and BanConfig, with 0 for a check that scores does not list.
\* Nothing checks a threshold or a score that comes from config.yaml.
Config == [off : BOOLEAN, whitelist : SUBSET Ips, ban : BOOLEAN,
           threshold : IntMin..IntMax, scores : [Checks -> IntMin..IntMax]]

ASSUME HttpSessionAssumption ==
  /\ IpOf \in [Conns -> Ips]
  /\ Requests \subseteq Request
  /\ Configs \subseteq Config
  /\ MaxTracked \in Nat \ {0}
  /\ IntMin \in Int /\ IntMax \in Int /\ IntMin < 0 /\ 0 < IntMax
  /\ MaxRequests \in Nat /\ MaxChanges \in Nat

VARIABLES
  config,     \* what ConfigStore::get() returns
  changes,    \* how often it was changed
  banned,     \* the IPs with a temporary block in force
  tracked, entry, order, next_seq,  \* the score tracker
  pc,         \* where each handler is; "closed" before accept and after the end
  snap,       \* the handler's snapshot of the configuration
  req,        \* the request it handles
  verdict,    \* what became of it: a check, a gate, or who answered
  seen,       \* requests read on the connection
  logged,     \* events the handler gave to request_log
  total,      \* requests read in all
  bar,        \* the threshold that the last points added to an IP were judged by
  served      \* requests sent upstream although the IP should be shut out

tracker == <<tracked, entry, order, next_seq>>
shared == <<config, changes, banned>>
vars == <<config, changes, banned, tracked, entry, order, next_seq,
          pc, snap, req, verdict, seen, logged, total, bar, served>>

Scores == INSTANCE ScoreTracker

\* The snapshot of a handler that has taken none.
NoConfig == [off |-> FALSE, whitelist |-> {}, ban |-> FALSE,
             threshold |-> 0, scores |-> [check \in Checks |-> 0]]

Gates == {"none", "emergency off", "site disabled", "banned", "robots", "upstream", "bad gateway"}

NoRequest == [hits |-> {}, disabled |-> FALSE, route_wl |-> FALSE,
              robots |-> FALSE, keep_alive |-> FALSE]

\* A request has been read and its event not yet recorded.
Handling == {"gate", "rate", "header", "body", "forward", "award", "ban", "reset", "record"}

Causes == {"off", "ban"}

TypeOK ==
  /\ config \in Config /\ changes \in 0..MaxChanges
  /\ banned \subseteq Ips
  /\ Scores!TypeOK
  /\ pc \in [Conns -> {"closed", "get", "read", "write"} \cup Handling]
  /\ snap \in [Conns -> Config]
  /\ req \in [Conns -> Request]
  /\ verdict \in [Conns -> Gates \cup Checks]
  /\ \A c \in Conns : pc[c] = "award" => verdict[c] \in Checks
  /\ seen \in [Conns -> Nat] /\ logged \in [Conns -> Nat]
  /\ total \in 0..MaxRequests
  /\ bar \in [Ips -> Int]
  /\ served \in [Conns -> [Causes -> Nat]]

Init ==
  /\ config \in Configs /\ changes = 0
  /\ banned = {}
  /\ Scores!Init
  /\ pc = [c \in Conns |-> "closed"]
  /\ snap = [c \in Conns |-> NoConfig]
  /\ req = [c \in Conns |-> NoRequest]
  /\ verdict = [c \in Conns |-> "none"]
  /\ seen = [c \in Conns |-> 0] /\ logged = [c \in Conns |-> 0]
  /\ total = 0
  /\ bar = [ip \in Ips |-> 0]
  /\ served = [c \in Conns |-> [why \in Causes |-> 0]]

-----------------------------------------------------------------------------
(***************************************************************************)
(* Steps of a handler                                                      *)
(***************************************************************************)
Goto(c, place) == pc' = [pc EXCEPT ![c] = place]

\* A verdict other than "none" ends the pipeline at `place`.
Decide(c, v, place, otherwise) ==
  /\ verdict' = [verdict EXCEPT ![c] = v]
  /\ Goto(c, IF v # "none" THEN place ELSE otherwise)

\* The first check in the order given that the request fails.
First(checks, hits) ==
  IF \A i \in DOMAIN checks : checks[i] \notin hits THEN "none"
  ELSE checks[CHOOSE i \in DOMAIN checks :
                /\ checks[i] \in hits
                /\ \A j \in DOMAIN checks : j < i => checks[j] \notin hits]

Whitelisted(c) == IpOf[c] \in snap[c].whitelist \/ req[c].route_wl

\* A whitelisted request passes every check.
Failed(c, checks) == IF Whitelisted(c) THEN "none" ELSE First(checks, req[c].hits)

Accept(c) ==
  /\ pc[c] = "closed"
  /\ Goto(c, "get")
  /\ seen' = [seen EXCEPT ![c] = 0] /\ logged' = [logged EXCEPT ![c] = 0]
  /\ UNCHANGED <<shared, tracker, snap, req, verdict, total, bar>>

\* The top of the loop: config_store->get(), then the wait for a header.
GetConfig(c) ==
  /\ pc[c] = "get"
  /\ snap' = [snap EXCEPT ![c] = config]
  /\ Goto(c, "read")
  /\ UNCHANGED <<shared, tracker, req, verdict, seen, logged, total, bar>>

\* The kill switch, then the site, both before the temporary blocks.
Entrance(s, r) ==
  IF s.off THEN "emergency off" ELSE IF r.disabled THEN "site disabled" ELSE "none"

ReadHeader(c, r) ==
  /\ pc[c] = "read" /\ total < MaxRequests
  /\ req' = [req EXCEPT ![c] = r]
  /\ seen' = [seen EXCEPT ![c] = @ + 1] /\ total' = total + 1
  /\ Decide(c, Entrance(snap[c], r), "record", "gate")
  /\ UNCHANGED <<shared, tracker, snap, logged, bar>>

\* mutant: only the first request of a connection is looked up
BanGateMutant(c) ==
  /\ pc[c] = "gate"
  /\ Decide(c, IF ~Whitelisted(c) /\ IpOf[c] \in banned /\ seen[c] = 1 THEN "banned" ELSE "none",
            "record", "rate")
  /\ UNCHANGED <<shared, tracker, snap, req, seen, logged, total, bar>>

BanGate(c) ==
  /\ pc[c] = "gate"
  /\ Decide(c, IF ~Whitelisted(c) /\ IpOf[c] \in banned THEN "banned" ELSE "none",
            "record", "rate")
  /\ UNCHANGED <<shared, tracker, snap, req, seen, logged, total, bar>>

\* check_request_rate: the tracker's count is an input here.
RateCheck(c) ==
  /\ pc[c] = "rate"
  /\ Decide(c, Failed(c, <<"speed_check">>), "award", "header")
  /\ UNCHANGED <<shared, tracker, snap, req, seen, logged, total, bar>>

\* check_method_allowlist, evaluate_header_checks, then robots.txt.
HeaderChecks(c) ==
  /\ pc[c] = "header"
  /\ LET failed == Failed(c, HeaderOrder)
     IN  IF failed = "none" /\ req[c].robots
         THEN Decide(c, "robots", "record", "record")
         ELSE Decide(c, failed, "award", "body")
  /\ UNCHANGED <<shared, tracker, snap, req, seen, logged, total, bar>>

\* The body arrives; a request that passes its checks is sent upstream.
ReadBody(c) ==
  /\ pc[c] = "body"
  /\ Decide(c, Failed(c, BodyOrder), "award", "forward")
  /\ UNCHANGED <<shared, tracker, snap, req, seen, logged, total, bar>>

\* forward_to_upstream returns the origin's response ...
UpstreamAnswers(c) ==
  /\ pc[c] = "forward"
  /\ Decide(c, "upstream", "record", "record")
  /\ UNCHANGED <<shared, tracker, snap, req, seen, logged, total, bar>>

\* ... or throws, at the latest when its own deadlines pass.
UpstreamFails(c) ==
  /\ pc[c] = "forward"
  /\ Decide(c, "bad gateway", "record", "record")
  /\ UNCHANGED <<shared, tracker, snap, req, seen, logged, total, bar>>

\* The handler's locals die with the iteration, the snapshot with the handler.
Leave(c, place) ==
  /\ Goto(c, place)
  /\ req' = [req EXCEPT ![c] = NoRequest]
  /\ verdict' = [verdict EXCEPT ![c] = "none"]
  /\ snap' = [snap EXCEPT ![c] = IF place = "closed" THEN NoConfig ELSE @]
  /\ UNCHANGED <<shared, tracker, seen, logged, total, bar>>

\* The deadline passes, or the client goes away: the exception ends the
\* handler where it is.
HeaderFails(c) == pc[c] = "read" /\ Leave(c, "closed")

\* mutant: no deadline on the body
BodyFailsMutant(c) == pc[c] = "body" /\ total > MaxRequests /\ Leave(c, "closed")

BodyFails(c) == pc[c] = "body" /\ Leave(c, "closed")

WriteFails(c) == pc[c] = "write" /\ Leave(c, "closed")

\* BanConfig::scores of the handler's snapshot, for the check that failed.
Score(c) == snap[c].scores[verdict[c]]

\* Whether award_score adds points for it.
Scored(c) == snap[c].ban /\ Score(c) > 0

\* mutant: the total must exceed the threshold
CrossesMutant(c, n) == n > snap[c].threshold

\* The threshold of the snapshot too: admins change it while handlers run.
Crosses(c, n) == n >= snap[c].threshold

\* award_score, first lock: add_points, and the decision on what it returns.
AwardScored(c) ==
  /\ pc[c] = "award" /\ Scored(c)
  /\ Scores!AddPoints(IpOf[c], Score(c))
  /\ Goto(c, IF Crosses(c, Scores!Total(IpOf[c], Score(c))) THEN "ban" ELSE "record")
  /\ bar' = [bar EXCEPT ![IpOf[c]] = snap[c].threshold]
  /\ UNCHANGED <<shared, snap, req, verdict, seen, logged, total>>

AwardNothing(c) ==
  /\ pc[c] = "award" /\ ~Scored(c)
  /\ Goto(c, "record")
  /\ UNCHANGED <<shared, tracker, snap, req, verdict, seen, logged, total, bar>>

\* Second lock: ip_blocks.add.
BanIp(c) ==
  /\ pc[c] = "ban"
  /\ banned' = banned \cup {IpOf[c]}
  /\ Goto(c, "reset")
  /\ UNCHANGED <<config, changes, tracker, snap, req, verdict, seen, logged, total, bar>>

\* Third lock: scores.reset.
ResetScore(c) ==
  /\ pc[c] = "reset"
  /\ Scores!Reset(IpOf[c])
  /\ Goto(c, "record")
  /\ UNCHANGED <<shared, snap, req, verdict, seen, logged, total, bar>>

\* mutant: only requests that were not blocked are recorded
RecordMutant(c) ==
  /\ pc[c] = "record"
  /\ logged' = [logged EXCEPT ![c] = IF verdict[c] = "upstream" THEN @ + 1 ELSE @]
  /\ Goto(c, "write")
  /\ UNCHANGED <<shared, tracker, snap, req, verdict, seen, total, bar>>

\* record_events, before the response is written.
Record(c) ==
  /\ pc[c] = "record"
  /\ logged' = [logged EXCEPT ![c] = @ + 1]
  /\ Goto(c, "write")
  /\ UNCHANGED <<shared, tracker, snap, req, verdict, seen, total, bar>>

\* The response is out.  Only an origin's response keeps the connection.
Write(c) ==
  /\ pc[c] = "write"
  /\ Leave(c, IF verdict[c] = "upstream" /\ req[c].keep_alive THEN "get" ELSE "closed")

-----------------------------------------------------------------------------
(***************************************************************************)
(* The rest of the program                                                 *)
(***************************************************************************)

\* An admin handler's config_store->update, or a reload.
SetConfig ==
  /\ changes < MaxChanges /\ changes' = changes + 1
  /\ config' \in Configs
  /\ UNCHANGED <<banned, tracker, pc, snap, req, verdict, seen, logged, total, bar>>

\* An admin's manual block.
Block(ip) ==
  /\ banned' = banned \cup {ip}
  /\ UNCHANGED <<config, changes, tracker, pc, snap, req, verdict, seen, logged, total, bar>>

\* A block expires, or an admin removes it.
Lapse(ip) ==
  /\ ip \in banned /\ banned' = banned \ {ip}
  /\ UNCHANGED <<config, changes, tracker, pc, snap, req, verdict, seen, logged, total, bar>>

-----------------------------------------------------------------------------
(***************************************************************************)
(* What the properties watch: how many requests of a connection went       *)
(* upstream since the kill switch is on, or since its client is blocked    *)
(* and on no whitelist.                                                    *)
(***************************************************************************)
ShutOut(c, why) ==
  IF why = "off" THEN config.off ELSE IpOf[c] \in banned /\ IpOf[c] \notin config.whitelist

Forwards(c, why) ==
  /\ pc[c] = "body" /\ pc'[c] = "forward"
  /\ why = "ban" => ~req[c].route_wl

Observe ==
  served' = [c \in Conns |-> [why \in Causes |->
    IF ~ShutOut(c, why)' \/ pc'[c] = "closed" THEN 0
    ELSE IF Forwards(c, why) THEN served[c][why] + 1 ELSE served[c][why]]]

\* Steps that wait for nothing but a lock.
Runs(c) ==
  /\ \/ GetConfig(c) \/ BanGate(c) \/ RateCheck(c) \/ HeaderChecks(c)
     \/ AwardScored(c) \/ AwardNothing(c) \/ BanIp(c) \/ ResetScore(c) \/ Record(c)
  /\ Observe

\* A co_await that ends because its deadline passed or its peer failed.
Expires(c) ==
  /\ HeaderFails(c) \/ BodyFails(c) \/ UpstreamFails(c) \/ WriteFails(c)
  /\ Observe

\* A co_await that ends because the peer did its part.
Completes(c) ==
  /\ Accept(c) \/ (\E r \in Requests : ReadHeader(c, r)) \/ ReadBody(c)
     \/ UpstreamAnswers(c) \/ Write(c)
  /\ Observe

Environment ==
  /\ SetConfig \/ \E ip \in Ips : Block(ip) \/ Lapse(ip)
  /\ Observe

Next == Environment \/ \E c \in Conns : Runs(c) \/ Expires(c) \/ Completes(c)

Spec == Init /\ [][Next]_vars

\* Threads keep running, and every co_await has a deadline; that clients or
\* the origin ever do their part is not assumed.
FairSpec == Spec /\ \A c \in Conns : WF_vars(Runs(c)) /\ WF_vars(Expires(c))

-----------------------------------------------------------------------------
(***************************************************************************)
(* Properties                                                              *)
(***************************************************************************)

\* The handlers share the score tracker soundly: whatever award_score does to
\* it, between the locks of other handlers too, is a step of ScoreTracker's
\* specification, which assumes positive points.
ScoreContract == Scores!Spec

\* No offender slips past the threshold: a score that has reached the
\* threshold its last points were judged by belongs to an IP that some handler
\* is just banning, however the three locks of award_score interleave, with
\* whichever configurations the handlers hold.  An IP between a lowered
\* threshold and the one before it is banned at its next offence.
ThresholdMeansBan ==
  \A ip \in tracked : Scores!Current(ip) >= bar[ip] =>
    \E c \in Conns : IpOf[c] = ip /\ pc[c] \in {"ban", "reset"}

\* A block bites within one request: once an IP is blocked and on no
\* whitelist, each of its open connections gets at most the request through
\* that it was already handling, or waiting for with an older snapshot.
BanBitesWithinOneRequest == \A c \in Conns : served[c]["ban"] <= 1

\* So does the kill switch.
SwitchBitesWithinOneRequest == \A c \in Conns : served[c]["off"] <= 1

\* Both, whichever of the two was decided while the handler held which snapshot.
RefusalsBiteWithinOneRequest == BanBitesWithinOneRequest /\ SwitchBitesWithinOneRequest

\* Every response is for a request that is in the log, once, before the
\* response is written.
ResponsesAreRecorded ==
  \A c \in Conns :
    /\ pc[c] \in {"write", "get", "read"} => logged[c] = seen[c]
    /\ logged[c] <= seen[c] /\ seen[c] <= logged[c] + 1

\* No connection hangs: a handler that waits for a request, or handles one,
\* gets back to the top of its loop or ends.
EveryRequestEnds == \A c \in Conns : pc[c] = "read" ~> pc[c] \in {"get", "closed"}
=============================================================================
