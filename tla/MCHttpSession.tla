---------------------------- MODULE MCHttpSession ----------------------------
EXTENDS HttpSession

CONSTANTS a, c1, c2

MCIpOf == [c \in {c1, c2} |-> a]

MCIntMin == 0 - 3

\* One offence short of the threshold, and one that reaches it at once.
Strict == [off |-> FALSE, whitelist |-> {}, ban |-> TRUE, threshold |-> 2,
           scores |-> [check \in Checks |->
             CASE check = "route_blacklist" -> 1
               [] check = "body_blacklist" -> 2
               [] OTHER -> 0]]

\* A change of each setting, the threshold and a score among them.
MCConfigs ==
  { Strict,
    [Strict EXCEPT !.off = TRUE],
    [Strict EXCEPT !.whitelist = {a}],
    [Strict EXCEPT !.ban = FALSE],
    [Strict EXCEPT !.threshold = 3],
    [Strict EXCEPT !.threshold = 0 - 1],
    [Strict EXCEPT !.scores["body_blacklist"] = 0 - 2, !.scores["user_agent_blacklist"] = 3] }

Plain == [NoRequest EXCEPT !.keep_alive = TRUE]

\* A request for each way through the pipeline.
MCRequests ==
  { Plain,
    [Plain EXCEPT !.hits = {"route_blacklist", "user_agent_blacklist"}],
    [Plain EXCEPT !.hits = {"body_blacklist"}],
    [Plain EXCEPT !.route_wl = TRUE, !.hits = {"speed_check"}] }

\* The ways that end before or beside them.
MCOtherRequests ==
  { [NoRequest EXCEPT !.hits = {"speed_check"}],
    [NoRequest EXCEPT !.robots = TRUE],
    [NoRequest EXCEPT !.disabled = TRUE],
    Plain }
=============================================================================
