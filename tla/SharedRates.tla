------------------------------ MODULE SharedRates -----------------------------
(***************************************************************************)
(* RequestRateTracker as a part of a larger state, with names of its own,  *)
(* and the properties stated of it there.                                  *)
(***************************************************************************)
CONSTANTS Handlers, Ips, Windows, MaxSteady, MaxRequests, NoCall

VARIABLES steady, rate_calls, history, last_sweep, seen, cut, lag, count

R == INSTANCE RequestRateTracker WITH
       Callers <- Handlers, MaxTime <- MaxSteady, clock <- steady, calls <- rate_calls

rateVars == <<steady, rate_calls, history, last_sweep, seen, cut, lag, count>>

\* record returns the number of requests within the window, up to the time by
\* which calls were overtaken (RequestRateTracker::record).
RateWithinLag == R!RateWithinLag

\* No IP stays tracked once its last request lies further back than the caller's
\* window, the longest window and the lag (RequestRateTracker::sweep_locked).
IdleIpsAreSwept == R!IdleIpsAreSwept
=============================================================================
