------------------------- MODULE RequestRateTracker --------------------------
(***************************************************************************)
(* history/request_rate_tracker.cpp and its caller, check_request_rate of  *)
(* pipeline/checks.cpp: the sliding window of request times of each IP.    *)
(* The session reads the clock before the lock, so times are pushed out of *)
(* order, and the window is that of the session's own configuration.       *)
(***************************************************************************)
EXTENDS Integers, Sequences, FiniteSets

CONSTANTS
  Callers, \* connection handlers
  Ips,     \* client IPs
  Windows, \* values of speed_check.window_seconds, which the admin may change
  MaxTime, \* bound on the clock
  MaxRequests, \* bound on the requests of a behaviour
  NoCall

VARIABLES
  clock,      \* steady_clock::now()
  calls,      \* the record() each caller is about to make
  history,    \* history_; the empty sequence if the IP has no entry
  last_sweep, \* last_sweep_
  \* For the properties:
  seen,       \* for each IP, the times of its requests in the order of the lock
  cut,        \* the latest cutoff a call used
  lag,        \* the longest a call waited between the clock and the lock
  count       \* the last call, with what it returned

vars == <<clock, calls, history, last_sweep, seen, cut, lag, count>>

Largest(S) == CHOOSE n \in S : \A k \in S : k <= n

Init ==
  /\ clock = 0
  /\ calls = [c \in Callers |-> NoCall]
  /\ history = [ip \in Ips |-> <<>>] /\ last_sweep = 0
  /\ seen = [ip \in Ips |-> <<>>] /\ cut = 0 - Largest(Windows) /\ lag = 0
  /\ count = NoCall

Tick ==
  /\ clock < MaxTime /\ clock' = clock + 1
  /\ UNCHANGED <<calls, history, last_sweep, seen, cut, lag, count>>

\* check_request_rate, with the time the session read.
Enter(c) ==
  /\ calls[c] = NoCall
  /\ Cardinality({p \in Ips \X (1..MaxRequests) : p[2] \in DOMAIN seen[p[1]]}) < MaxRequests
  /\ \E ip \in Ips, window \in Windows :
       calls' = [calls EXCEPT ![c] = [ip |-> ip, now |-> clock, window |-> window]]
  /\ UNCHANGED <<clock, history, last_sweep, seen, cut, lag, count>>

\* mutant: an IP is idle if its oldest request is
IdleMutant(times, cutoff) == times = <<>> \/ times[1] < cutoff

\* mutant: only an IP without any stored time is dropped
IdleEmptyMutant(times, cutoff) == times = <<>>

\* sweep_locked drops an IP whose latest stored request is out of the window.
Idle(times, cutoff) == times = <<>> \/ times[Len(times)] < cutoff

\* How many times are popped from the front while it is out of the window.
Popped(times, cutoff) ==
  CHOOSE n \in 0..Len(times) :
    /\ \A i \in 1..n : times[i] < cutoff
    /\ n < Len(times) => times[n + 1] >= cutoff

Trim(times, cutoff) == SubSeq(times, Popped(times, cutoff) + 1, Len(times))

\* record, under the lock.
Record(c) ==
  /\ calls[c] # NoCall
  /\ LET call == calls[c]
         ip == call.ip
         cutoff == call.now - call.window
         due == call.now - last_sweep >= call.window
         swept == [i \in Ips |-> IF due /\ Idle(history[i], cutoff) THEN <<>> ELSE history[i]]
         kept == Trim(Append(swept[ip], call.now), cutoff)
     IN  /\ history' = [swept EXCEPT ![ip] = kept]
         /\ last_sweep' = IF due THEN call.now ELSE last_sweep
         /\ seen' = [seen EXCEPT ![ip] = Append(@, call.now)]
         /\ cut' = IF cutoff > cut THEN cutoff ELSE cut
         /\ lag' = IF clock - call.now > lag THEN clock - call.now ELSE lag
         /\ count' = [call |-> call, n |-> Len(kept)]
  /\ calls' = [calls EXCEPT ![c] = NoCall]
  /\ UNCHANGED clock

Next == Tick \/ \E c \in Callers : Enter(c) \/ Record(c)

Spec == Init /\ [][Next]_vars

-----------------------------------------------------------------------------
Since(ip, t) == Cardinality({i \in DOMAIN seen[ip] : seen[ip][i] >= t})

\* record returns the number of requests of the IP within the window: at least
\* those no call could have discarded and at most those of the window, each up
\* to the time by which calls were overtaken.  Calls that never overtake each
\* other, under one window, get the exact number.
RateWithinLag ==
  count # NoCall =>
    LET call == count.call
    IN  /\ count.n >= Since(call.ip, cut + lag)
        /\ count.n <= Since(call.ip, call.now - call.window - lag)

\* Memory follows the request rate: after a request no IP is tracked whose last
\* request lies further back than its window and the longest window a sweep can
\* have used (and the time calls were overtaken).
IdleIpsAreSwept ==
  count # NoCall =>
    \A ip \in Ips : history[ip] # <<>> =>
      history[ip][Len(history[ip])]
        > count.call.now - count.call.window - Largest(Windows) - lag

-----------------------------------------------------------------------------
(***************************************************************************)
(* The inductive invariant behind the two.                                 *)
(***************************************************************************)
Call == [ip : Ips, now : Nat, window : Windows]

\* What the code gives the constants: window_seconds is an int.
Bounds ==
  /\ Windows \subseteq Int /\ \E w \in Windows : \A v \in Windows : v <= w
  /\ NoCall \notin Call

Types ==
  /\ clock \in Nat
  /\ calls \in [Callers -> Call \cup {NoCall}]
  /\ history \in [Ips -> Seq(Nat)] /\ last_sweep \in Nat
  /\ seen \in [Ips -> Seq(Nat)] /\ cut \in Int /\ lag \in Nat
  /\ count \in [call : Call, n : Nat] \cup {NoCall}

\* Nobody is ahead of the clock.
NotAhead ==
  /\ last_sweep <= clock
  /\ \A c \in Callers : calls[c] # NoCall => calls[c].now <= clock
  /\ \A ip \in Ips : \A i \in 1..Len(seen[ip]) : seen[ip][i] <= clock

\* The times stored of an IP are the end of all that were seen of it.
IsTail(times, all) ==
  /\ Len(times) <= Len(all)
  /\ \A k \in 1..Len(times) : times[k] = all[Len(all) - Len(times) + k]

\* Those that are missing are below a bound.
OldAreMissing(times, all, bound) == \A i \in 1..(Len(all) - Len(times)) : all[i] < bound

\* Times are in order up to the given lag.
InOrder(all, by) == \A i, j \in 1..Len(all) : i < j => all[i] <= all[j] + by

\* No IP has been idle since before the latest sweep.  An operator may write a
\* window into the file that the admin's routes refuse; this is for theirs.
Positive == Windows \subseteq Nat \ {0}

Fresh(ip) ==
  history[ip] # <<>> =>
    history[ip][Len(history[ip])] >= last_sweep - Largest(Windows) - lag

\* The last call returned what it left, which was of its window; it swept, or
\* another call had within its window.
Counted ==
  count # NoCall =>
    LET call == count.call
    IN  /\ count.n = Len(history[call.ip])
        /\ \A k \in 1..Len(history[call.ip]) : history[call.ip][k] >= call.now - call.window - lag
        /\ Positive => last_sweep > call.now - call.window

IInv ==
  /\ Types /\ NotAhead /\ Counted
  /\ \A ip \in Ips :
       /\ IsTail(history[ip], seen[ip])
       /\ OldAreMissing(history[ip], seen[ip], cut + lag)
       /\ InOrder(seen[ip], lag)
       /\ Positive => Fresh(ip)
=============================================================================
