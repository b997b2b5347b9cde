------------------------------- MODULE UrlFetch -------------------------------
(***************************************************************************)
(* fetch_url of admin/url_fetch.cpp: the download of a list an import-url  *)
(* route waits for.  One timer is set before the connection is opened and  *)
(* covers everything after it; the resolver is not under it.               *)
(***************************************************************************)
CONSTANT Fetches   \* import-url requests in progress

VARIABLE fetch     \* where each of them is

NoFetch == [at |-> "idle", https |-> FALSE, ok |-> FALSE, body |-> {}]

\* The stages that stream's timer covers.
Timed == {"connect", "handshake", "write", "read", "shutdown"}

\* parse_url succeeded; the coroutine waits for the resolver.
StartFetch(r, https) ==
  fetch' = [fetch EXCEPT ![r] = [NoFetch EXCEPT !.at = "resolve", !.https = https]]

\* The name has an address that is_disallowed_address lets pass: the first such
\* one is connected to.  Which addresses those are is an input here.
Resolved(r) ==
  /\ fetch[r].at = "resolve"
  /\ fetch' = [fetch EXCEPT ![r].at = "connect"]

\* Connection, TLS handshake and request, each after the one before it.
NextStage(r) ==
  CASE fetch[r].at = "connect" -> IF fetch[r].https THEN "handshake" ELSE "write"
    [] fetch[r].at = "handshake" -> "write"
    [] fetch[r].at = "write" -> "read"

Advance(r) ==
  /\ fetch[r].at \in {"connect", "handshake", "write"}
  /\ fetch' = [fetch EXCEPT ![r].at = NextStage(r)]

\* Over TLS the stream is shut down before fetch_url returns what it has read:
\* the body of a 2xx within the size limit ...
ReadBody(r, body) ==
  /\ fetch[r].at = "read" /\ fetch[r].https
  /\ fetch' = [fetch EXCEPT ![r].at = "shutdown", ![r].ok = TRUE, ![r].body = body]

\* ... or an error: a reset, a redirect, another status, too much of a body, the
\* timer.  The shutdown is waited for after a failure too.
ReadError(r) ==
  /\ fetch[r].at = "read" /\ fetch[r].https
  /\ fetch' = [fetch EXCEPT ![r].at = "shutdown"]

\* fetch_url returns the body.
FetchedPlain(r) == fetch[r].at = "read" /\ ~fetch[r].https

FetchedTls(r) == fetch[r].at = "shutdown" /\ fetch[r].ok

EndFetch(r) == fetch' = [fetch EXCEPT ![r] = NoFetch]

\* The name does not resolve, or every address is denied.
ResolveFails(r) == fetch[r].at = "resolve" /\ EndFetch(r)

\* A failure returns at once, but for a read over TLS.
FailsAt(r) ==
  {"connect", "handshake", "write"} \cup IF fetch[r].https THEN {"shutdown"} ELSE {"read"}

\* The peer refuses, resets, redirects, answers with an error or sends too much;
\* or the shutdown after such a read is over, whatever came of it.
PeerFails(r) ==
  /\ fetch[r].at \in FailsAt(r) /\ ~fetch[r].ok
  /\ EndFetch(r)

\* mutant: the timer is not armed for the stages after the connection
TimerFiresEarlyOnly(r) ==
  /\ fetch[r].at = "connect"
  /\ EndFetch(r)

\* The timer ends the stage with an error.
TimerFires(r) ==
  /\ fetch[r].at \in FailsAt(r) /\ ~fetch[r].ok
  /\ EndFetch(r)
=============================================================================
