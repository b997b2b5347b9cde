----------------------------- MODULE TlsListener -----------------------------
(***************************************************************************)
(* listener/tls_site_contexts.cpp, tls_listener.cpp and accept_util.hpp:   *)
(* the accept loop of the TLS listener, and the handshakes that pick the   *)
(* certificate of the requested site from a cache of loaded certificates.  *)
(* current() runs in every handshake, on any thread: one of them refreshes *)
(* the cache, stat by stat and file by file and without the lock, while    *)
(* the configuration and the files change and other handshakes look.       *)
(***************************************************************************)
EXTENDS Integers, Sequences, FiniteSets

CONSTANTS
  Conns,       \* connections
  Listener,    \* run_tls_listener, which calls current() before it accepts
  SiteOrder,   \* the sites, in the order of config.sites
  Pairs,       \* pairs of a certificate and a key file
  NoPair,      \* a site without its own certificate
  Limits,      \* numbers of descriptors the process may get for connections
  MaxConfigs,  \* bound on configuration snapshots
  MaxVersion   \* bound on the versions of a file

VARIABLES
  configs,    \* the snapshots config_store has held: the pair of each site
  disk,       \* version of each file, 0 if it is missing; its mtime
  checked,    \* checked_config_, an index of configs, 0 if none
  built,      \* built_fingerprint_
  contexts,   \* contexts_: the version loaded for each site, 0 if it was skipped
  refreshing, \* refreshing_
  limit,      \* descriptors for accepted connections, set when the process starts
  acceptor,   \* where accept_next is
  calls       \* what each connection and the listener are doing

cacheVars == <<checked, built, contexts, refreshing>>
vars == <<configs, disk, cacheVars, limit, acceptor, calls>>

Callers == Conns \cup {Listener}
Sites == {SiteOrder[i] : i \in DOMAIN SiteOrder}
Kinds == {"cert", "key"}
Files == Pairs \X Kinds
Versions == 0..MaxVersion

Config == [Sites -> Pairs \cup {NoPair}]
Stamp == [pair : Pairs \cup {NoPair}, cert : Versions, key : Versions]
NoStamp == [pair |-> NoPair, cert |-> 0, key |-> 0]
Blank == [s \in Sites |-> NoStamp]
Nothing == [s \in Sites |-> 0]

\* The files a loop over config.sites meets, numbered in its order: the certificate
\* and the key of the first site, those of the second, and so on.
Places == 1..(2 * Len(SiteOrder))
SiteAt(i) == SiteOrder[(i + 1) \div 2]
KindAt(i) == IF i % 2 = 1 THEN "cert" ELSE "key"

\* A call: its snapshot, the places it still has to stat or load, and the local
\* fingerprint and the versions loaded so far.  `why` says, for the properties,
\* how the last answer came about, and `from` which pairs it was built from.
Call == [at : {"away", "waiting", "get", "look", "stat", "load", "release", "open"},
         config : 0..MaxConfigs, todo : SUBSET Places,
         print : [Sites -> Stamp], loaded : [Sites -> Stamp],
         why : {"", "fast", "busy", "same", "built"}, from : Config]

Away == [at |-> "away", config |-> 0, todo |-> {}, print |-> Blank, loaded |-> Blank,
         why |-> "", from |-> [s \in Sites |-> NoPair]]

TypeOK ==
  /\ configs \in Seq(Config) /\ Len(configs) \in 1..MaxConfigs
  /\ disk \in [Files -> Versions]
  /\ checked \in 0..MaxConfigs
  /\ built \in [Sites -> Stamp]
  /\ contexts \in [Sites -> Versions]
  /\ refreshing \in BOOLEAN
  /\ limit \in Limits /\ acceptor \in {"starting", "accepting", "pausing"}
  /\ calls \in [Callers -> Call]

Init ==
  /\ \E config \in Config : configs = <<config>>
  /\ disk \in [Files -> {0, 1}]
  /\ checked = 0 /\ built = Blank /\ contexts = Nothing
  /\ refreshing = FALSE
  /\ limit \in Limits
  /\ acceptor = "starting"
  /\ calls = [c \in Callers |-> IF c = Listener THEN [Away EXCEPT !.at = "get"] ELSE Away]

-----------------------------------------------------------------------------
\* The world around: an admin change or a hand edit installs a snapshot, and a
\* renewal writes the certificate and the key one after the other.
NewConfig ==
  /\ Len(configs) < MaxConfigs
  /\ \E config \in Config : configs' = Append(configs, config)
  /\ UNCHANGED <<disk, limit, cacheVars, acceptor, calls>>

WriteFile ==
  /\ \E f \in Files : disk[f] < MaxVersion /\ disk' = [disk EXCEPT ![f] = @ + 1]
  /\ UNCHANGED <<configs, limit, cacheVars, acceptor, calls>>

Connect(c) ==
  /\ calls[c].at = "away"
  /\ calls' = [calls EXCEPT ![c].at = "waiting"]
  /\ UNCHANGED <<configs, disk, limit, cacheVars, acceptor>>

-----------------------------------------------------------------------------
\* accept_next.
Used == Cardinality({c \in Conns : calls[c].at \notin {"away", "waiting"}})

Accept(c) ==
  /\ acceptor = "accepting"
  /\ calls[c].at = "waiting" /\ Used < limit
  /\ calls' = [calls EXCEPT ![c] = [Away EXCEPT !.at = "get"]]
  /\ UNCHANGED <<configs, disk, limit, cacheVars, acceptor>>

\* async_accept fails while descriptors are exhausted.
AcceptFails(c) ==
  /\ acceptor = "accepting"
  /\ calls[c].at = "waiting" /\ Used >= limit
  /\ acceptor' = "pausing"
  /\ UNCHANGED <<configs, disk, limit, cacheVars, calls>>

\* It also fails when the client resets the connection first.
ClientResets(c) ==
  /\ acceptor = "accepting" /\ calls[c].at = "waiting"
  /\ acceptor' = "pausing"
  /\ calls' = [calls EXCEPT ![c] = Away]
  /\ UNCHANGED <<configs, disk, limit, cacheVars>>

\* The pause is over.
RetryAccept ==
  /\ acceptor = "pausing" /\ acceptor' = "accepting"
  /\ UNCHANGED <<configs, disk, limit, cacheVars, calls>>

-----------------------------------------------------------------------------
\* TlsSiteContexts::current, called by select_tls_context_for_sni.
Step(c, call) ==
  /\ calls' = [calls EXCEPT ![c] = call]
  /\ UNCHANGED <<configs, disk, limit, acceptor>>

\* config_store->get().
GetConfig(c) ==
  /\ calls[c].at = "get"
  /\ Step(c, [calls[c] EXCEPT !.at = "look", !.config = Len(configs)])
  /\ UNCHANGED cacheVars

Paired == [s \in Sites |-> built[s].pair]
Answered(c, at, why) == [Away EXCEPT !.at = at, !.config = calls[c].config,
                                     !.why = why, !.from = Paired]

\* has_own_cert: the places of the sites that have one.
OwnFiles(config) == {i \in Places : config[SiteAt(i)] # NoPair}

\* The next of the places a loop has not come to.
NextPlace(todo, i) == i \in todo /\ \A j \in todo : i <= j

\* The first critical section.
Look(c) ==
  /\ calls[c].at = "look"
  /\ LET config == calls[c].config
     IN  \/ /\ checked = config
            /\ Step(c, Answered(c, "open", "fast")) /\ UNCHANGED cacheVars
         \/ /\ checked # config /\ refreshing
            /\ Step(c, Answered(c, "open", "busy")) /\ UNCHANGED cacheVars
         \/ /\ checked # config /\ ~refreshing
            /\ refreshing' = TRUE
            /\ Step(c, [calls[c] EXCEPT
                 !.at = "stat", !.todo = OwnFiles(configs[config]),
                 !.print = [s \in Sites |-> [NoStamp EXCEPT !.pair = configs[config][s]]],
                 !.loaded = Blank])
            /\ UNCHANGED <<checked, built, contexts>>

\* The version of a site's file, as stat or the loader sees it now.
OnDisk(c, i) == disk[<<configs[calls[c].config][SiteAt(i)], KindAt(i)>>]

Noted(stamp, kind, version) ==
  IF kind = "cert" THEN [stamp EXCEPT !.cert = version] ELSE [stamp EXCEPT !.key = version]

\* fingerprint_of, file by file.
StatFile(c) ==
  /\ calls[c].at = "stat"
  /\ \E i \in Places :
       /\ NextPlace(calls[c].todo, i)
       /\ Step(c, [calls[c] EXCEPT !.todo = @ \ {i},
                     !.print[SiteAt(i)] = Noted(@, KindAt(i), OnDisk(c, i))])
  /\ UNCHANGED cacheVars

\* mutant: the guard is not there to clear refreshing_ on the early return
CompareMutant(c) ==
  /\ calls[c].at = "stat" /\ calls[c].todo = {}
  /\ IF checked # 0 /\ calls[c].print = built
     THEN /\ checked' = calls[c].config
          /\ Step(c, Answered(c, "open", "same"))
     ELSE /\ UNCHANGED checked
          /\ Step(c, [calls[c] EXCEPT !.at = "load", !.todo = OwnFiles(configs[calls[c].config])])
  /\ UNCHANGED <<built, contexts, refreshing>>

\* mutant: the snapshot counts as checked before its certificates are loaded
CompareEarlyMutant(c) ==
  /\ calls[c].at = "stat" /\ calls[c].todo = {}
  /\ checked' = calls[c].config
  /\ IF checked # 0 /\ calls[c].print = built
     THEN Step(c, Answered(c, "release", "same"))
     ELSE Step(c, [calls[c] EXCEPT !.at = "load", !.todo = OwnFiles(configs[calls[c].config])])
  /\ UNCHANGED <<built, contexts, refreshing>>

\* The second critical section: nothing the map is built from has changed.
Compare(c) ==
  /\ calls[c].at = "stat" /\ calls[c].todo = {}
  /\ IF checked # 0 /\ calls[c].print = built
     THEN /\ checked' = calls[c].config
          /\ Step(c, Answered(c, "release", "same"))
     ELSE /\ UNCHANGED checked
          /\ Step(c, [calls[c] EXCEPT !.at = "load", !.todo = OwnFiles(configs[calls[c].config])])
  /\ UNCHANGED <<built, contexts, refreshing>>

\* build, file by file.
LoadFile(c) ==
  /\ calls[c].at = "load"
  /\ \E i \in Places :
       /\ NextPlace(calls[c].todo, i)
       /\ Step(c, [calls[c] EXCEPT !.todo = @ \ {i},
                     !.loaded[SiteAt(i)] = Noted(@, KindAt(i), OnDisk(c, i))])
  /\ UNCHANGED cacheVars

\* A context exists if both files are there and the key is the certificate's.
Usable(stamp) == IF stamp.cert = stamp.key THEN stamp.cert ELSE 0

\* mutant: the fingerprint is taken once the certificates are loaded
StoreMutant(c) ==
  /\ calls[c].at = "load" /\ calls[c].todo = {}
  /\ contexts' = [s \in Sites |-> Usable(calls[c].loaded[s])]
  /\ built' = [s \in Sites |->
       LET pair == configs[calls[c].config][s]
       IN  IF pair = NoPair THEN NoStamp
           ELSE [pair |-> pair, cert |-> disk[<<pair, "cert">>], key |-> disk[<<pair, "key">>]]]
  /\ checked' = calls[c].config
  /\ Step(c, [Answered(c, "release", "built") EXCEPT !.from = configs[calls[c].config]])
  /\ UNCHANGED refreshing

\* The third critical section.
Store(c) ==
  /\ calls[c].at = "load" /\ calls[c].todo = {}
  /\ contexts' = [s \in Sites |-> Usable(calls[c].loaded[s])]
  /\ built' = calls[c].print
  /\ checked' = calls[c].config
  /\ Step(c, [Answered(c, "release", "built") EXCEPT !.from = configs[calls[c].config]])
  /\ UNCHANGED refreshing

\* ~RefreshGuard.  The handshake then goes on; the listener begins to accept.
Release(c) ==
  /\ calls[c].at = "release"
  /\ refreshing' = FALSE
  /\ Step(c, [calls[c] EXCEPT !.at = "open"])
  /\ UNCHANGED <<checked, built, contexts>>

BeginAccept ==
  /\ acceptor = "starting" /\ calls[Listener].at = "open"
  /\ acceptor' = "accepting"
  /\ UNCHANGED <<configs, disk, limit, cacheVars, calls>>

\* The session ends: the client hangs up or misses a deadline.  A client that
\* goes on sending requests keeps its connection as long as it likes
\* (run_http_session bounds each request, not the connection).
End(c) ==
  /\ c \in Conns /\ calls[c].at = "open"
  /\ Step(c, Away) /\ UNCHANGED cacheVars

Handshake(c) ==
  \/ GetConfig(c) \/ Look(c) \/ StatFile(c) \/ Compare(c) \/ LoadFile(c) \/ Store(c)
  \/ Release(c)

AcceptLoop == BeginAccept \/ RetryAccept \/ \E c \in Conns : Accept(c) \/ AcceptFails(c)

Next ==
  \/ NewConfig \/ WriteFile
  \/ AcceptLoop
  \/ \E c \in Conns : Connect(c) \/ ClientResets(c) \/ End(c)
  \/ \E c \in Callers : Handshake(c)

\* Threads run; a waiting client is at the head of the backlog infinitely often,
\* as the kernel queues connections.  Nothing obliges a session to end.
Fairness ==
  /\ WF_vars(AcceptLoop)
  /\ \A c \in Conns : SF_vars(Accept(c))
  /\ \A c \in Callers : WF_vars(Handshake(c))

Spec == Init /\ [][Next]_vars /\ Fairness

-----------------------------------------------------------------------------
\* What was loaded is still what is on disk for as long as the fingerprint
\* says so, although the files may be replaced between any two of the stats and
\* loads that made them (current takes the fingerprint before it builds).
FingerprintIsHonest ==
  (/\ checked # 0
   /\ \A s \in Sites : built[s].pair # NoPair =>
        /\ built[s].cert = disk[<<built[s].pair, "cert">>]
        /\ built[s].key = disk[<<built[s].pair, "key">>])
  => \A s \in Sites : contexts[s] = Usable(built[s])

\* A handshake that did not meet a refresh is served by certificates chosen for
\* the sites of the very snapshot it read, never by another configuration's.
ServedFromSnapshot ==
  \A c \in Callers :
    calls[c].why \notin {"", "busy"} => calls[c].from = configs[calls[c].config]

\* A refresh comes to its end, so that a later change can be looked at.
RefreshEnds == refreshing ~> ~refreshing

\* Accepting recovers: if a descriptor is free again and again, every client
\* that waits is accepted or gives up, whatever made accepts fail before and
\* whoever else takes the descriptors (accept_next retries after a pause).
WaitingIsAccepted ==
  []<>(Used < limit) =>
    \A c \in Conns : calls[c].at = "waiting" ~> calls[c].at # "waiting"

\* The listener does not wear out: neither a failed accept nor a refresh that
\* found nothing or failed leaves a flag or a loop behind that stops it.
ListenerKeepsServing == RefreshEnds /\ WaitingIsAccepted

-----------------------------------------------------------------------------
(***************************************************************************)
(* The inductive invariant behind FingerprintIsHonest and                  *)
(* ServedFromSnapshot.                                                     *)
(***************************************************************************)

\* What the code and the bounds of a behaviour give the constants.
Bounds ==
  /\ SiteOrder \in Seq(Sites) /\ NoPair \notin Pairs
  /\ MaxConfigs \in Nat \ {0} /\ MaxVersion \in Nat \ {0}

\* refreshing_ is set while somebody refreshes, and nobody else does.
Refreshers == {c \in Callers : calls[c].at \in {"stat", "load", "release"}}
OneRefresh ==
  /\ Refreshers # {} => refreshing
  /\ \A c, d \in Refreshers : c = d

\* A fingerprint b of a site's pair, of versions that have been.
Seen(b, pair) ==
  /\ b.pair = pair
  /\ pair = NoPair => b = NoStamp
  /\ pair # NoPair => b.cert <= disk[<<pair, "cert">>] /\ b.key <= disk[<<pair, "key">>]

\* The loader came to the file after the fingerprint b was taken, and before now.
After(kind, b, l) ==
  IF kind = "cert" THEN b.cert <= l.cert /\ l.cert <= disk[<<b.pair, "cert">>]
                   ELSE b.key <= l.key /\ l.key <= disk[<<b.pair, "key">>]

\* A call works with a snapshot that has been published; its fingerprint is of
\* that snapshot, and what it has loaded it loaded after the fingerprint.
CallInv(call) ==
  LET config == configs[call.config]
  IN  /\ call.at \in {"look", "stat", "load"} \/ call.why # "" => call.config \in 1..Len(configs)
      /\ call.at \in {"stat", "load"} =>
           /\ call.todo \subseteq OwnFiles(config)
           /\ \A s \in Sites : Seen(call.print[s], config[s])
      /\ call.at \in {"stat", "load"} => \A s \in Sites : config[s] = NoPair => call.loaded[s] = NoStamp
      /\ call.at = "load" =>
           \A i \in OwnFiles(config) \ call.todo :
             After(KindAt(i), call.print[SiteAt(i)], call.loaded[SiteAt(i)])
      /\ call.why \notin {"", "busy"} => call.from = config
      /\ call.at \in {"get", "look", "stat", "load"} => call.why = ""

\* So it was for the certificates of the cache, whose fingerprint is of the
\* snapshot that was checked last.
CacheInv ==
  checked # 0 =>
    /\ checked \in 1..Len(configs)
    /\ \A s \in Sites : built[s].pair = configs[checked][s]
    /\ \E l \in [Sites -> Stamp] : \A s \in Sites :
         /\ contexts[s] = Usable(l[s])
         /\ IF built[s].pair = NoPair THEN built[s] = NoStamp /\ l[s] = NoStamp
            ELSE After("cert", built[s], l[s]) /\ After("key", built[s], l[s])

IInv ==
  /\ TypeOK /\ OneRefresh /\ CacheInv
  /\ \A c \in Callers : CallInv(calls[c])
=============================================================================
