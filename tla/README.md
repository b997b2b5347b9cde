# TLA+ model of atomwall

atomwall is a reverse proxy with a request filter. One process on a pool of threads
(`boost::asio::io_context::run` on every core, `main.cpp`) runs the public HTTP and HTTPS listeners, an
admin server with its JSON API, a public globe server, and a loop that polls the configuration file. All
of them are coroutines; none has a strand, so two handlers may run at the same instant on two threads.
They meet in objects of `AppState`, each guarded by its own mutex. This directory holds TLA+ modules of
these objects and of the handlers that use them, TLC runs of small instances, and TLAPS proofs for
instances of any size. `PROJECT.json` maps every definition to the lines it models.

## 1. Inventory

Paths are relative to `src/source/src/`.

| Component | State | Operations | What makes it correct |
|---|---|---|---|
| `config/config_store` | the published `RuntimeConfig`, the mtime last seen, one slot for the snapshot to write | `get`, `update`, `poll_for_external_changes`, `writer_loop`, `load_or_create`, destructor | updates do not clobber each other; disk follows memory in order; hand edits are noticed; shutdown drains |
| `util/atomic_file` | a file and its `.tmp` | `write_file_atomically` | a reader never sees a part; a failure leaves the file as it was; secrets are never readable by others |
| `history/score_tracker` | scores of IPs, queue of stamps | `add_points`, `reset`, `current` | bounded memory; scores do not get lost or fall; the oldest goes first |
| `history/ip_block_tracker` | temporary blocks of addresses and of ranges | `add`, `remove`, `is_blocked`, `list_active` | a block holds until it expires or is removed; lapsed ones do not pile up |
| `listener/http_session` with the listeners, the checks and the upstream | per connection: snapshot, request, verdict | the keep-alive loop, `award_score`, `record_events` | a threshold reached bans; bans and the kill switch bite soon; answers are on record; every request ends |
| admin authentication: `admin/admin_server` over `auth/user_store`, `session_store`, `pending_mfa_store`, `pending_totp_store`, `webauthn/challenge_store` | accounts in memory and in `users.yaml`, sessions, half-finished logins and enrolments, challenges | setup, login and its four second steps, logout, enrolment and removal of factors, user list | one first admin and never none; nothing that opens a session opens two; enrolment counts once it is on disk |
| admin configuration routes over `config/blacklist_ops`, `site_ops`, `status_page_ops`, `yaml_codec`, `site_lookup`, `util/numeric` | the configuration's lists, sites, status pages and settings | about forty routes | what is stored is usable, in range, unambiguous, complete after a restart; no request changes more than it names |
| `admin/url_fetch` | a download per import | `fetch_url` | ends, whatever the other end does |
| `history/request_log`, `history/sse_stream`, `history/globe_event_log` | ring of events, batch, queue of batches for the writer thread | `record`, `recent`, `events_since`, `writer_loop`, destructor; one poller per SSE stream | each event reaches the file once and in order, and a row cut short costs one other at most; streams miss nothing they could have had; shutdown ends |
| `history/request_rate_tracker` | a window of times per IP | `record`, sweep | the count is that of the window; memory is reclaimed |
| `auth/webauthn/challenge_store` | challenges by name, queue of stamps | `start`, `consume` | bounded; a challenge is given out once; newer ceremonies survive |
| `auth/webauthn/webauthn_service`, `cbor_reader`, `cose_key` with the counter in `auth/user_store` | passkeys with their counters | registration, assertion | passkeys are stored as made and can log in; counters rise |
| `listener/tls_site_contexts`, `listener/tls_listener`, `listener/accept_util` | certificates per site, the configuration they were made for | `current` with a single refresher, `accept_next` | a handshake is served from its snapshot or the one being replaced; a refresh ends; a failing accept is tried again |
| `globe/globe_server`, `geoip/*`, `history/login_history`, `admin/static_files`, `admin/json_view`, `pipeline/robots_txt` | little or none | views, files, lookups | functions of their input |
| `webui/` | the browser | | outside the server |

How they interact: a request handler takes a snapshot of the configuration, asks the block tracker and
the rate tracker, runs the checks, adds to the score tracker and, past the threshold, blocks the IP and
resets its score, and gives an event to the request log. Admin handlers change the configuration through
`ConfigStore::update`, and blocks, accounts and sessions directly. The configuration store and the user
store write their files through `write_file_atomically`.

What is hard about it: reads of shared state before an `await` or outside a lock that are used after it
(snapshots, clocks, copies of accounts); several locks taken one after another for what is one operation
(`award_score`, every login); an operator, the writer thread and the poll loop on the same file; saves
that fail after memory was changed; caps that evict; crashes between any two of these; clients and
origins that stop in the middle. `PROJECT.json` lists these hazards at their lines with the properties
that cover them.

## 2. Modules

### ConfigStore (`config/config_store.cpp`, the poll loop of `main.cpp`)

A configuration is the set of changes it was made of: the mutations of `update()` calls and the hand
edits. That is what the properties tell apart; the fields are left out. An `update()` call is three
steps: `UpdateCopy` (takes `write_mutex_`, copies), `UpdatePublish` or `UpdateThrow` (swaps `current_`),
`UpdateEnqueue` (fills the one slot for the writer). `writer_loop` is `WriterTake`, `WriterWrite` or
`WriterFail`, `WriterStamp` (the `last_write_time` after the write). The poll is `PollStat`,
`PollCompare`, `PollRead` or `PollIgnore` (a file that is gone or does not parse), `PollSwap`. An
operator saves by truncating and writing (`EditBegin`, `EditEnd`), so that half a file can be read.
`LoadRead`, `LoadPublish`, `LoadFail`, `Crash`, `Signal`, `Destroy`, `WriterExit` are the life of the
process. A write of the file is one step here because AtomicFile shows that it is. `Written` gives a write
a new mtime, or that of the write before it (`twin`), since two may fall into one tick of the file
system's clock.

### AtomicReplace and AtomicFile (`util/atomic_file.cpp`)

AtomicReplace says what `write_file_atomically` promises: the file holds one whole content at a time and
a call replaces it in one step or not at all; a power loss may undo replacements not yet settled, to a
whole earlier content. AtomicFile is the code, one system call per step, each of which may fail, the
`unlink` of the temp file after a failure too, with process crashes and power losses in between. A file is
a content, how much of it is written, and a mode.
`ImplementsAtomicReplace` is the refinement.

### ScoreTracker (`history/score_tracker.cpp`)

`tracked` and `entry` are the map, `order` the queue of stamps with the stale ones `reset` leaves,
`next_seq` the counter; sums are clamped to `IntMin..IntMax`. MCStores' `BoundedNext` stops the
counter for TLC; the proofs are about `Spec`.

### BlockList and IpBlockTracker (`history/ip_block_tracker.cpp`)

BlockList is a plain list of blocks that leaves open when lapsed ones are forgotten. IpBlockTracker has
the code's two maps and its throttled prune. Every call reads the clock before it takes the lock
(`EnterAdd`, `EnterRemove`, `EnterIsBlocked`, `EnterListActive`, then the call's own action), so calls
overtake each other. The clock moves forward only.
`ImplementsBlockList` is the refinement: no answer depends on pruning.

### HttpSession (`listener/http_session.hpp`, `listener.cpp`, `tls_listener.cpp`, `upstream.cpp`, `pipeline/checks.cpp`)

One handler per connection; `pc` says which await or shared access is next. `GetConfig` (the snapshot),
`ReadHeader`, `Entrance` (kill switch, site), `BanGate`, `RateCheck`, `HeaderChecks`, `ReadBody`,
`UpstreamAnswers`, `Record`, `Write`; each await has its failing twin (`HeaderFails`, `BodyFails`,
`UpstreamFails`, `WriteFails`), after which the exception ends the handler. `award_score` is three
locks: `AwardScored` or `AwardNothing`, `BanIp`, `ResetScore`. The configuration a handler looks at (`Config`)
includes the threshold and the scores, which `SetConfig` changes like the rest while handlers hold older
snapshots; `bar` is the threshold an IP's last points were judged by. The scores are an INSTANCE of
ScoreTracker, whose actions the handlers take. The blocks are a set of banned IPs that anybody may add
to and that lapses (`Block`, `Lapse`), which is BlockList with time left out. Which checks a request
fails, its site and its path are an input (`Requests`); the order of the checks is the code's.

### AdminAuth (`admin/admin_server.cpp`, `auth/`)

A handler is the sequence of its calls to the stores, one action per call; `req[r].at` names the next
call. `Gate` looks the session up when the header is read, the handler runs after the body. `Refuse` is
an early return because of what the client sent, `Missing` one because something was removed since an
earlier call, `RandFails` the exception of a failed `RAND_bytes`. `Save` is `save_locked`: memory has
changed; either the file follows or the call throws and the connection closes. That a failed save leaves
the old file is AtomicFile's `FailureIsUndone`. Tokens, salts, secrets, codes, challenges and
handles are numbers never drawn before. TOTP codes are the time step they belong to, valid one step
before and after it. Passwords, codes and signatures are right or wrong as an input. Expired entries are
removed by `Expire`; `Restart` keeps `users.yaml` and loses the rest (process crashes, not power
losses). Sign counters are in WebAuthn, the challenge store's cap in ChallengeStore. `grants` and
`enrolled` are history. `scenario`, chosen at the start, is the store the process finds, the routes its
clients call and the bounds.

### RuntimeConfig, YamlCodec, UrlFetch and AdminConfig (`config/*_ops.cpp`, `yaml_codec.cpp`, `admin/url_fetch.cpp`, the configuration routes of `admin/admin_server.cpp`)

RuntimeConfig has the mutators as operators: a text is its shape (an address, a range, a path, blank, with
whitespace in front or at its end only), a domain is a name, its case and the ports at its end, a JSON number
counts halves so that truncation happens, and ranges are narrowed.
YamlCodec is `to_yaml_config` and `parse_yaml_config` over keys; UrlFetch the stages of `fetch_url` under
its one timer; a read over TLS that failed is followed by the shutdown like one that did not. AdminConfig
has one action per route: a handler is one `ConfigStore::update`, which ConfigStore shows to be atomic, so it
is one step; only the `import-url` routes have two, around their download.
`Restart` writes and reads the configuration. A scenario, chosen at the start, says which
requests a behaviour makes, so that settings that have nothing to do with each other add up and do not
multiply; together the scenarios call every route.

### Journal and RequestLog (`history/request_log.cpp`, `sse_stream.hpp`, `globe_event_log.cpp`)

Journal is what the CSV file promises: a run's events in order, a prefix of them, once. RequestLog is the
ring, the batch, the queue, `writer_loop` with its condition variable (`WriterCheck` may find nothing and
sleep; `Notified`), the destructor in its three steps, a file that does not open or fails later, crashes
and restarts over the same file, and streams that poll the ring. The output may stop in the middle of a
row (`OutputStops`); the next run that writes appends its first row to that part, on the same line, which
`spoilt` records. The globe's log is the same with `csv`
off. `ImplementsJournal` is the refinement.

### ChallengeMap, ChallengeStore (`auth/webauthn/challenge_store.cpp`), RequestRateTracker

ChallengeMap is the map AdminAuth's ceremonies assume, in which entries may vanish. ChallengeStore has the
queue of stamps, matched by expiry time, and the cap, and implements it. Both it and RequestRateTracker
read the clock before the lock, so calls overtake each other; `lag` is by how much.

### TlsListener (`listener/tls_site_contexts.cpp`, `tls_listener.cpp`, `accept_util.hpp`)

`current()` is its three critical sections with the stats and loads between them, one file at a time,
in the order of the sites (`Places`: two per site; `NextPlace` the first that is left), while
configurations and files change. The accept loop runs out of descriptors and pauses.

### WebAuthn (`auth/webauthn/webauthn_service.cpp`, `cbor_reader.cpp`, `cose_key.cpp`)

Verification as operators over trees of CBOR items, which are copied level by level down to the depth the
code allows, and cells of `authenticatorData` with its flags, and the passkeys of an account as state:
`Verify` checks an assertion against a copy, `UpdateSignCount` stores the counter later; saves fail and the
process restarts. `Refused` are the keys of the right shape that OpenSSL does not take (a point off the
curve). Nothing keeps an id from being registered twice, so passkeys are told apart by the number of their
registration and found, as the code does, by the first that has the id (`IsFirst`).

### SharedCeremonies, SharedFile, SharedRates, SharedTls

ChallengeStore with WebAuthn, AtomicFile, RequestRateTracker and TlsListener as parts of a larger state: an INSTANCE of
each with names that do not meet those of the module a run also checks, and the properties stated there.
The runs and the proofs both extend these modules, so they are about the same definitions.

## 3. Runs

| Run | Instance | Shows |
|---|---|---|
| `config_store` | 2 updates, 1 edit, crashes, restarts, failed writes | order on disk, no clobbering, the poll never marks unseen content, the writer does all it is given (`WriterKeepsUp`) |
| `config_store_lost_update` | 2 updates | *violation*: an acknowledged update is undone by the poll |
| `config_store_dropped_write` | 2 updates, fair | *violation*: a snapshot whose write failed never reaches the disk |
| `disk_files` | AtomicFile: 2 contents of 2 units, 2 modes; or TlsListener: 2 connections, 1 site, 2 configurations, 2 versions of its files, 1 or 2 descriptors, fair | whole files and clean failures (`ReplacedOrUntouched`), permissions, refinement; honest fingerprints, the right certificates, refreshes end and clients are accepted (`ListenerKeepsServing`) |
| `stores` | ScoreTracker: 4 IPs, cap 3, scores to 2, 8 stamps; or ChallengeStore: 2 callers, 2 names, cap 2, 4 starts; or WebAuthn: 2 registrations, also of one id, 2 logins at a time, 2 accepted, 1 restart, and many kinds of data, flags and keys | bounds and stamps (`IInv`), eviction, scores never fall; the same for challenges, refinement; counters rise, passkeys are stored as made |
| `clock_trackers` | IpBlockTracker: 2 callers, an address, a range that holds it, 4 times; or RequestRateTracker: 2 callers, 2 IPs, 2 windows, 3 requests | unique entries (`IInv`), no pile-up, refinement; counts within the lag, idle IPs swept |
| `http_session` | 2 connections of one client, 3 requests, seven configurations that differ in each setting, one at first and a change to another | the threshold bans; a block or the kill switch bites within one request; responses are logged |
| `http_session_live` | same, 2 requests, the other ways through the pipeline, fair | every request ends |
| `admin_auth` | 2 requests; at most 2 accounts with 3 or 4 random values; or 1 account with codes, 2 time steps; or passkey logins; each with 1 restart; or enrolment of either factor under a changing policy | one session from setup, from a backup code, from a TOTP step and from a challenge (`OneSessionPerSecret`); never locked out; the flag is lifted only for a factor on disk |
| `admin_only_factor` | 2 requests | *violation*: both passkeys are removed under `require_2fa` |
| `request_log` | 5 events, ring of 3, batches of 2, 2 runs of the process, 1 stream, fair | file and streams in sequence, refinement, no wakeup lost (shutdown ends, the queue is written), streams catch up |
| `admin_config` | every route, ints of -4..5, 2 sites, 2 pages, 1 import at a time, fair | `ConfigIsUsable` (entries where their checks look, numbers valid and as sent, names unambiguous), restarts lossless, imports answered and confined to their list |

Several properties are conjunctions of named parts, each with its own comment in the module: a run states
the conjunction. `IInv` is the inductive invariant of the module's proofs.

Where a run says "or", its module chooses at the start which of the objects moves (`moving`); they share
nothing, so nothing is lost by not interleaving them.

Why these bounds are enough for what they look for: every race in this code is between two parties (two
updates, an update and the poll, two handlers of one client, two requests of one account, a handshake and
a refresh), so two of each reach it; a third adds no new pair of steps. The cap of the score tracker is
below the number of IPs and `reset` leaves stale stamps, so eviction meets live and stale ones; the same
holds of challenges. One prune interval fits into the block tracker's horizon with a time on either side.
Two requests of one score and one of another reach the threshold at once, in two, and past it by another
handler. Four random values are a token and what it took to get it, twice, which is what opening two
sessions needs; with three, two requests still both get as far as deleting each other. Five events fill
two batches and leave one over, and overrun a ring of three. Numbers in `admin_config` lie below, at,
between and above both ends of every range. The registrations have keys on either side of each limit of
the code, whose values are not narrowed, and data cut at every cell. Bounds appear as guards named
`Max...` (for ScoreTracker in MCStores' `BoundedNext`); they stop behaviours and never change a step. In the
AdminAuth runs the requests are symmetric (safety properties only), and a scenario restricts what clients
call; together the scenarios take every route. `CHECK_DEADLOCK FALSE` is where a behaviour has used up its
bounds or its process has ended.

Fairness. In ConfigStore the writer thread runs (it blocks only on its condition variable), the poll's
timer is armed again whatever happened, and an `update()` that has begun ends; nothing is assumed of
operators, crashes or new calls. In HttpSession a handler's own steps run, and every `co_await` ends by
its deadline (`Expires`; `expires_after` precedes each of them); clients and origins need never act. The
deadline of name resolution is the operating system's. In RequestLog the writer thread, the destructor
and the timer of a stream run; nobody need record anything. In TlsListener the accept loop and handshakes
in progress run, and an acceptor that is offered a client again and again takes it (strong fairness: the
kernel's queue is first come, first served). That a connection ends is not assumed: a request has a
deadline, a keep-alive connection has none, and its client may hold a descriptor for as long as it likes;
`ListenerKeepsServing` therefore promises a client its turn only if descriptors do not stay used up. In AdminConfig the
resolver answers or gives up and the download's timer fires.

## 4. What the violation runs show

1. `writer_loop` replaces the file and records the mtime in a later step; a poll in between takes the
   store's own older snapshot for an edit and publishes it over a newer one (`config_store.cpp:96`).
2. When `write_to_disk` throws, `writer_loop` has already taken the snapshot out of `pending_write_`; it logs
   and drops it (`config_store.cpp:137`). Nothing tries again: the file stays behind until another update,
   and a restart brings the old configuration back, although `config_store.hpp:45` says that "disk just
   catches up shortly after". What does hold is `WriterKeepsUp`, in which a failed write is final.
3. `handle_webauthn_delete` counts factors on a copy (`admin_server.cpp:747`).

The models also reach states that no run states a property of:

- an edit saved between a load or write and the `last_write_time` after it counts as seen
  (`config_store.cpp:48`, and 136), although `config_store.hpp:47` says hand edits take effect;
- a keep-alive connection waits for its next request with the snapshot it will use for it, so the kill
  switch does not cover that one (`http_session.hpp:190`; `SwitchBitesWithinOneRequest` is what holds);
- stamps of IPs already reset count towards the score tracker's cap (`score_tracker.cpp:17`);
- an exception while a body is read skips the log (`http_session.hpp:336`; `ResponsesAreRecorded` is what
  holds);
- `webauthn_user_handle` gives out a handle whose save failed (`user_store.cpp:240`); `set_totp` sets the
  secret before it hashes the backup codes, which may throw (`user_store.cpp:176`);
- two logins of one passkey in progress at once are both checked against the same counter, and the later
  update may store the lower one (`admin_server.cpp:819`; `CountersRise` says what holds otherwise);
- a DELETE of an IP block takes the temporary block first, also one that has expired and is not swept, and
  leaves the permanent one (`admin_server.cpp:1016`);
- the method check may be on with no method allowed: empty the list while it is off, then turn it on
  (`admin_server.cpp:1541` rules this out within one request only);
- an entry of blanks is accepted by the API and dropped by the next load, although `yaml_codec.cpp:63` says
  that the admin API refuses blank values; imports do trim and skip them;
- a fake route with whitespace at its end is stored as it is (`blacklist_ops.cpp:141` looks at the first
  character only);
- a site may be added with a port in its name (`site_ops.cpp:20` wants "a bare hostname" and refuses blanks and
  slashes), and `resolve_site` cuts the port off a `Host` header and then does not find it; such a site answers
  to its name followed by one more port (`NamesAreUnambiguous`);
- an upload that is cut short by a full disk replaces the database all the same: `out.write` is not checked
  (`admin_server.cpp:1723`);
- a lowered threshold bans an IP whose score lies between it and the old one only at its next offence, and
  a handler with an older snapshot still judges by the old one (`http_session.hpp:131`;
  `ThresholdMeansBan`);
- an edit that falls into the tick of the write before it has the mtime the poll already knows, and is not
  seen (`config_store.cpp:96`; `PollNeverSkipsAnEdit` leaves `twin` writes out);
- a run that appends to a request log whose last row was cut short puts its first row on that line, header or
  not (`request_log.cpp:183`), which makes both unreadable; `OnlyFirstRowsSpoilt` says that this is all;
- while the configuration object is the same, `current()` looks at no file, so a renewed certificate waits
  for the next change of the configuration (`tls_site_contexts.cpp:53`);
- the writer of the request log that could not open its file returns, and the queue grows unread
  (`request_log.cpp:191`).

## 5. Proofs

Each theorem holds for every value of the constants that its hypotheses allow. These are the assumption
named in the module (`...Assumption`: finite widths and caps are positive, sentinels are not values),
which TLC evaluates in every run, or, where a module is one of several in its run, a definition `Bounds`
that the theorem names itself (`ASSUME Bounds PROVE Spec => ...`). `Bounds` says what the code gives: a
cap is positive, a window is an int, the data an authenticator sends carries its credential or is cut
short. TLC checked every inductive invariant on small instances before it was proved.

- **ConfigStoreProofs**: `TypeCorrect`, `DiskOrder`, `ShutdownDrains`, `PollComplete`,
  `UpdatesCumulative`, for any sets of updates and edits. `IInv` adds to the properties that
  `write_mutex_` excludes and its holder's copy is still current (`MutexInv`), that a process not running
  holds nothing (`ProcInv`), that a snapshot not yet attempted is in the slot or in the writer's hands
  (`WriterInv`: without it order could not be told from the numbers alone), and that no recorded mtime is
  ahead of the file and one equal to it means the same content (`PollInv`). One lemma per actor.
  The module also has the proofs of AtomicFile, which the store writes through (under SharedFile's names):
  `FileInvariance`, `FileTypeCorrect`, `NoPartialFile`, `FailureIsClean`, `PermissionsHold` and
  `FileRefinement` to AtomicReplace, for any contents, sizes and modes. What is at `path`, and what a power
  loss would leave there, is complete; the temp file is complete where the code renames it.
- **ScoreTrackerProofs**: `Invariance` (with it sums stay within `int`), `TrackedStamped`, `UniqueStamps`,
  `MemoryBound`, `EvictionOrder`, `ScoresHold`, for any cap. `IInv` is the type, `TrackedIsStamped`,
  `StampsAreUnique` and the queue's length; the map's bound follows because each tracked IP has its own
  place in the queue, an injection whose existence bounds the cardinality. `PushPop` and
  `PushPopOrdered` say what inserting and evicting does to the queue.
- **IpBlockTrackerProofs**: `Invariance`, `UniqueEntries`, `NoPile`, and `Refinement` to BlockList.
  `IInv` adds that no stored or read time is ahead of the clock and that what survives a prune is as fresh
  as it must be.
- **HttpSessionProofs**: `TrackerContract` shows that the handlers' steps are steps of ScoreTracker, so
  `TrackerIsBounded` and the tracker's part of `TypeCorrect` are ScoreTrackerProofs' theorems carried
  over. `Recorded`, `ThresholdBans`, `SwitchBites` and `BanBites` (together
  `RefusalsBite`) rest on what a handler at each `pc` has
  already done (`LogInv`, `SwitchInv`, `BanInv`): a snapshot older than the switch can only be that
  of the request in progress.

- **AdminAuthProofs**: `AuthInvariant`, `OneSessionAlways`, `AdminsRemain`, `FlagNeedsEnrolment`, for any
  number of requests, accounts and random values. What opens a session (a pending login, a backup code, a
  TOTP step, a challenge) is a resource: the invariant says that what has opened one is neither in memory
  nor on disk any more and that no two requests hold the same one between their calls, so that a restart
  or a failed save brings none back.
- **RequestLogProofs**: `LogInvariant`, `ReadInSequence`, and `LogRefinement` to Journal. File, the writer's
  batches, the queue and the pending batch, put one after another, are consecutive numbers of a run, and the
  ring is the end of them; what a stream that is not overrun has yet to send is still in the ring.
  `CutRowsSpoilOne` (`CutInv`): behind a part of a row there is no row of its run, so that the row that joins
  it is the first of a later one.
- **SharedStateProofs**: four stores that handlers use with something read before the lock.
  - ChallengeStore: `ChallengeInvariant`, `ChallengesBounded`, `NewerSurvive`, `ChallengeRefinement`. Every
    entry has its stamp, and the stamps are the last starts in the order they were made, though not in that
    of their deadlines (`Numbered`); what is popped from a full queue is therefore old.
  - RequestRateTracker: `RateInvariant`, `RateCounts`, `IdleSwept`. The times kept are the tail of the
    times seen (`IsTail`), those missing are below the latest cutoff plus lag (`OldAreMissing`), and order
    is lost by no more than the lag (`InOrder`); counting is then an injection of index intervals.
    `IdleSwept` also assumes windows that are positive (`Positive`), as the admin routes ensure; a file
    edited by hand may hold others, with which the sweep's clock does not follow the requests.
  - TlsListener: `TlsInvariant`, `FingerprintHonest`, `SnapshotServed`. One refresher at a time
    (`OneRefresh`), and each file was loaded after its stat and before now (`After`): a version that is
    still the stat's is the one loaded.
  - WebAuthn: `PasskeysInvariant`, `CountersAlwaysRise`, `AsAttested`. The stored counter is an upper bound
    of the accepted ones in memory and in the file (`StoreInv`), and a login in progress was checked
    against the counter still stored (`LoginInv`), unless logins or a removal overlapped on its id. `AsAttested`
    is for ids and extensions of any length, any flags and any set of keys that OpenSSL refuses: the offsets of
    `parse_authenticator_data` meet those of the data, and no stored key fails a login.

- **AdminConfigProofs**: `AdminInvariance`, `ConfigStaysUsable`, `RestartReadsBack` and
  `ListsFollowRequests`, for any requests and any width of `int`. `IInv` says of
  the configuration, part by part, more than the properties do: sites have names in lower case and no
  two the same, ports included (`GoodSites`: `add_site` compares with `iequals`, the codec and `resolve_site` with what is
  stored), entries are in the vector their shape belongs to (`UsableLists`), every number is in its route's
  range and every key of the settings is there (`GoodSettings`), status codes differ (`GoodPages`). Each is
  what the round trip through the codec needs: `read_sites` passes over sites without a name and lowers the rest,
  `read_lists` sorts addresses from ranges, a setting that is missing gets its default (`ReadBack`).
  One lemma per mutator says that it keeps its part, one per action that it does nothing else
  (`...Step`); each of the latter also gives `ListsFollow`, the action behind `ListsChangeByRequest`.
  Assumed are: `RuntimeConfigAssumption`, an `int` with negative and positive values in which ports and
  hours fit; `ScenarioAssumption`, requests that name the lists, texts, domains and routes there are, with
  numbers for numbers.

Where a proof needs the least element of a set of numbers (the first time a trim keeps), it is a lemma
(`LeastNat`) from the well-foundedness of `<`.

Only model-checked: liveness (`WriterKeepsUp`, `EveryRequestEnds`, `NoLostWakeup`,
`StreamCatchesUp`, `ListenerKeepsServing`, `ImportIsAnswered`), which needs fairness and
ENABLED and is out of this prover's reach; which trees of
CBOR items pass `parse_cbor`, whose levels are a recursive function: the proofs use that the stored key is
the one that passed and not what passing means; the violations.

## 6. Not modelled

`PROJECT.json` gives the reason for each component. In short: bytes (YAML and JSON text, HTTP framing and
pipelining, base64, CSV quoting), cryptography, pattern matching, path resolution, the GeoIP databases,
the JSON views, the login history (a ring that one view reads) and the browser. Their results are inputs
of the models. So is which addresses `fetch_url` denies (`is_disallowed_address`): a resolved name either has
an address to connect to or has not; the ranges themselves are a table that no model would add to. The
header line of the CSV file is left out. The globe server has no state: its accept loop is TlsListener's, its stream RequestLog's,
its snapshot a view. Of the program's start, the poll loop is in ConfigStore; the one-time lookup of the
server's location sets one value that only views read.

## 7. Plan

Every safety invariant and every action property that a run checks is a theorem. Should more of the
system be wanted: robots.txt groups and `resolve_static_path` as operators against a reference.
