----------------------------- MODULE AdminConfig -----------------------------
(***************************************************************************)
(* The admin routes that change the configuration: the handlers of         *)
(* admin/admin_server.cpp from handle_ip_block_mutation to                 *)
(* handle_globe_config_update and their branches of route().               *)
(*                                                                         *)
(* A handler runs one ConfigStore::update, which copies, mutates and       *)
(* publishes under a mutex (module ConfigStore), so it is one step here; a *)
(* mutator that throws publishes nothing.  The import-url routes wait for  *)
(* a download first.  The file is written by another thread; a restart is  *)
(* after that thread has drained.                                          *)
(***************************************************************************)
EXTENDS YamlCodec, UrlFetch

CONSTANTS
  Scenarios,   \* the requests of a behaviour: see Scenario
  MaxSites,    \* bounds on the sites and pages a behaviour adds
  MaxPages

VARIABLES
  config,      \* what ConfigStore::get() returns
  temp,        \* IpBlockTracker: the temporary blocks, by text
  importing,   \* the list each import-url request is for
  last,        \* the request answered last and whether the answer was 200
  scenario     \* the requests of this behaviour, chosen at its start

vars == <<config, temp, importing, last, scenario, fetch>>

\* A scenario has the lists, texts, import bodies and durations (in half hours)
\* of its requests, the domains and status codes (in halves) they name, and the
\* JSON bodies of the other routes; what it leaves empty is not called.
ASSUME ScenarioAssumption ==
  \A s \in Scenarios :
    /\ s.lists \subseteq ListNames
    /\ s.texts \subseteq Texts
    /\ s.bodies \subseteq SUBSET Texts
    /\ s.hours \subseteq Int /\ s.codes \subseteq Int
    /\ s.domains \subseteq Domains
    /\ \A body \in s.patches :
         /\ body.route \in SettingRoutes \cup {"sites"}
         /\ \A f \in DOMAIN body.patch : body.patch[f].num \in Int

NoRequest == [op |-> "none", list |-> "none", text |-> Empty, ok |-> FALSE,
              patch |-> <<>>]

Answer(op, list, text, ok) ==
  last' = [NoRequest EXCEPT !.op = op, !.list = list, !.text = text, !.ok = ok]

Init ==
  /\ config = DefaultConfig
  /\ temp = [t \in Texts |-> "none"]
  /\ fetch = [r \in Fetches |-> NoFetch]
  /\ importing = [r \in Fetches |-> "none"]
  /\ last = NoRequest
  /\ scenario \in Scenarios

-----------------------------------------------------------------------------
(* Entries of the lists *)

others == <<temp, importing, scenario, fetch>>

Publish(lists) == config' = [config EXCEPT !.lists = lists]

AddEntry(list, t) ==
  /\ IF Admits(list, t)
     THEN Publish(add_entries(config.lists, list, {t}))
     ELSE UNCHANGED config
  /\ Answer("add", list, t, Admits(list, t))
  /\ UNCHANGED others

RemoveEntry(list, t) ==
  /\ Publish(remove_entry(config.lists, list, t))
  /\ Answer("remove", list, t, TRUE)
  /\ UNCHANGED others

ClearList(list) ==
  /\ Publish(clear_list(config.lists, list))
  /\ Answer("clear", list, Empty, TRUE)
  /\ UNCHANGED others

ImportFile(list, body) ==
  /\ Publish(import_entries(config.lists, list, body))
  /\ Answer("import", list, Empty, TRUE)
  /\ UNCHANGED others

-----------------------------------------------------------------------------
(* IP blocks: permanent in the configuration, temporary in IpBlockTracker.  *)

IpList == "blacklist.ips"

\* list_active() forgets what has expired; the answer lists what is left.
Pruned(blocks) == [t \in Texts |-> IF blocks[t] = "expired" THEN "none" ELSE blocks[t]]

\* build_temporary_block throws on what is no address and no range.
AddTemporary(t) ==
  /\ temp' = IF Admits(IpList, t) THEN Pruned([temp EXCEPT ![t] = "active"]) ELSE temp
  /\ UNCHANGED config
  /\ Answer("temporary", IpList, t, Admits(IpList, t))

AddPermanent(t) ==
  /\ temp' = IF Admits(IpList, t) THEN Pruned(temp) ELSE temp
  /\ IF Admits(IpList, t)
     THEN Publish(add_entries(config.lists, IpList, {t}))
     ELSE UNCHANGED config
  /\ Answer("add", IpList, t, Admits(IpList, t))

\* `halves` is duration_hours, 0 if the body has none.
AddIpBlock(t, halves) ==
  LET hours == saturating_to_int(halves)
  IN  /\ \/ hours > MaxBanHours /\ Answer("temporary", IpList, t, FALSE)
                                /\ UNCHANGED <<config, temp>>
         \/ hours \in 1 .. MaxBanHours /\ AddTemporary(t)
         \/ hours < 1 /\ AddPermanent(t)
      /\ UNCHANGED <<importing, scenario, fetch>>

\* A temporary block, also one that has expired and is not yet forgotten, is
\* removed instead of the permanent one.
RemoveIpBlock(t) ==
  /\ IF temp[t] # "none"
     THEN UNCHANGED config
     ELSE Publish(remove_entry(config.lists, IpList, t))
  /\ temp' = Pruned([temp EXCEPT ![t] = "none"])
  /\ Answer("remove", IpList, t, TRUE)
  /\ UNCHANGED <<importing, scenario, fetch>>

\* A score ban of run_http_session.
ScoreBan(t) ==
  /\ make_address(t)
  /\ temp' = [temp EXCEPT ![t] = "active"]
  /\ UNCHANGED <<config, importing, last, scenario, fetch>>

Expire(t) ==
  /\ temp[t] = "active"
  /\ temp' = [temp EXCEPT ![t] = "expired"]
  /\ UNCHANGED <<config, importing, last, scenario, fetch>>

\* GET /api/ip-blocks, and the sweep that IpBlockTracker::add makes.
Prune ==
  /\ temp' = Pruned(temp)
  /\ UNCHANGED <<config, importing, last, scenario, fetch>>

-----------------------------------------------------------------------------
(* Imports from a URL *)

ImportUrl(r, list, https) ==
  /\ fetch[r].at = "idle"
  /\ StartFetch(r, https)
  /\ importing' = [importing EXCEPT ![r] = list]
  /\ UNCHANGED <<config, temp, last, scenario>>

\* The download is over: the handler resumes, and answers in the same step.
ImportFailed(r) ==
  /\ ResolveFails(r) \/ PeerFails(r) \/ TimerFires(r)
  /\ importing' = [importing EXCEPT ![r] = "none"]
  /\ Answer("import", importing[r], Empty, FALSE)
  /\ UNCHANGED <<config, temp, scenario>>

\* apply_blacklist_import and its two whitelist fellows.
ApplyImport(r, body) ==
  /\ Publish(import_entries(config.lists, importing[r], body))
  /\ importing' = [importing EXCEPT ![r] = "none"]
  /\ Answer("import", importing[r], Empty, TRUE)
  /\ EndFetch(r)
  /\ UNCHANGED <<temp, scenario>>

ImportFetched(r) ==
  \/ FetchedPlain(r) /\ \E body \in scenario.bodies : ApplyImport(r, body)
  \/ FetchedTls(r) /\ ApplyImport(r, fetch[r].body)

FetchStep(r) ==
  /\ \/ Resolved(r) \/ Advance(r) \/ ReadError(r)
     \/ \E body \in scenario.bodies : ReadBody(r, body)
  /\ UNCHANGED <<config, temp, importing, last, scenario>>

-----------------------------------------------------------------------------
(* Settings *)

\* The whole body is applied to the copy, or the copy is thrown away.
UpdateSettings(route, patch) ==
  LET ok == ~Incomplete(route, patch) /\ ~Refused(config.settings, route, patch)
  IN  /\ IF ok
         THEN config' = [config EXCEPT !.settings = Patched(@, route, patch)]
         ELSE UNCHANGED config
      /\ last' = [NoRequest EXCEPT !.op = "settings", !.list = route,
                                   !.ok = ok, !.patch = patch]
      /\ UNCHANGED others

\* handle_mmdb_upload.  An empty upload, a file that cannot be opened and a rename
\* that throws change nothing; that out.write fails is not noticed, and what is
\* left of the file takes its place and is announced all the same.
Upload(f, outcome) ==
  LET ok == outcome \in {"written", "cut short"}
  IN  /\ IF ok THEN config' = [config EXCEPT !.settings[f] = "uploaded"] ELSE UNCHANGED config
      /\ Answer("upload", f, Empty, ok)
      /\ UNCHANGED others

-----------------------------------------------------------------------------
(* Sites and status pages *)

SiteBody(patch) == {"site.upstream_host", "site.upstream_port"} \subseteq Taken("sites", patch)

CreateSite(domain, patch) ==
  LET ok == /\ SiteBody(patch)
            /\ ~Refused(NewSite, "sites", patch)
            /\ BareHostname(domain)
            /\ ~DomainTaken(config.sites, domain)
  IN  /\ IF ok
         THEN config' = [config EXCEPT !.sites = add_site(@, domain, patch)]
         ELSE UNCHANGED config
      /\ Answer("site", "create", Empty, ok)
      /\ UNCHANGED others

UpdateSite(domain, patch) ==
  LET i  == find_site(config.sites, domain)
      ok == i # 0 /\ ~Refused(NewSite, "sites", patch)
  IN  /\ IF ok
         THEN config' = [config EXCEPT !.sites = update_site(@, i, patch)]
         ELSE UNCHANGED config
      /\ Answer("site", "update", Empty, ok)
      /\ UNCHANGED others

DeleteSite(domain) ==
  LET i == find_site(config.sites, domain)
  IN  /\ IF i # 0
         THEN config' = [config EXCEPT !.sites = RemoveAt(@, i)]
         ELSE UNCHANGED config
      /\ Answer("site", "delete", Empty, i # 0)
      /\ UNCHANGED others

AddStatusPage(halves, html) ==
  LET code == saturating_to_int(halves)
      ok   == PageAdmitted(config.pages, code)
  IN  /\ IF ok
         THEN config' = [config EXCEPT !.pages = add_status_page(@, code, html)]
         ELSE UNCHANGED config
      /\ Answer("page", "add", Empty, ok)
      /\ UNCHANGED others

\* The code is a part of the path, parsed by from_chars, and is not checked
\* against the range: there is no page outside it.
UpdateStatusPage(code, html) ==
  LET i == find_status_page(config.pages, code)
  IN  /\ IF i # 0
         THEN config' = [config EXCEPT !.pages = update_status_page(@, i, html)]
         ELSE UNCHANGED config
      /\ Answer("page", "update", Empty, i # 0)
      /\ UNCHANGED others

DeleteStatusPage(code) ==
  LET i == find_status_page(config.pages, code)
  IN  /\ IF i # 0
         THEN config' = [config EXCEPT !.pages = RemoveAt(@, i)]
         ELSE UNCHANGED config
      /\ Answer("page", "delete", Empty, i # 0)
      /\ UNCHANGED others

-----------------------------------------------------------------------------
\* A body that is not the JSON object the handler expects, an unknown category,
\* a code that is no number, a URL that parse_url refuses.
Malformed ==
  /\ Answer("malformed", "none", Empty, FALSE)
  /\ UNCHANGED <<config, others>>

\* The destructor of ConfigStore has written the last snapshot; the next start
\* loads it.  Temporary blocks and requests in progress are gone.
Restart ==
  /\ config' = parse_yaml_config(to_yaml_config(config))
  /\ temp' = [t \in Texts |-> "none"]
  /\ fetch' = [r \in Fetches |-> NoFetch]
  /\ importing' = [r \in Fetches |-> "none"]
  /\ last' = [NoRequest EXCEPT !.op = "restart"]
  /\ UNCHANGED scenario

EntryRequest ==
  \E list \in scenario.lists :
    \/ ClearList(list)
    \/ \E body \in scenario.bodies : ImportFile(list, body)
    \/ \E t \in scenario.texts :
         \/ list # IpList /\ (AddEntry(list, t) \/ RemoveEntry(list, t))
         \/ list = IpList /\ RemoveIpBlock(t)
         \/ list = IpList /\ \E halves \in scenario.hours : AddIpBlock(t, halves)
    \/ \E r \in Fetches, https \in BOOLEAN : ImportUrl(r, list, https)

BlockStep == \/ \E t \in scenario.texts : IpList \in scenario.lists /\ (ScoreBan(t) \/ Expire(t))
             \/ Prune

SettingsRequest ==
  \E body \in scenario.patches :
    \/ body.route # "sites" /\ UpdateSettings(body.route, body.patch)
    \/ body.route = "geoip-config"
       /\ \E f \in FieldsOf("geoip-config"), outcome \in {"written", "cut short", "failed"} :
            Upload(f, outcome)
    \/ body.route = "sites" /\ \E domain \in scenario.domains :
         \/ Len(config.sites) < MaxSites /\ CreateSite(domain, body.patch)
         \/ UpdateSite(domain, body.patch)

NameRequest ==
  \/ \E domain \in scenario.domains : DeleteSite(domain)
  \/ \E halves \in scenario.codes, html \in {"h1", "h2"} :
       \/ Len(config.pages) < MaxPages /\ AddStatusPage(halves, html)
       \/ UpdateStatusPage(halves \div 2, html)
  \/ \E halves \in scenario.codes : DeleteStatusPage(halves \div 2)

FetchEnds(r) == ImportFailed(r) \/ ImportFetched(r)

Next ==
  \/ EntryRequest \/ BlockStep \/ SettingsRequest \/ NameRequest
  \/ Malformed \/ Restart
  \/ \E r \in Fetches : FetchStep(r) \/ FetchEnds(r)

\* The resolver answers or gives up.
ResolverAnswers(r) == /\ fetch[r].at = "resolve"
                      /\ FetchStep(r) \/ ImportFailed(r)

\* The timer of beast::tcp_stream, set once before the connection: whatever the
\* peer does, a stage ends.
TimerEnds(r) ==
  \/ /\ TimerFires(r)
     /\ importing' = [importing EXCEPT ![r] = "none"]
     /\ Answer("import", importing[r], Empty, FALSE)
     /\ UNCHANGED <<config, temp, scenario>>
  \/ ReadError(r) /\ UNCHANGED <<config, temp, importing, last, scenario>>
  \/ FetchedTls(r) /\ ApplyImport(r, fetch[r].body)

Spec ==
  /\ Init /\ [][Next]_vars
  /\ \A r \in Fetches : WF_vars(ResolverAnswers(r)) /\ WF_vars(TimerEnds(r))

-----------------------------------------------------------------------------
Config ==
  [lists : [Vectors -> SUBSET Texts],
   sites : Seq([domain : Domains, fields : {config.sites[i].fields : i \in DOMAIN config.sites}]),
   pages : Seq([code : Int, html : {"h1", "h2"}]),
   settings : {[f \in Settings |-> config.settings[f]]}]

Fetch == [at : Timed \cup {"idle", "resolve"}, https : BOOLEAN, ok : BOOLEAN,
          body : SUBSET Texts]

\* The values of a setting and of a site's fields are of several types; those
\* a property speaks of are in StoredNumbersAreValid.
TypeOK ==
  /\ config \in Config
  /\ \A i \in DOMAIN config.sites : DOMAIN config.sites[i].fields = FieldsOf("sites")
  /\ temp \in [Texts -> {"none", "active", "expired"}]
  /\ importing \in [Fetches -> ListNames \cup {"none"}]
  /\ fetch \in [Fetches -> Fetch]
  /\ \A r \in Fetches : fetch[r].at = "idle" <=> importing[r] = "none"
  /\ scenario \in Scenarios

UsableEntry(v, t) ==
  /\ t.kind # "empty"
  /\ v[2] = "exact" => t = [kind |-> "ip", pad |-> "none"]
  /\ v[2] = "cidr" => t = [kind |-> "cidr", pad |-> "none"]
  /\ v[1] = "blacklist.fake_routes" => t.kind = "path" /\ t.pad # "front"

\* Whatever way an entry came in - a request, a file, a URL, a restart - it is
\* where its check looks for it and of the form that check reads: addresses in
\* ip_exact, ranges in ip_cidrs, texts that begin with '/' in fake_routes,
\* nothing empty.  Entries of nothing but whitespace do get in by a request:
\* the add routes look for an empty text only.
EntriesAreUsable == \A v \in Vectors : \A t \in config.lists[v] : UsableEntry(v, t)

\* A restart brings back the configuration the admin left, field by field:
\* to_yaml_config writes all of it and parse_yaml_config reads all of it back.
\* Only entries of nothing but whitespace are gone.
RestartKeepsConfig ==
  parse_yaml_config(to_yaml_config(config)) =
    [config EXCEPT !.lists = [v \in Vectors |-> {t \in @[v] : t.kind # "blank"}]]

ListsFollow ==
  \A v \in Vectors :
    /\ \A t \in config.lists[v] \ config'.lists[v] :
         \/ last'.op = "remove" /\ last'.list = v[1] /\ last'.text = t
         \/ last'.op = "clear" /\ last'.list = v[1]
         \/ last'.op = "restart" /\ t.kind = "blank"
    /\ \/ config'.lists[v] \subseteq config.lists[v]
       \/ last'.op \in {"add", "import"} /\ last'.list = v[1] /\ last'.ok

\* An entry leaves a list only by a request that names it or clears the list
\* (a blank one also by a restart), and enters one only by a request for that
\* list: an import that waited for its download takes nothing else along.
ListsChangeByRequest == [][ListsFollow]_vars

\* No sequence of updates and restarts leaves a number outside the range the
\* code that uses it relies on: ports, ban durations, coordinates, status codes.
StoredNumbersAreValid ==
  /\ \A f \in NumberFields \cap Settings : config.settings[f] \in RangeOf(f)
  /\ \A f \in CoordinateFields : config.settings[f] \subseteq RangeOf(f)
  /\ \A i \in DOMAIN config.sites :
       config.sites[i].fields["site.upstream_port"] \in 1 .. PortMax
  /\ \A i \in DOMAIN config.pages : config.pages[i].code \in CodeMin .. CodeMax

\* A number that was answered with 200 is the one that was sent, cut to an int:
\* none that is too large for int or for a port comes back as a small one.
NumbersAreTheOnesSent ==
  last.op = "settings" /\ last.ok =>
    \A f \in Taken(last.list, last.patch) \cap NumberFields :
      LET sent == last.patch[f].num
          kept == config.settings[f]
      IN  \/ sent - 2 * kept \in {0 - 1, 0, 1}
          \/ kept = IntMax /\ sent > 2 * IntMax

\* The sites have host names in lower case.  Each answers to its name followed by
\* a port, and if the name has none of its own also to the name alone, however
\* the client writes it, and no other site does.  (A site that was added with a
\* port does not answer to its own name.)  No two pages are for one status code.
NamesAreUnambiguous ==
  /\ \A i \in DOMAIN config.sites :
       BareHostname(config.sites[i].domain) /\ ~config.sites[i].domain.upper
  /\ \A i \in DOMAIN config.sites : \A upper \in BOOLEAN :
       LET host == [config.sites[i].domain EXCEPT !.upper = upper]
       IN  /\ resolve_site(config.sites, [host EXCEPT !.ports = @ + 1]) = i
           /\ host.ports = 0 => resolve_site(config.sites, host) = i
  /\ \A i, j \in DOMAIN config.pages :
       config.pages[i].code = config.pages[j].code => i = j

\* What the checks find in the configuration is what they rely on, and what the
\* admin was told is there, after every sequence of requests and restarts.
ConfigIsUsable ==
  TypeOK /\ EntriesAreUsable /\ StoredNumbersAreValid /\ NumbersAreTheOnesSent /\ NamesAreUnambiguous

\* Every import from a URL is answered, whatever the other end does: the timer
\* covers every stage after the name is resolved.
ImportIsAnswered ==
  \A r \in Fetches : fetch[r].at # "idle" ~> fetch[r].at = "idle"
=============================================================================
