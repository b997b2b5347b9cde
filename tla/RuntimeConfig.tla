---------------------------- MODULE RuntimeConfig ----------------------------
(***************************************************************************)
(* The configuration and the mutators the admin routes pass to             *)
(* ConfigStore::update: config/runtime_config.hpp, config/blacklist_ops.cpp,*)
(* config/site_ops.cpp, config/status_page_ops.cpp, the field rules of the *)
(* handlers in admin/admin_server.cpp, and resolve_site of                 *)
(* config/site_lookup.cpp.                                                 *)
(*                                                                         *)
(* A text is its shape: what kind of text it is and where whitespace       *)
(* surrounds it.  A JSON number counts halves, so that fractions happen.   *)
(* Time stamps, authors and the added/skipped counts are left out.         *)
(***************************************************************************)
EXTENDS Integers, Sequences, FiniteSets

CONSTANTS
  IntMin, IntMax,   \* the range of int, narrowed
  PortMax,          \* 65535, narrowed below IntMax
  MaxBanHours,      \* kMaxBanDurationHours, narrowed below IntMax
  MaxLat,           \* 90 and 180, narrowed
  MaxLon,
  CodeMin, CodeMax  \* 100 and 599, narrowed

ASSUME RuntimeConfigAssumption ==
  /\ IntMin \in Int /\ IntMin < 0 /\ IntMax \in Nat
  /\ PortMax \in 1 .. IntMax - 1
  /\ MaxBanHours \in 1 .. IntMax
  /\ MaxLat \in Nat /\ MaxLon \in Nat
  /\ CodeMin \in Int /\ CodeMax \in Int

-----------------------------------------------------------------------------
(* Texts and entry lists *)

Kinds == {"empty", "blank", "comment", "ip", "cidr", "path", "word"}

\* Whether a text begins with whitespace, or only ends with it.
Pads == {"none", "front", "back"}

\* "empty" and "blank" have nothing for whitespace to surround.
Texts == {t \in [kind : Kinds, pad : Pads] :
            t.kind \in {"empty", "blank"} => t.pad = "none"}

Empty == [kind |-> "empty", pad |-> "none"]

is_blank(t) == t.kind \in {"empty", "blank"}

HasSlash(t) == t.kind \in {"cidr", "path"}

make_address(t) == t.kind = "ip" /\ t.pad = "none"

parse_cidr(t) == t.kind = "cidr" /\ t.pad = "none"

Trim(t) == IF is_blank(t) THEN Empty ELSE [t EXCEPT !.pad = "none"]

IpLists == {"blacklist.ips", "whitelist.ips"}

EntryLists ==
  {"blacklist.routes", "blacklist.countries", "blacklist.isps",
   "blacklist.user_agents", "blacklist.referrers", "blacklist.body_patterns",
   "blacklist.fake_routes", "whitelist.routes"}

ListNames == IpLists \cup EntryLists

\* ip_exact and ip_cidrs are two vectors of one list.
Vectors == (IpLists \X {"exact", "cidr"}) \cup (EntryLists \X {"entries"})

list_for(list, t) ==
  <<list, CASE list \notin IpLists -> "entries"
            [] list \in IpLists /\ HasSlash(t) -> "cidr"
            [] OTHER -> "exact">>

\* mutant: whatever is not empty is added
AdmitsNonEmpty(list, t) == t # Empty

\* What add_ip_to, add_blacklist_entry, add_whitelist_entry and
\* add_whitelist_route_entry throw on, negated.  A text of nothing but
\* whitespace is not empty, and of a fake route the first character counts.
Admits(list, t) ==
  /\ t # Empty
  /\ list \in IpLists => IF HasSlash(t) THEN parse_cidr(t) ELSE make_address(t)
  /\ list = "blacklist.fake_routes" => t.kind = "path" /\ t.pad # "front"

add_entries(lists, list, entries) ==
  [v \in Vectors |-> lists[v] \cup {t \in entries : list_for(list, t) = v}]

\* Every vector of the list is searched: the text alone does not say which
\* one it is in.
remove_entry(lists, list, t) ==
  [v \in Vectors |-> IF v[1] = list THEN lists[v] \ {t} ELSE lists[v]]

clear_list(lists, list) ==
  [v \in Vectors |-> IF v[1] = list THEN {} ELSE lists[v]]

\* for_each_list_line: the lines that are left to add.
ListLines(body) ==
  {t \in {Trim(line) : line \in body} : t # Empty /\ t.kind # "comment"}

\* mutant: the lines take the place of what was there
import_over(lists, list, body) ==
  add_entries(clear_list(lists, list), list, {t \in ListLines(body) : Admits(list, t)})

\* A line that cannot be added is skipped, the others are added.
import_entries(lists, list, body) ==
  add_entries(lists, list, {t \in ListLines(body) : Admits(list, t)})

-----------------------------------------------------------------------------
(* JSON values and the fields they may set *)

Json == [type |-> "null", num |-> 0, flag |-> FALSE, text |-> "", names |-> {}]
Num(halves) == [Json EXCEPT !.type = "number", !.num = halves]
Flag(b)     == [Json EXCEPT !.type = "bool", !.flag = b]
Str(s)      == [Json EXCEPT !.type = "string", !.text = s]
Strings(S)  == [Json EXCEPT !.type = "array", !.names = S]
\* {name: n/2} for each of the names
Scores(S, halves) == [Json EXCEPT !.type = "object", !.names = S, !.num = halves]

\* Truncation toward zero within the range of int, the range's end outside.
saturating_to_int(halves) ==
  CASE halves <= 2 * IntMin -> IntMin
    [] halves >= 2 * IntMax -> IntMax
    [] halves \in 0 .. 2 * IntMax - 1 -> halves \div 2
    [] OTHER -> 0 - ((0 - halves) \div 2)

PortFields == {"globe.public_port", "site.upstream_port"}

PositiveFields ==
  {"ban.threshold", "speed_check.max_requests", "speed_check.window_seconds",
   "globe.history_size"}

NumberFields ==
  PortFields \cup PositiveFields \cup {"ban.ban_duration_hours", "body_size.max_bytes"}

CoordinateFields == {"globe.server_lat", "globe.server_lon"}

FlagFields ==
  {"ban.enabled", "speed_check.enabled", "method_check.enabled",
   "emergency_off.enabled", "request_log.enabled", "globe.public_enabled",
   "globe.auto_detect_server_location", "site.enabled", "security.require_2fa"}

TextFields ==
  {"pages.blocked_html", "pages.banned_html", "request_log.csv_path",
   "robots_txt.custom_content", "geoip.mmdb_path", "geoip.asn_mmdb_path",
   "globe.public_bind", "globe.public_tls_cert_file", "globe.public_tls_key_file",
   "site.cert_file", "site.key_file", "site.upstream_host"}

\* The fields each route reads from the body.
FieldsOf(route) ==
  CASE route = "ban-config" ->
         {"ban.enabled", "ban.threshold", "ban.ban_duration_hours", "ban.scores"}
    [] route = "speed-check" ->
         {"speed_check.enabled", "speed_check.max_requests", "speed_check.window_seconds"}
    [] route = "method-check" ->
         {"method_check.enabled", "method_check.allowed_methods"}
    [] route = "emergency-off" -> {"emergency_off.enabled"}
    [] route = "pages" -> {"pages.blocked_html", "pages.banned_html"}
    [] route = "request-log-config" -> {"request_log.enabled", "request_log.csv_path"}
    [] route = "robots-txt" -> {"robots_txt.custom_content"}
    [] route = "body-size-limit" -> {"body_size.max_bytes"}
    [] route = "geoip-config" -> {"geoip.mmdb_path", "geoip.asn_mmdb_path"}
    [] route = "security-config" -> {"security.require_2fa"}
    [] route = "globe-config" ->
         {"globe.public_enabled", "globe.public_bind", "globe.public_port",
          "globe.public_tls_cert_file", "globe.public_tls_key_file",
          "globe.server_lat", "globe.server_lon",
          "globe.auto_detect_server_location", "globe.history_size"}
    [] route = "sites" ->
         {"site.enabled", "site.cert_file", "site.key_file",
          "site.upstream_host", "site.upstream_port"}

SettingRoutes ==
  {"ban-config", "speed-check", "method-check", "emergency-off", "pages",
   "request-log-config", "robots-txt", "body-size-limit", "geoip-config",
   "security-config", "globe-config"}

\* A field of another type than the handler looks for is passed over.
TypeTaken(f) ==
  CASE f \in FlagFields -> {"bool"}
    [] f \in NumberFields -> {"number"}
    [] f \in TextFields -> {"string"}
    [] f \in CoordinateFields -> {"number", "null"}
    [] f = "ban.scores" -> {"object"}
    [] f = "method_check.allowed_methods" -> {"array"}

Taken(route, patch) ==
  {f \in FieldsOf(route) \cap DOMAIN patch : patch[f].type \in TypeTaken(f)}

RangeOf(f) ==
  CASE f \in PortFields -> 1 .. PortMax
    [] f = "ban.ban_duration_hours" -> 1 .. MaxBanHours
    [] f = "body_size.max_bytes" -> 0 .. IntMax
    [] f \in PositiveFields -> 1 .. IntMax
    [] f = "globe.server_lat" -> (0 - 2 * MaxLat) .. 2 * MaxLat
    [] f = "globe.server_lon" -> (0 - 2 * MaxLon) .. 2 * MaxLon

\* What the field holds after it took a value: a port is an unsigned short, a
\* coordinate may be unset, scores are added to the map.
Stored(f, json, old) ==
  CASE f \in FlagFields -> json.flag
    [] f \in TextFields -> json.text
    [] f \in PortFields -> saturating_to_int(json.num) % (PortMax + 1)
    [] f \in NumberFields \ PortFields -> saturating_to_int(json.num)
    [] f \in CoordinateFields -> IF json.type = "null" THEN {} ELSE {json.num}
    [] f = "method_check.allowed_methods" -> json.names
    [] f = "ban.scores" ->
         [n \in DOMAIN old \cup json.names |->
            IF n \in json.names THEN saturating_to_int(json.num) ELSE old[n]]

\* The copy after the mutator: every field the body names, in one go.
Patched(old, route, patch) ==
  [f \in DOMAIN old |->
     IF f \in Taken(route, patch) THEN Stored(f, patch[f], old[f]) ELSE old[f]]

\* The range checks of the handlers.  handle_method_check_update looks at
\* `enabled` after it took it from the same body.
Accepts(new, f, json) ==
  CASE f \in NumberFields -> saturating_to_int(json.num) \in RangeOf(f)
    [] f \in CoordinateFields -> json.type = "null" \/ json.num \in RangeOf(f)
    [] f = "method_check.allowed_methods" ->
         ~(new["method_check.enabled"] /\ json.names = {})
    [] OTHER -> TRUE

Refused(old, route, patch) ==
  \E f \in Taken(route, patch) : ~Accepts(Patched(old, route, patch), f, patch[f])

\* The routes that want something in the body to change.
Incomplete(route, patch) ==
  /\ route \in {"emergency-off", "body-size-limit", "geoip-config"}
  /\ Taken(route, patch) = {}

-----------------------------------------------------------------------------
(* Sites *)

\* "none" is the empty name, "separated" one with a space, a tab or a slash in it.
DomainNames == {"none", "separated", "x", "y"}

\* A domain as an admin types it, with up to two ":<digits>" at its end.
Domains == [name : DomainNames, upper : BOOLEAN, ports : 0 .. 2]

to_lower(domain) == [domain EXCEPT !.upper = FALSE]

iequals(a, b) == to_lower(a) = to_lower(b)

EmptyDomain(domain) == domain.name = "none" /\ domain.ports = 0

\* What add_site accepts as one.  A port is no objection, not even on its own.
BareHostname(domain) == ~EmptyDomain(domain) /\ domain.name # "separated"

\* The index of the first site of that name, 0 if there is none.
find_site(sites, domain) ==
  LET named == {i \in DOMAIN sites : iequals(sites[i].domain, domain)}
  IN  IF named = {} THEN 0
      ELSE CHOOSE i \in named : \A j \in named : i <= j

\* SiteConfig's defaults; create overwrites host and port.
NewSite ==
  [f \in FieldsOf("sites") |->
     CASE f = "site.enabled" -> TRUE [] f = "site.upstream_port" -> 1 [] OTHER -> ""]

DomainTaken(sites, domain) == find_site(sites, to_lower(domain)) # 0

add_site(sites, domain, patch) ==
  Append(sites, [domain |-> to_lower(domain),
                 fields |-> Patched(NewSite, "sites", patch)])

update_site(sites, i, patch) ==
  [sites EXCEPT ![i].fields = Patched(@, "sites", patch)]

RemoveAt(seq, i) == SubSeq(seq, 1, i - 1) \o SubSeq(seq, i + 1, Len(seq))

\* A port at the end of a host is cut off, one.
strip_port(host) == IF host.ports = 0 THEN host ELSE [host EXCEPT !.ports = @ - 1]

\* Which site, by index, answers for a Host header; 0 is the default upstream.
\* The names are compared without case.
resolve_site(sites, host) == find_site(sites, strip_port(host))

-----------------------------------------------------------------------------
(* Status pages *)

find_status_page(pages, code) ==
  LET coded == {i \in DOMAIN pages : pages[i].code = code}
  IN  IF coded = {} THEN 0
      ELSE CHOOSE i \in coded : \A j \in coded : i <= j

\* What add_status_page throws on, negated.
PageAdmitted(pages, code) ==
  code \in CodeMin .. CodeMax /\ find_status_page(pages, code) = 0

add_status_page(pages, code, html) == Append(pages, [code |-> code, html |-> html])

update_status_page(pages, i, html) == [pages EXCEPT ![i].html = html]
=============================================================================
