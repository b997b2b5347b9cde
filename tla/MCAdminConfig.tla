---------------------------- MODULE MCAdminConfig ----------------------------
(***************************************************************************)
(* A behaviour makes the requests of one scenario, so that the states of   *)
(* unrelated settings add up and do not multiply.                          *)
(***************************************************************************)
EXTENDS AdminConfig

CONSTANT r1

MCIntMin == 0 - 4

Text(kind, pad) == [kind |-> kind, pad |-> pad]

Nothing == [lists |-> {}, texts |-> {}, bodies |-> {}, hours |-> {},
            domains |-> {}, codes |-> {}, patches |-> {}]

\* A list file with everything a line can be.
Bodies == {{Text(kind, "front") : kind \in Kinds \ {"empty", "blank"}}
             \cup {Text("blank", "none"), Text("word", "back")}}

\* Two lists, for what must not spill over.
ListScenario(lists, texts) ==
  [Nothing EXCEPT !.lists = lists, !.texts = texts, !.bodies = Bodies]

IpScenario ==
  [Nothing EXCEPT !.lists = {"blacklist.ips"}, !.bodies = Bodies,
     !.texts = {Text("ip", "none"), Text("cidr", "none"), Text("word", "front")},
     !.hours = {0, 2, 7, 20, 0 - 20}]

\* Numbers below, at, between and above the ends of every range in use.
Numbers == {0 - 20, 0 - 1, 0, 1, 2, 5, 6, 7, 8, 10, 20, 22}

One(f, json) == [g \in {f} |-> json]
Two(f, jf, g, jg) == [h \in {f, g} |-> IF h = f THEN jf ELSE jg]

NumberPatches(route) == {One(f, Num(n)) : f \in FieldsOf(route) \cap NumberFields, n \in Numbers}
FlagPatches(route) == {One(f, Flag(b)) : f \in FieldsOf(route) \cap FlagFields, b \in BOOLEAN}
TextPatches(route) == {One(f, Str("s")) : f \in FieldsOf(route) \cap TextFields}
CoordinatePatches(route) ==
  {One(f, json) : f \in FieldsOf(route) \cap CoordinateFields,
                  json \in {Json} \cup {Num(n) : n \in {0 - 2, 3, 5}}}

\* The pairs whose order, or whose refusal together, matters.
ScorePatches ==
  {One("ban.scores", Scores({"check", "new"}, n)) : n \in {3, 20}}
  \cup {Two("ban.enabled", Flag(TRUE), "ban.threshold", Num(n)) : n \in {0, 3}}

MethodPatches ==
  {One("method_check.allowed_methods", Strings(S)) : S \in {{}, {"GET"}}}
  \cup {Two("method_check.enabled", Flag(b), "method_check.allowed_methods", Strings({})) :
          b \in BOOLEAN}

\* Bodies for the fields of a route, some of the wrong type.
PatchGroups(route) ==
  {NumberPatches(route) \cup {One(f, Str("s")) : f \in FieldsOf(route) \cap NumberFields},
   FlagPatches(route) \cup TextPatches(route) \cup {One("unknown", Str("s"))},
   CoordinatePatches(route),
   IF route = "ban-config" THEN ScorePatches ELSE {},
   IF route = "method-check" THEN FlagPatches(route) \cup MethodPatches ELSE {}}

SettingsScenarios ==
  UNION {{[Nothing EXCEPT !.patches = {[route |-> route, patch |-> p] : p \in group}] :
            group \in PatchGroups(route)} : route \in SettingRoutes}

Upstream(n) == Two("site.upstream_host", Str("h"), "site.upstream_port", Num(n))

SiteScenario ==
  [Nothing EXCEPT
     !.domains = [name : {"x"}, upper : BOOLEAN, ports : {0}]
                   \cup [name : {"x"}, upper : {TRUE}, ports : {1, 2}]
                   \cup [name : {"none"}, upper : {FALSE}, ports : {0, 1}]
                   \cup [name : {"separated"}, upper : {FALSE}, ports : {0}],
     !.patches = {[route |-> "sites", patch |-> p] :
                    p \in {Upstream(2), Upstream(7), Upstream(8),
                           One("site.enabled", Flag(FALSE)), One("site.cert_file", Str("c"))}}]

PageScenario == [Nothing EXCEPT !.codes = {0, 2, 3, 6, 8}]

MCScenarios ==
  {ListScenario({list, "whitelist.routes"},
                {Text("blank", "none"), Text("path", "none")}
                  \cup {Text("path", pad) : pad \in IF list = "blacklist.fake_routes"
                                                    THEN {"front", "back"} ELSE {}}
                  \cup IF list = "whitelist.routes" THEN {Empty} ELSE {}) :
     list \in EntryLists}
  \cup {ListScenario({"whitelist.ips", "blacklist.ips"}, {Text("ip", "none"), Text("path", "none")})}
  \cup {IpScenario, SiteScenario, PageScenario}
  \cup SettingsScenarios
=============================================================================
