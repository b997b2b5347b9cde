-------------------------- MODULE AdminConfigProofs --------------------------
(***************************************************************************)
(* Proofs about AdminConfig, and the modules it is built from, for any     *)
(* requests and any width of int: the configuration stays                  *)
(* usable, a restart keeps it, and lists change only by a request for      *)
(* them.                                                                   *)
(***************************************************************************)
EXTENDS AdminConfig, FiniteSetTheorems, SequenceTheorems, TLAPS

-----------------------------------------------------------------------------
(***************************************************************************)
(* Numbers: saturating_to_int, the ranges, and what a field then holds.    *)
(***************************************************************************)
LEMMA Saturated ==
  ASSUME NEW h \in Int
  PROVE  /\ saturating_to_int(h) \in Int
         /\ saturating_to_int(h) >= 0 =>
              \/ h - 2 * saturating_to_int(h) \in {0 - 1, 0, 1}
              \/ saturating_to_int(h) = IntMax /\ h > 2 * IntMax
<1> USE RuntimeConfigAssumption
<1>1. CASE h <= 2 * IntMin
  BY <1>1 DEF saturating_to_int
<1>2. CASE h >= 2 * IntMax
  BY <1>2 DEF saturating_to_int
<1>3. CASE h \in 0 .. 2 * IntMax - 1
  <2>1. saturating_to_int(h) = h \div 2
    BY <1>3 DEF saturating_to_int
  <2> QED
    BY <1>3, <2>1
<1>4. CASE h > 2 * IntMin /\ h < 0
  <2>1. saturating_to_int(h) = 0 - ((0 - h) \div 2)
    BY <1>4 DEF saturating_to_int
  <2>2. (0 - h) \div 2 \in Nat /\ ((0 - h) \div 2 = 0 => h = 0 - 1)
    BY <1>4
  <2> QED
    BY <1>4, <2>1, <2>2
<1> QED
  BY <1>1, <1>2, <1>3, <1>4

\* A field is of one kind.
LEMMA FieldKinds ==
  ASSUME NEW f
  PROVE  /\ f \in NumberFields =>
              /\ f \notin FlagFields /\ f \notin TextFields /\ f \notin CoordinateFields
              /\ f # "method_check.allowed_methods" /\ f # "ban.scores"
         /\ f \in CoordinateFields =>
              /\ f \notin FlagFields /\ f \notin TextFields /\ f \notin NumberFields
              /\ f # "method_check.allowed_methods" /\ f # "ban.scores"
         /\ PortFields \subseteq NumberFields
  BY DEF NumberFields, PortFields, PositiveFields, FlagFields, TextFields, CoordinateFields

LEMMA RangesArePositive ==
  ASSUME NEW f \in NumberFields
  PROVE  /\ RangeOf(f) \subseteq 0 .. IntMax
         /\ f \in PortFields => RangeOf(f) = 1 .. PortMax
  BY RuntimeConfigAssumption, SMTT(40) DEF RangeOf, NumberFields, PortFields, PositiveFields

LEMMA StoredNumber ==
  ASSUME NEW f \in NumberFields, NEW json, NEW old, json.num \in Int,
         saturating_to_int(json.num) \in RangeOf(f)
  PROVE  Stored(f, json, old) = saturating_to_int(json.num)
<1> DEFINE n == saturating_to_int(json.num)
<1>1. /\ f \notin FlagFields /\ f \notin TextFields /\ f \notin CoordinateFields
      /\ f # "method_check.allowed_methods" /\ f # "ban.scores"
  BY FieldKinds
<1>2. CASE f \in PortFields
  <2>1. n \in 1 .. PortMax /\ PortMax \in Nat
    BY <1>2, RangesArePositive, RuntimeConfigAssumption
  <2> HIDE DEF n
  <2>2. n % (PortMax + 1) = n
    BY <2>1
  <2> QED
    BY <1>1, <1>2, <2>2 DEF Stored, n
<1>3. CASE f \notin PortFields
  BY <1>1, <1>3 DEF Stored
<1> QED
  BY <1>2, <1>3

LEMMA StoredCoordinate ==
  ASSUME NEW f \in CoordinateFields, NEW json, NEW old
  PROVE  Stored(f, json, old) = IF json.type = "null" THEN {} ELSE {json.num}
<1>1. /\ f \notin FlagFields /\ f \notin TextFields /\ f \notin NumberFields
      /\ f \notin PortFields
      /\ f # "method_check.allowed_methods" /\ f # "ban.scores"
  BY FieldKinds
<1> QED
  BY <1>1, SMT DEF Stored

LEMMA AcceptedNumber ==
  ASSUME NEW f \in NumberFields, NEW new, NEW json, Accepts(new, f, json)
  PROVE  saturating_to_int(json.num) \in RangeOf(f)
<1>1. f \notin CoordinateFields /\ f # "method_check.allowed_methods"
  BY FieldKinds
<1> QED
  BY <1>1, Zenon DEF Accepts

LEMMA AcceptedCoordinate ==
  ASSUME NEW f \in CoordinateFields, NEW new, NEW json, Accepts(new, f, json)
  PROVE  json.type = "null" \/ json.num \in RangeOf(f)
<1>1. f \notin NumberFields /\ f # "method_check.allowed_methods"
  BY FieldKinds
<1> QED
  BY <1>1, Zenon DEF Accepts

LEMMA PatchedField ==
  ASSUME NEW old, NEW route, NEW patch
  PROVE  /\ DOMAIN Patched(old, route, patch) = DOMAIN old
         /\ \A f \in DOMAIN old : Patched(old, route, patch)[f] =
              IF f \in Taken(route, patch) THEN Stored(f, patch[f], old[f]) ELSE old[f]
         /\ \A D : DOMAIN old = D =>
              Patched(old, route, patch) = [f \in D |-> Patched(old, route, patch)[f]]
  BY DEF Patched

\* A body none of whose fields is refused leaves every number in its range; the
\* check of a number does not look at the other fields.
LEMMA PatchedInRange ==
  ASSUME NEW old, NEW looked, NEW route, NEW patch, ~Refused(looked, route, patch),
         \A f \in DOMAIN patch : patch[f].num \in Int,
         NEW f \in DOMAIN old
  PROVE  LET new == Patched(old, route, patch)
         IN  /\ f \in NumberFields /\ old[f] \in RangeOf(f) => new[f] \in RangeOf(f)
             /\ f \in NumberFields /\ f \in Taken(route, patch) =>
                  /\ new[f] = saturating_to_int(patch[f].num)
                  /\ new[f] \in RangeOf(f)
             /\ f \in CoordinateFields /\ old[f] \subseteq RangeOf(f) =>
                  new[f] \subseteq RangeOf(f)
<1> DEFINE new == Patched(old, route, patch)
<1>1. CASE f \notin Taken(route, patch)
  BY <1>1, PatchedField
<1>2. CASE f \in Taken(route, patch)
  <2>1. patch[f].num \in Int /\ Accepts(Patched(looked, route, patch), f, patch[f])
    BY <1>2 DEF Refused, Taken
  <2>2. new[f] = Stored(f, patch[f], old[f])
    BY <1>2, PatchedField
  <2> HIDE DEF new
  <2>3. CASE f \in NumberFields
    <3>1. saturating_to_int(patch[f].num) \in RangeOf(f)
      BY <2>1, <2>3, AcceptedNumber
    <3>2. new[f] = saturating_to_int(patch[f].num)
      BY <2>1, <2>2, <2>3, <3>1, StoredNumber
    <3>3. f \notin CoordinateFields
      BY <2>3, FieldKinds
    <3> QED
      BY <3>1, <3>2, <3>3 DEF new
  <2>4. CASE f \in CoordinateFields
    <3>1. patch[f].type = "null" \/ patch[f].num \in RangeOf(f)
      BY <2>1, <2>4, AcceptedCoordinate
    <3>2. new[f] = IF patch[f].type = "null" THEN {} ELSE {patch[f].num}
      BY <2>2, <2>4, StoredCoordinate
    <3>3. f \notin NumberFields
      BY <2>4, FieldKinds
    <3> QED
      BY <3>1, <3>2, <3>3 DEF new
  <2> QED
    BY <2>3, <2>4
<1> QED
  BY <1>1, <1>2

-----------------------------------------------------------------------------
(***************************************************************************)
(* Entry lists.                                                            *)
(***************************************************************************)
UsableLists(lists) ==
  /\ lists \in [Vectors -> SUBSET Texts]
  /\ \A v \in Vectors : \A t \in lists[v] : UsableEntry(v, t)

LEMMA VectorShape ==
  ASSUME NEW v \in Vectors
  PROVE  /\ v = <<v[1], v[2]>>
         /\ v[1] \in ListNames
         /\ \/ v[1] \in IpLists /\ v[2] \in {"exact", "cidr"}
            \/ v[1] \notin IpLists /\ v[2] = "entries"
<1>1. CASE v \in IpLists \X {"exact", "cidr"}
  BY <1>1 DEF ListNames
<1>2. CASE v \in EntryLists \X {"entries"}
  <2>1. v[1] \in EntryLists /\ v = <<v[1], v[2]>> /\ v[2] = "entries"
    BY <1>2
  <2>2. v[1] \notin IpLists
    BY <2>1 DEF EntryLists, IpLists
  <2> QED
    BY <2>1, <2>2 DEF ListNames
<1> QED
  BY <1>1, <1>2 DEF Vectors

LEMMA TextShape ==
  ASSUME NEW t \in Texts
  PROVE  /\ t = [kind |-> t.kind, pad |-> t.pad]
         /\ t.kind \in Kinds
         /\ t.pad \in Pads
         /\ t.kind \in {"empty", "blank"} => t.pad = "none"
  BY Zenon DEF Texts

LEMMA FormOf ==
  ASSUME NEW t \in Texts
  PROVE  /\ make_address(t) <=> t = [kind |-> "ip", pad |-> "none"]
         /\ parse_cidr(t) <=> t = [kind |-> "cidr", pad |-> "none"]
         /\ t = Empty <=> t.kind = "empty"
<1>1. t = [kind |-> t.kind, pad |-> t.pad]
  BY TextShape
<1>2. \A k : t.kind = k /\ t.pad = "none" <=> t = [kind |-> k, pad |-> "none"]
  <2>1. ASSUME NEW k, t.kind = k, t.pad = "none" PROVE t = [kind |-> k, pad |-> "none"]
    BY <1>1, <2>1, Zenon
  <2>2. ASSUME NEW k, t = [kind |-> k, pad |-> "none"] PROVE t.kind = k /\ t.pad = "none"
    BY <2>2
  <2> QED
    BY <2>1, <2>2, Zenon
<1>3. t.kind = "empty" => t.pad = "none"
  BY TextShape
<1>4. t.kind = "empty" /\ t.pad = "none" <=> t = Empty
  BY <1>2, Zenon DEF Empty
<1> QED
  BY <1>2, <1>3, <1>4, Zenon DEF make_address, parse_cidr

\* Where list_for puts a text, and that it can be used there.
LEMMA AdmittedIsUsable ==
  ASSUME NEW v \in Vectors, NEW list, NEW t \in Texts, list_for(list, t) = v, Admits(list, t)
  PROVE  v[1] = list /\ UsableEntry(v, t)
<1>1. v[1] = list
  BY DEF list_for
<1>2. t.kind # "empty"
  BY FormOf DEF Admits
<1>3. list = "blacklist.fake_routes" => t.kind = "path" /\ t.pad # "front"
  BY DEF Admits
<1>4. CASE list \notin IpLists
  <2>1. v[2] = "entries"
    BY <1>1, <1>4, VectorShape
  <2> QED
    BY <1>1, <1>2, <1>3, <2>1 DEF UsableEntry
<1>5. CASE list \in IpLists /\ HasSlash(t)
  <2>1. v[2] = "cidr"
    BY <1>5 DEF list_for
  <2>2. t = [kind |-> "cidr", pad |-> "none"]
    BY <1>5, FormOf DEF Admits
  <2> QED
    BY <1>1, <1>2, <1>3, <2>1, <2>2 DEF UsableEntry
<1>6. CASE list \in IpLists /\ ~HasSlash(t)
  <2>1. v[2] = "exact"
    BY <1>6 DEF list_for
  <2>2. t = [kind |-> "ip", pad |-> "none"]
    BY <1>6, FormOf DEF Admits
  <2> QED
    BY <1>1, <1>2, <1>3, <2>1, <2>2 DEF UsableEntry
<1> QED
  BY <1>1, <1>4, <1>5, <1>6

LEMMA AddKeeps ==
  ASSUME NEW lists, UsableLists(lists), NEW list, NEW entries \in SUBSET Texts,
         \A t \in entries : Admits(list, t)
  PROVE  /\ UsableLists(add_entries(lists, list, entries))
         /\ \A v \in Vectors :
              /\ lists[v] \subseteq add_entries(lists, list, entries)[v]
              /\ v[1] # list => add_entries(lists, list, entries)[v] = lists[v]
<1>1. \A v \in Vectors : \A t \in entries :
        list_for(list, t) = v => v[1] = list /\ UsableEntry(v, t)
  BY AdmittedIsUsable
<1> QED
  BY <1>1 DEF UsableLists, add_entries

LEMMA RemoveKeeps ==
  ASSUME NEW lists, UsableLists(lists), NEW list, NEW t
  PROVE  /\ UsableLists(remove_entry(lists, list, t))
         /\ \A v \in Vectors :
              /\ remove_entry(lists, list, t)[v] \subseteq lists[v]
              /\ lists[v] \ remove_entry(lists, list, t)[v] \subseteq {t}
              /\ v[1] # list => remove_entry(lists, list, t)[v] = lists[v]
  BY DEF UsableLists, remove_entry

LEMMA ClearKeeps ==
  ASSUME NEW lists, UsableLists(lists), NEW list
  PROVE  /\ UsableLists(clear_list(lists, list))
         /\ \A v \in Vectors :
              /\ clear_list(lists, list)[v] \subseteq lists[v]
              /\ v[1] # list => clear_list(lists, list)[v] = lists[v]
  BY DEF UsableLists, clear_list

LEMMA LinesAreTexts ==
  ASSUME NEW body \in SUBSET Texts
  PROVE  ListLines(body) \subseteq Texts
<1> SUFFICES ASSUME NEW line \in body PROVE Trim(line) \in Texts
  BY DEF ListLines
<1>1. Empty \in Texts
  BY DEF Empty, Texts, Kinds, Pads
<1>2. [line EXCEPT !.pad = "none"] \in Texts
  BY TextShape DEF Texts, Pads
<1> QED
  BY <1>1, <1>2 DEF Trim

LEMMA ImportKeeps ==
  ASSUME NEW lists, UsableLists(lists), NEW list, NEW body \in SUBSET Texts
  PROVE  /\ UsableLists(import_entries(lists, list, body))
         /\ \A v \in Vectors :
              /\ lists[v] \subseteq import_entries(lists, list, body)[v]
              /\ v[1] # list => import_entries(lists, list, body)[v] = lists[v]
<1>1. {t \in ListLines(body) : Admits(list, t)} \in SUBSET Texts
  BY LinesAreTexts
<1> QED
  BY <1>1, AddKeeps DEF import_entries

\* write_ip_list puts the two vectors under one key and read_ip_list takes them
\* apart again.
LEMMA ListsReadBack ==
  ASSUME NEW lists, UsableLists(lists)
  PROVE  read_lists(WrittenLists(lists)) = [v \in Vectors |-> {t \in lists[v] : t.kind # "blank"}]
<1> DEFINE node == WrittenLists(lists)
<1> SUFFICES ASSUME NEW v \in Vectors
             PROVE  {t \in IF v[1] \in DOMAIN node THEN node[v[1]] ELSE {} :
                       Readable(v[1], t) /\ list_for(v[1], t) = v} =
                    {t \in lists[v] : t.kind # "blank"}
  BY DEF read_lists
<1>1. /\ v[1] \in DOMAIN node
      /\ node[v[1]] = UNION {lists[w] : w \in {w \in Vectors : w[1] = v[1]}}
  BY VectorShape DEF WrittenLists
<1> HIDE DEF node
<1>2. ASSUME NEW t \in lists[v], t.kind # "blank"
      PROVE  t \in node[v[1]] /\ Readable(v[1], t) /\ list_for(v[1], t) = v
  <2>1. t \in node[v[1]] /\ t \in Texts /\ UsableEntry(v, t)
    BY <1>1 DEF UsableLists
  <2>2. ~is_blank(t)
    BY <1>2, <2>1 DEF UsableEntry, is_blank
  <2>3. CASE v[1] \notin IpLists
    BY <2>1, <2>2, <2>3, VectorShape DEF Readable, list_for
  <2>4. CASE v[1] \in IpLists /\ v[2] = "exact"
    <3>1. make_address(t) /\ ~HasSlash(t)
      BY <2>1, <2>4, FormOf DEF UsableEntry, HasSlash
    <3> QED
      BY <2>1, <2>2, <2>4, <3>1, VectorShape DEF Readable, list_for
  <2>5. CASE v[1] \in IpLists /\ v[2] = "cidr"
    <3>1. parse_cidr(t) /\ HasSlash(t)
      BY <2>1, <2>5, FormOf DEF UsableEntry, HasSlash
    <3> QED
      BY <2>1, <2>2, <2>5, <3>1, VectorShape DEF Readable, list_for
  <2> QED
    BY <2>3, <2>4, <2>5, VectorShape
<1>3. ASSUME NEW t \in node[v[1]], Readable(v[1], t), list_for(v[1], t) = v
      PROVE  t \in lists[v] /\ t.kind # "blank"
  <2>1. PICK w \in Vectors : w[1] = v[1] /\ t \in lists[w]
    BY <1>1
  <2>2. t \in Texts /\ UsableEntry(w, t) /\ ~is_blank(t)
    BY <1>3, <2>1 DEF UsableLists, Readable
  <2>3. CASE v[1] \notin IpLists
    <3>1. w = v
      BY <2>1, <2>3, VectorShape
    <3> QED
      BY <2>1, <2>2, <3>1 DEF is_blank
  <2>4. CASE v[1] \in IpLists /\ HasSlash(t)
    <3>1. v[2] = "cidr"
      BY <1>3, <2>4 DEF list_for
    <3>2. w[2] # "exact"
      BY <2>2, <2>4 DEF UsableEntry, HasSlash
    <3>3. w = v
      BY <2>1, <2>4, <3>1, <3>2, VectorShape
    <3> QED
      BY <2>1, <2>2, <3>3 DEF is_blank
  <2>5. CASE v[1] \in IpLists /\ ~HasSlash(t)
    <3>1. v[2] = "exact"
      BY <1>3, <2>5 DEF list_for
    <3>2. w[2] # "cidr"
      BY <2>2, <2>5 DEF UsableEntry, HasSlash
    <3>3. w = v
      BY <2>1, <2>5, <3>1, <3>2, VectorShape
    <3> QED
      BY <2>1, <2>2, <3>3 DEF is_blank
  <2> QED
    BY <2>3, <2>4, <2>5
<1> QED
  BY <1>1, <1>2, <1>3

-----------------------------------------------------------------------------
(***************************************************************************)
(* Sites.                                                                  *)
(***************************************************************************)
Site(fields) == [domain : Domains, fields : fields]

GoodFields(fields) ==
  /\ DOMAIN fields = FieldsOf("sites")
  /\ fields["site.upstream_port"] \in 1 .. PortMax

GoodSite(site) ==
  /\ GoodFields(site.fields)
  /\ BareHostname(site.domain) /\ ~site.domain.upper

GoodSites(sites) ==
  /\ sites \in Seq(Site({sites[i].fields : i \in DOMAIN sites}))
  /\ \A i \in DOMAIN sites : GoodSite(sites[i])
  /\ \A i, j \in DOMAIN sites : sites[i].domain = sites[j].domain => i = j

\* A domain in another case is one, and lowers to the same.
LEMMA Lowered ==
  ASSUME NEW d \in Domains
  PROVE  /\ to_lower(d) \in Domains
         /\ to_lower(d).name = d.name /\ to_lower(d).ports = d.ports
         /\ ~to_lower(d).upper
         /\ to_lower(to_lower(d)) = to_lower(d)
         /\ ~d.upper => to_lower(d) = d
         /\ \A u \in BOOLEAN : /\ [d EXCEPT !.upper = u] \in Domains
                               /\ to_lower([d EXCEPT !.upper = u]) = to_lower(d)
<1> DEFINE D(u) == [name |-> d.name, upper |-> u, ports |-> d.ports]
<1>1. /\ d = D(d.upper)
      /\ d.name \in DomainNames /\ d.upper \in BOOLEAN /\ d.ports \in 0 .. 2
  BY Zenon DEF Domains
<1>2. ASSUME NEW u PROVE [d EXCEPT !.upper = u] = D(u)
  BY <1>1
<1>3. to_lower(d) = D(FALSE)
  BY <1>2, Zenon DEF to_lower
<1>4. \A u \in BOOLEAN : D(u) \in Domains
  BY <1>1, Zenon DEF Domains
<1>5. \A u : to_lower(D(u)) = to_lower(d)
  <2>1. ASSUME NEW u, NEW w PROVE [D(u) EXCEPT !.upper = w] = D(w)
    OBVIOUS
  <2> QED
    BY <1>3, <2>1, Zenon DEF to_lower
<1>6. ~d.upper => d.upper = FALSE
  BY <1>1, Zenon
<1>7. ~to_lower(d).upper /\ to_lower(d).name = d.name /\ to_lower(d).ports = d.ports
  <2>1. ASSUME NEW u PROVE D(u).upper = u /\ D(u).name = d.name /\ D(u).ports = d.ports
    OBVIOUS
  <2> QED
    BY <1>3, <2>1, Zenon
<1> HIDE DEF D
<1>8. ~d.upper => to_lower(d) = d
  BY <1>1, <1>3, <1>6, Zenon
<1>9. to_lower(d) \in Domains /\ to_lower(to_lower(d)) = to_lower(d)
  BY <1>3, <1>4, <1>5, Zenon
<1>10. \A u \in BOOLEAN : [d EXCEPT !.upper = u] \in Domains
                          /\ to_lower([d EXCEPT !.upper = u]) = to_lower(d)
  BY <1>2, <1>4, <1>5, Zenon
<1> QED
  BY <1>7, <1>8, <1>9, <1>10, Zenon

\* The port a client adds to a host is the one strip_port cuts off; a host
\* without a port stays as it is.
LEMMA Stripped ==
  ASSUME NEW d \in Domains
  PROVE  /\ strip_port([d EXCEPT !.ports = @ + 1]) = d
         /\ d.ports = 0 => strip_port(d) = d
<1>1. /\ d = [name |-> d.name, upper |-> d.upper, ports |-> d.ports]
      /\ d.ports \in 0 .. 2
  BY Zenon DEF Domains
<1>2. ASSUME NEW n PROVE [d EXCEPT !.ports = n] = [name |-> d.name, upper |-> d.upper, ports |-> n]
  BY <1>1
<1>3. d.ports + 1 # 0 /\ (d.ports + 1) - 1 = d.ports
  BY <1>1
<1> DEFINE h == [d EXCEPT !.ports = d.ports + 1]
<1>4. h = [name |-> d.name, upper |-> d.upper, ports |-> d.ports + 1]
  BY <1>2
<1>5. h.ports = d.ports + 1 /\ [h EXCEPT !.ports = d.ports] = d
  BY <1>1, <1>4
<1>6. strip_port(h) = [h EXCEPT !.ports = d.ports]
  BY <1>3, <1>5 DEF strip_port
<1> QED
  BY <1>5, <1>6, Zenon DEF strip_port

LEMMA SiteShape ==
  ASSUME NEW sites, GoodSites(sites), NEW i \in DOMAIN sites
  PROVE  /\ sites[i] = [domain |-> sites[i].domain, fields |-> sites[i].fields]
         /\ sites[i].domain \in Domains
         /\ to_lower(sites[i].domain) = sites[i].domain
         /\ BareHostname(sites[i].domain)
         /\ Len(sites) \in Nat /\ DOMAIN sites = 1 .. Len(sites)
<1> DEFINE X == {sites[k].fields : k \in DOMAIN sites}
<1> HIDE DEF X
<1>1. sites \in Seq(Site(X))
  BY DEF GoodSites, X
<1>2. sites[i] \in Site(X) /\ Len(sites) \in Nat /\ DOMAIN sites = 1 .. Len(sites)
  BY <1>1
<1>3. /\ sites[i] = [domain |-> sites[i].domain, fields |-> sites[i].fields]
      /\ sites[i].domain \in Domains
  BY <1>2 DEF Site
<1>4. BareHostname(sites[i].domain) /\ ~sites[i].domain.upper
  BY Zenon DEF GoodSites, GoodSite
<1> QED
  BY <1>2, <1>3, <1>4, Lowered

\* find_site finds the one site of that name, if there is one.
LEMMA FindSite ==
  ASSUME NEW sites, GoodSites(sites), NEW d \in Domains
  PROVE  /\ find_site(sites, d) # 0 =>
              /\ find_site(sites, d) \in DOMAIN sites
              /\ sites[find_site(sites, d)].domain = to_lower(d)
         /\ find_site(sites, d) = 0 => \A i \in DOMAIN sites : sites[i].domain # to_lower(d)
         /\ \A i \in DOMAIN sites : sites[i].domain = to_lower(d) => find_site(sites, d) = i
<1> DEFINE named == {i \in DOMAIN sites : iequals(sites[i].domain, d)}
<1>1. \A i \in DOMAIN sites : i \in named <=> sites[i].domain = to_lower(d)
  BY SiteShape DEF iequals
<1>2. \A i, j \in named : i = j
  BY <1>1 DEF GoodSites
<1>3. \A i \in named : i \in Nat \ {0}
  BY SiteShape
<1>4. find_site(sites, d) = IF named = {} THEN 0
                            ELSE CHOOSE i \in named : \A j \in named : i <= j
  BY DEF find_site
<1>5. named \subseteq DOMAIN sites
  OBVIOUS
<1> HIDE DEF named
<1>6. CASE named = {}
  BY <1>1, <1>4, <1>6
<1>7. ASSUME NEW i \in named PROVE find_site(sites, d) = i
  <2>1. \A j \in named : i <= j
    BY <1>2, <1>3
  <2>2. find_site(sites, d) \in named
    BY <1>4, <2>1
  <2> QED
    BY <1>2, <2>2
<1> QED
  BY <1>1, <1>3, <1>5, <1>6, <1>7

LEMMA NamesResolve ==
  ASSUME NEW sites, GoodSites(sites), NEW i \in DOMAIN sites, NEW u \in BOOLEAN
  PROVE  LET host == [sites[i].domain EXCEPT !.upper = u]
         IN  /\ resolve_site(sites, [host EXCEPT !.ports = @ + 1]) = i
             /\ host.ports = 0 => resolve_site(sites, host) = i
<1> DEFINE host == [sites[i].domain EXCEPT !.upper = u]
<1>1. sites[i].domain \in Domains /\ to_lower(sites[i].domain) = sites[i].domain
  BY SiteShape
<1>2. host \in Domains /\ to_lower(host) = sites[i].domain
  BY <1>1, Lowered, Zenon
<1> HIDE DEF host
<1>3. find_site(sites, host) = i
  BY <1>2, FindSite
<1>4. /\ strip_port([host EXCEPT !.ports = @ + 1]) = host
      /\ host.ports = 0 => strip_port(host) = host
  BY <1>2, Stripped
<1> QED
  BY <1>3, <1>4, Zenon DEF resolve_site, host

LEMMA SeqOfValues ==
  ASSUME NEW S, NEW T, NEW s \in Seq(S), \A i \in DOMAIN s : s[i] \in T
  PROVE  s \in Seq(T)
<1>1. s \in [1 .. Len(s) -> T] /\ Len(s) \in Nat
  OBVIOUS
<1> QED
  BY <1>1, SeqDef

LEMMA FieldsAreTheirs ==
  ASSUME NEW X, NEW s \in Seq(Site(X))
  PROVE  s \in Seq(Site({s[i].fields : i \in DOMAIN s}))
<1> DEFINE Y == {s[i].fields : i \in DOMAIN s}
<1>2. \A i \in DOMAIN s : s[i] \in Site(X)
  OBVIOUS
<1>3. \A i \in DOMAIN s : s[i].fields \in Y
  BY Zenon
<1> HIDE DEF Y
<1>4. ASSUME NEW i \in DOMAIN s PROVE s[i] \in Site(Y)
  <2>1. s[i] \in Site(X) /\ s[i].fields \in Y
    BY <1>2, <1>3
  <2> QED
    BY <2>1 DEF Site
<1>5. s \in Seq(Site(Y))
  BY <1>4, SeqOfValues
<1> QED
  BY <1>5 DEF Y

LEMMA RemovedAt ==
  ASSUME NEW S, NEW s \in Seq(S), NEW i \in DOMAIN s
  PROVE  /\ RemoveAt(s, i) \in Seq(S)
         /\ Len(RemoveAt(s, i)) = Len(s) - 1
         /\ \A k \in 1 .. Len(s) - 1 :
              RemoveAt(s, i)[k] = IF k < i THEN s[k] ELSE s[k + 1]
<1>1. Len(s) \in Nat /\ i \in 1 .. Len(s) /\ \A k \in 1 .. Len(s) : s[k] \in S
  OBVIOUS
<1> DEFINE a == SubSeq(s, 1, i - 1)
           b == SubSeq(s, i + 1, Len(s))
<1>2. a \in Seq(S) /\ Len(a) = i - 1 /\ \A k \in 1 .. i - 1 : a[k] = s[k]
  BY <1>1
<1>3. /\ b \in Seq(S) /\ Len(b) = Len(s) - i
      /\ \A k \in 1 .. Len(s) - i : b[k] = s[i + k]
  BY <1>1
<1> HIDE DEF a, b
<1>4. /\ a \o b \in Seq(S) /\ Len(a \o b) = Len(s) - 1
      /\ \A k \in 1 .. Len(s) - 1 :
           /\ k <= i - 1 => (a \o b)[k] = a[k]
           /\ k > i - 1 => (a \o b)[k] = b[k - (i - 1)]
  <2>1. /\ a \o b \in Seq(S)
        /\ Len(a \o b) = Len(a) + Len(b)
        /\ \A k \in 1 .. Len(a) + Len(b) :
             (a \o b)[k] = IF k <= Len(a) THEN a[k] ELSE b[k - Len(a)]
    BY <1>2, <1>3, ConcatProperties, Zenon
  <2>2. Len(a) = i - 1 /\ Len(a) + Len(b) = Len(s) - 1
    BY <1>1, <1>2, <1>3
  <2> QED
    BY <1>1, <2>1, <2>2, SMTT(30)
<1>5. ASSUME NEW k \in 1 .. Len(s) - 1
      PROVE  (a \o b)[k] = IF k < i THEN s[k] ELSE s[k + 1]
  <2>1. CASE k < i
    BY <1>1, <1>2, <1>4, <2>1
  <2>2. CASE k >= i
    <3>1. k - (i - 1) \in 1 .. Len(s) - i /\ i + (k - (i - 1)) = k + 1
      BY <1>1, <2>2
    <3>2. (a \o b)[k] = b[k - (i - 1)]
      <4>1. k > i - 1
        BY <1>1, <2>2
      <4> QED
        BY <1>4, <4>1, Zenon
    <3>3. b[k - (i - 1)] = s[i + (k - (i - 1))]
      BY <1>3, <3>1, Zenon
    <3>4. ~(k < i)
      BY <1>1, <2>2
    <3> QED
      BY <3>1, <3>2, <3>3, <3>4, Zenon
  <2>3. k < i \/ k >= i
    BY <1>1
  <2> QED
    BY <2>1, <2>2, <2>3, Zenon
<1> QED
  BY <1>4, <1>5 DEF RemoveAt, a, b

\* create: the new name is bare, in lower case and nobody else's.
LEMMA AddKeepsSites ==
  ASSUME NEW sites, GoodSites(sites), NEW domain \in Domains, NEW patch,
         BareHostname(domain), ~DomainTaken(sites, domain),
         GoodFields(Patched(NewSite, "sites", patch))
  PROVE  GoodSites(add_site(sites, domain, patch))
<1> DEFINE new   == [domain |-> to_lower(domain), fields |-> Patched(NewSite, "sites", patch)]
           X     == {sites[i].fields : i \in DOMAIN sites}
           Y     == X \cup {Patched(NewSite, "sites", patch)}
           added == Append(sites, new)
           n     == Len(sites)
<1>1. sites \in Seq(Site(X))
  BY DEF GoodSites
<1>2. /\ to_lower(domain) \in Domains /\ ~to_lower(domain).upper
      /\ to_lower(domain).name = domain.name /\ to_lower(domain).ports = domain.ports
      /\ to_lower(to_lower(domain)) = to_lower(domain)
  BY Lowered
<1>3. new \in Site(Y) /\ new.domain = to_lower(domain) /\ GoodSite(new)
  <2>1. new.domain = to_lower(domain) /\ new.fields = Patched(NewSite, "sites", patch)
    OBVIOUS
  <2>2. new \in Site(Y)
    BY <1>2 DEF Site
  <2>3. BareHostname(new.domain)
    BY <1>2, <2>1 DEF BareHostname, EmptyDomain
  <2> QED
    BY <1>2, <2>1, <2>2, <2>3, Zenon DEF GoodSite, GoodFields
<1>4. \A i \in DOMAIN sites : sites[i].domain # new.domain
  BY <1>2, <1>3, FindSite DEF DomainTaken
<1> HIDE DEF X, Y, new
<1>5. sites \in Seq(Site(Y))
  <2>1. Site(X) \subseteq Site(Y)
    BY DEF Site, Y
  <2> QED
    BY <1>1, <2>1, SeqMonotonic
<1>6. /\ n \in Nat /\ DOMAIN sites = 1 .. n
      /\ added \in Seq(Site(Y)) /\ DOMAIN added = 1 .. n + 1
      /\ added[n + 1] = new /\ \A i \in 1 .. n : added[i] = sites[i]
  BY <1>3, <1>5
<1> HIDE DEF added, n
<1>7. added \in Seq(Site({added[i].fields : i \in DOMAIN added}))
  <2>1. added \in Seq(Site(Y))
    BY <1>6
  <2> QED
    BY <2>1, FieldsAreTheirs
<1>8. \A i \in 1 .. n + 1 : i = n + 1 \/ i \in 1 .. n
  BY <1>6
<1>9. \A i \in DOMAIN added : GoodSite(added[i])
  BY <1>3, <1>6, <1>8, Zenon DEF GoodSites
<1>10. \A i, j \in DOMAIN added : added[i].domain = added[j].domain => i = j
  BY <1>4, <1>6, <1>8, Zenon DEF GoodSites
<1> QED
  BY <1>7, <1>9, <1>10 DEF GoodSites, add_site, added, new

\* update changes no name.
LEMMA UpdateKeepsSites ==
  ASSUME NEW sites, GoodSites(sites), NEW i \in DOMAIN sites, NEW patch,
         GoodFields(Patched(sites[i].fields, "sites", patch))
  PROVE  GoodSites(update_site(sites, i, patch))
<1> DEFINE fields  == Patched(sites[i].fields, "sites", patch)
           X       == {sites[k].fields : k \in DOMAIN sites}
           Y       == X \cup {fields}
           new     == [domain |-> sites[i].domain, fields |-> fields]
           updated == [sites EXCEPT ![i] = new]
           n       == Len(sites)
<1>1. sites \in Seq(Site(X))
  BY DEF GoodSites
<1>2. /\ sites[i] = [domain |-> sites[i].domain, fields |-> sites[i].fields]
      /\ sites[i].domain \in Domains
  BY SiteShape
<1> HIDE DEF fields
<1>3. [sites[i] EXCEPT !.fields = fields] = new
  BY <1>2
<1>4. update_site(sites, i, patch) = updated
  BY <1>3 DEF update_site, fields
<1>5. new \in Site(Y) /\ new.domain = sites[i].domain /\ new.fields = fields
  BY <1>2 DEF Site
<1>6. GoodSite(new)
  BY <1>5, Zenon DEF GoodSites, GoodSite, GoodFields, fields
<1> HIDE DEF X, new
<1>7. sites \in Seq(Site(Y))
  <2>1. Site(X) \subseteq Site(Y)
    BY DEF Site
  <2> QED
    BY <1>1, <2>1, SeqMonotonic
<1> HIDE DEF Y
<1>8. /\ updated \in Seq(Site(Y)) /\ DOMAIN updated = DOMAIN sites
      /\ updated[i] = new /\ \A k \in DOMAIN sites : k # i => updated[k] = sites[k]
  BY <1>5, <1>7
<1> HIDE DEF updated
<1>9. updated \in Seq(Site({updated[k].fields : k \in DOMAIN updated}))
  BY <1>8, FieldsAreTheirs, ZenonT(40)
<1>10. \A k \in DOMAIN updated : GoodSite(updated[k]) /\ updated[k].domain = sites[k].domain
  BY <1>5, <1>6, <1>8, Zenon DEF GoodSites
<1>11. \A k, j \in DOMAIN updated : updated[k].domain = updated[j].domain => k = j
  BY <1>8, <1>10, Zenon DEF GoodSites
<1> QED
  BY <1>4, <1>9, <1>10, <1>11 DEF GoodSites

LEMMA RemoveKeepsSites ==
  ASSUME NEW sites, GoodSites(sites), NEW i \in DOMAIN sites
  PROVE  GoodSites(RemoveAt(sites, i))
<1> DEFINE X    == {sites[k].fields : k \in DOMAIN sites}
           left == RemoveAt(sites, i)
           n    == Len(sites)
           at(k) == IF k < i THEN k ELSE k + 1
<1>1. sites \in Seq(Site(X))
  BY DEF GoodSites
<1>2. n \in Nat /\ DOMAIN sites = 1 .. n /\ i \in 1 .. n
  BY SiteShape
<1> HIDE DEF X
<1>3. /\ left \in Seq(Site(X)) /\ Len(left) = n - 1
      /\ \A k \in 1 .. n - 1 : left[k] = IF k < i THEN sites[k] ELSE sites[k + 1]
  BY <1>1, RemovedAt
<1> HIDE DEF left, n
<1>4. DOMAIN left = 1 .. n - 1
  BY <1>3
<1>5. \A k \in DOMAIN left : at(k) \in DOMAIN sites /\ left[k] = sites[at(k)]
  BY <1>2, <1>3, <1>4
<1>6. \A k, j \in DOMAIN left : at(k) = at(j) => k = j
  BY <1>2, <1>4
<1> HIDE DEF at
<1>7. left \in Seq(Site({left[k].fields : k \in DOMAIN left}))
  BY <1>3, FieldsAreTheirs, ZenonT(40)
<1>8. \A k \in DOMAIN left : GoodSite(left[k])
  BY <1>5, Zenon DEF GoodSites
<1>9. \A k, j \in DOMAIN left : left[k].domain = left[j].domain => k = j
  BY <1>5, <1>6, ZenonT(40) DEF GoodSites
<1> QED
  BY <1>7, <1>8, <1>9 DEF GoodSites, left

\* What the codec writes of the sites it reads back: nothing is passed over and
\* every name is in lower case already.
LEMMA SitesReadBack ==
  ASSUME NEW sites, GoodSites(sites)
  PROVE  read_sites(sites) = sites
<1> DEFINE X     == {sites[k].fields : k \in DOMAIN sites}
           n     == Len(sites)
           named == {i \in DOMAIN sites : ~EmptyDomain(sites[i].domain)}
           upto(i) == {j \in named : j <= i}
           site(k) == sites[CHOOSE i \in named : Cardinality(upto(i)) = k]
<1>1. sites \in Seq(Site(X))
  BY DEF GoodSites
<1> HIDE DEF X
<1>2. n \in Nat /\ DOMAIN sites = 1 .. n /\ sites = [k \in 1 .. n |-> sites[k]]
  BY <1>1
<1>3. named = 1 .. n
  BY <1>2, SiteShape DEF BareHostname
<1>4. Cardinality(named) = n
  <2>1. n \in Int /\ 1 \in Int /\ (1 > n => n = 0) /\ n - 1 + 1 = n
    BY <1>2
  <2> QED
    BY <1>3, <2>1, FS_Interval
<1>5. ASSUME NEW i \in 1 .. n PROVE Cardinality(upto(i)) = i
  <2>1. upto(i) = 1 .. i
    BY <1>2, <1>3
  <2>2. i \in Int /\ 1 \in Int /\ ~(1 > i) /\ i - 1 + 1 = i
    BY <1>2
  <2> QED
    BY <2>1, <2>2, FS_Interval
<1> HIDE DEF n, named, upto
<1>6. ASSUME NEW k \in 1 .. n PROVE [site(k) EXCEPT !.domain = to_lower(@)] = sites[k]
  <2>1. (CHOOSE i \in named : Cardinality(upto(i)) = k) = k
    BY <1>3, <1>5
  <2>2. site(k) = sites[k]
    BY <2>1
  <2>3. /\ sites[k] = [domain |-> sites[k].domain, fields |-> sites[k].fields]
        /\ to_lower(sites[k].domain) = sites[k].domain
    BY <1>2, SiteShape
  <2>4. [sites[k] EXCEPT !.domain = to_lower(@)] = [sites[k] EXCEPT !.domain = sites[k].domain]
    BY <2>3
  <2> QED
    BY <2>2, <2>3, <2>4
<1>7. read_sites(sites) = [k \in 1 .. Cardinality(named) |-> [site(k) EXCEPT !.domain = to_lower(@)]]
  BY DEF read_sites, named, upto
<1> QED
  BY <1>2, <1>4, <1>6, <1>7

LEMMA NewFieldsAreGood ==
  ASSUME NEW patch, ~Refused(NewSite, "sites", patch),
         \A f \in DOMAIN patch : patch[f].num \in Int
  PROVE  /\ GoodFields(Patched(NewSite, "sites", patch))
         /\ \A old : GoodFields(old) => GoodFields(Patched(old, "sites", patch))
<1> DEFINE p == "site.upstream_port"
<1>1. p \in FieldsOf("sites") /\ p \in NumberFields /\ p \in PortFields
  BY DEF FieldsOf, NumberFields, PortFields
<1>2. RangeOf(p) = 1 .. PortMax
  BY <1>1, RangesArePositive
<1>3. GoodFields(NewSite)
  <2>1. DOMAIN NewSite = FieldsOf("sites")
    BY DEF NewSite
  <2>2. NewSite[p] = 1
    BY <1>1 DEF NewSite
  <2> QED
    BY <2>1, <2>2, RuntimeConfigAssumption DEF GoodFields
<1>4. ASSUME NEW old, GoodFields(old) PROVE GoodFields(Patched(old, "sites", patch))
  <2>1. p \in DOMAIN old /\ old[p] \in RangeOf(p)
    BY <1>1, <1>2, <1>4 DEF GoodFields
  <2>2. Patched(old, "sites", patch)[p] \in RangeOf(p)
    BY <1>1, <2>1, PatchedInRange
  <2> QED
    BY <1>2, <1>4, <2>2, PatchedField DEF GoodFields
<1> QED
  BY <1>3, <1>4

-----------------------------------------------------------------------------
(***************************************************************************)
(* Status pages.                                                           *)
(***************************************************************************)
Page == [code : Int, html : {"h1", "h2"}]

GoodPages(pages) ==
  /\ pages \in Seq(Page)
  /\ \A i \in DOMAIN pages : pages[i].code \in CodeMin .. CodeMax
  /\ \A i, j \in DOMAIN pages : pages[i].code = pages[j].code => i = j

LEMMA FindPage ==
  ASSUME NEW pages, GoodPages(pages), NEW code
  PROVE  /\ find_status_page(pages, code) # 0 => find_status_page(pages, code) \in DOMAIN pages
         /\ find_status_page(pages, code) = 0 => \A i \in DOMAIN pages : pages[i].code # code
<1> DEFINE coded == {i \in DOMAIN pages : pages[i].code = code}
<1>1. \A i, j \in coded : i = j
  BY DEF GoodPages
<1>2. coded \subseteq DOMAIN pages /\ \A i \in coded : i \in Nat \ {0}
  BY DEF GoodPages
<1>3. find_status_page(pages, code) = IF coded = {} THEN 0
                                      ELSE CHOOSE i \in coded : \A j \in coded : i <= j
  BY DEF find_status_page
<1>4. \A i \in DOMAIN pages : pages[i].code = code => i \in coded
  OBVIOUS
<1> HIDE DEF coded
<1>5. ASSUME NEW i \in coded PROVE find_status_page(pages, code) = i
  <2>1. \A j \in coded : i <= j
    BY <1>1, <1>2
  <2>2. find_status_page(pages, code) \in coded
    BY <1>3, <2>1
  <2> QED
    BY <1>1, <2>2
<1> QED
  BY <1>2, <1>3, <1>4, <1>5

LEMMA AddKeepsPages ==
  ASSUME NEW pages, GoodPages(pages), NEW code, PageAdmitted(pages, code),
         NEW html \in {"h1", "h2"}
  PROVE  GoodPages(add_status_page(pages, code, html))
<1> DEFINE new   == [code |-> code, html |-> html]
           added == Append(pages, new)
           n     == Len(pages)
<1>1. code \in CodeMin .. CodeMax /\ \A i \in DOMAIN pages : pages[i].code # code
  BY FindPage DEF PageAdmitted
<1>2. new \in Page /\ new.code = code
  BY <1>1, RuntimeConfigAssumption DEF Page
<1> HIDE DEF new
<1>3. /\ n \in Nat /\ DOMAIN pages = 1 .. n
      /\ added \in Seq(Page) /\ DOMAIN added = 1 .. n + 1
      /\ added[n + 1] = new /\ \A i \in 1 .. n : added[i] = pages[i]
  BY <1>2 DEF GoodPages
<1> HIDE DEF added, n
<1>4. \A i \in 1 .. n + 1 : i = n + 1 \/ i \in 1 .. n
  BY <1>3
<1>5. \A i \in DOMAIN added : added[i].code \in CodeMin .. CodeMax
  BY <1>1, <1>2, <1>3, <1>4, Zenon DEF GoodPages
<1>6. \A i, j \in DOMAIN added : added[i].code = added[j].code => i = j
  BY <1>1, <1>2, <1>3, <1>4, Zenon DEF GoodPages
<1> QED
  BY <1>3, <1>5, <1>6 DEF GoodPages, add_status_page, added, new

LEMMA UpdateKeepsPages ==
  ASSUME NEW pages, GoodPages(pages), NEW i \in DOMAIN pages, NEW html \in {"h1", "h2"}
  PROVE  GoodPages(update_status_page(pages, i, html))
<1> DEFINE new     == [code |-> pages[i].code, html |-> html]
           updated == [pages EXCEPT ![i] = new]
<1>1. pages[i] \in Page
  BY DEF GoodPages
<1>2. [pages[i] EXCEPT !.html = html] = new /\ new \in Page /\ new.code = pages[i].code
  BY <1>1 DEF Page
<1>3. update_status_page(pages, i, html) = updated
  BY <1>2 DEF update_status_page
<1> HIDE DEF new
<1>4. /\ updated \in Seq(Page) /\ DOMAIN updated = DOMAIN pages
      /\ updated[i] = new /\ \A k \in DOMAIN pages : k # i => updated[k] = pages[k]
  BY <1>2 DEF GoodPages
<1> HIDE DEF updated
<1>5. \A k \in DOMAIN updated : updated[k].code = pages[k].code
  BY <1>2, <1>4, Zenon
<1> QED
  BY <1>3, <1>4, <1>5, Zenon DEF GoodPages

LEMMA RemoveKeepsPages ==
  ASSUME NEW pages, GoodPages(pages), NEW i \in DOMAIN pages
  PROVE  GoodPages(RemoveAt(pages, i))
<1> DEFINE left == RemoveAt(pages, i)
           n    == Len(pages)
           at(k) == IF k < i THEN k ELSE k + 1
<1>1. pages \in Seq(Page) /\ n \in Nat /\ DOMAIN pages = 1 .. n /\ i \in 1 .. n
  BY DEF GoodPages
<1>2. /\ left \in Seq(Page) /\ Len(left) = n - 1
      /\ \A k \in 1 .. n - 1 : left[k] = IF k < i THEN pages[k] ELSE pages[k + 1]
  BY <1>1, RemovedAt
<1> HIDE DEF left, n
<1>3. DOMAIN left = 1 .. n - 1
  BY <1>2
<1>4. \A k \in DOMAIN left : at(k) \in DOMAIN pages /\ left[k] = pages[at(k)]
  BY <1>1, <1>2, <1>3
<1>5. \A k, j \in DOMAIN left : at(k) = at(j) => k = j
  BY <1>1, <1>3
<1> HIDE DEF at
<1>6. \A k \in DOMAIN left : left[k].code \in CodeMin .. CodeMax
  BY <1>4, Zenon DEF GoodPages
<1>7. \A k, j \in DOMAIN left : left[k].code = left[j].code => k = j
  <2>1. \A k, j \in DOMAIN pages : pages[k].code = pages[j].code => k = j
    BY Zenon DEF GoodPages
  <2> QED
    BY <1>4, <1>5, <2>1
<1> QED
  BY <1>2, <1>6, <1>7 DEF GoodPages, left

-----------------------------------------------------------------------------
(***************************************************************************)
(* Settings.                                                               *)
(***************************************************************************)
GoodSettings(settings) ==
  /\ settings = [f \in Settings |-> settings[f]]
  /\ \A f \in NumberFields \cap Settings : settings[f] \in RangeOf(f)
  /\ \A f \in CoordinateFields : settings[f] \subseteq RangeOf(f)

LEMMA CoordinatesAreSettings == CoordinateFields \subseteq Settings
<1>1. CoordinateFields \subseteq FieldsOf("globe-config") /\ "globe-config" \in SettingRoutes
  BY DEF CoordinateFields, FieldsOf, SettingRoutes
<1> QED
  BY <1>1 DEF Settings

LEMMA RouteFields ==
  ASSUME NEW route \in SettingRoutes
  PROVE  FieldsOf(route) \subseteq Settings
  BY DEF Settings

LEMMA DefaultCoordinate ==
  ASSUME NEW f \in CoordinateFields
  PROVE  DefaultSettings[f] = {}
<1>1. /\ f \notin FlagFields /\ f \notin NumberFields
      /\ f # "method_check.allowed_methods" /\ f # "ban.scores"
      /\ f # "body_size.max_bytes" /\ f \in Settings
  BY FieldKinds, CoordinatesAreSettings DEF CoordinateFields
<1> QED
  BY <1>1 DEF DefaultSettings

LEMMA DefaultsAreGood == GoodSettings(DefaultSettings)
<1>1. DefaultSettings = [f \in Settings |-> DefaultSettings[f]]
  BY DEF DefaultSettings
<1>2. ASSUME NEW f \in NumberFields \cap Settings PROVE DefaultSettings[f] \in RangeOf(f)
  <2>1. /\ f \notin FlagFields /\ f \notin CoordinateFields
        /\ f # "method_check.allowed_methods" /\ f # "ban.scores"
    BY FieldKinds
  <2>2. CASE f = "body_size.max_bytes"
    <3>1. DefaultSettings[f] = 0
      BY <2>1, <2>2 DEF DefaultSettings
    <3>2. RangeOf(f) = 0 .. IntMax
      BY <2>2 DEF RangeOf, PortFields, PositiveFields
    <3> QED
      BY <3>1, <3>2, RuntimeConfigAssumption
  <2>3. CASE f # "body_size.max_bytes"
    <3>1. DefaultSettings[f] = 1
      BY <2>1, <2>3 DEF DefaultSettings
    <3>2. 1 \in RangeOf(f)
      BY <2>3, RuntimeConfigAssumption DEF RangeOf, NumberFields, PortFields, PositiveFields
    <3> QED
      BY <3>1, <3>2
  <2> QED
    BY <2>2, <2>3
<1> QED
  BY <1>1, <1>2, DefaultCoordinate DEF GoodSettings

\* A body that is applied leaves good settings, and its numbers are kept as sent.
LEMMA PatchKeepsSettings ==
  ASSUME NEW settings, GoodSettings(settings), NEW route \in SettingRoutes, NEW patch,
         \A f \in DOMAIN patch : patch[f].num \in Int,
         ~Refused(settings, route, patch)
  PROVE  /\ GoodSettings(Patched(settings, route, patch))
         /\ \A f \in Taken(route, patch) \cap NumberFields :
              /\ patch[f].num \in Int
              /\ Patched(settings, route, patch)[f] = saturating_to_int(patch[f].num)
              /\ saturating_to_int(patch[f].num) >= 0
<1> DEFINE new == Patched(settings, route, patch)
<1>1. DOMAIN settings = Settings
  BY DEF GoodSettings
<1>2. new = [f \in Settings |-> new[f]]
  BY <1>1, PatchedField
<1> HIDE DEF new
<1>3. ASSUME NEW f \in NumberFields \cap Settings PROVE new[f] \in RangeOf(f)
  BY <1>1, PatchedInRange DEF GoodSettings, new
<1>4. ASSUME NEW f \in CoordinateFields PROVE new[f] \subseteq RangeOf(f)
  BY <1>1, PatchedInRange, CoordinatesAreSettings DEF GoodSettings, new
<1>5. ASSUME NEW f \in Taken(route, patch) \cap NumberFields
      PROVE  /\ patch[f].num \in Int
             /\ new[f] = saturating_to_int(patch[f].num)
             /\ saturating_to_int(patch[f].num) >= 0
  <2>1. f \in DOMAIN patch /\ f \in Settings
    BY RouteFields DEF Taken
  <2>2. new[f] = saturating_to_int(patch[f].num) /\ new[f] \in RangeOf(f)
    BY <1>1, <2>1, PatchedInRange DEF new
  <2> QED
    BY <2>1, <2>2, RangesArePositive, RuntimeConfigAssumption
<1> QED
  BY <1>2, <1>3, <1>4, <1>5 DEF GoodSettings, new

LEMMA UploadKeepsSettings ==
  ASSUME NEW settings, GoodSettings(settings), NEW f \in FieldsOf("geoip-config"), NEW path
  PROVE  GoodSettings([settings EXCEPT ![f] = path])
<1>1. f \notin NumberFields /\ f \notin CoordinateFields
  BY DEF FieldsOf, NumberFields, PortFields, PositiveFields, CoordinateFields
<1>2. \A g : g # f /\ g \in Settings => [settings EXCEPT ![f] = path][g] = settings[g]
  BY DEF GoodSettings
<1>3. [settings EXCEPT ![f] = path] = [g \in Settings |-> [settings EXCEPT ![f] = path][g]]
  BY DEF GoodSettings
<1> QED
  BY <1>1, <1>2, <1>3, CoordinatesAreSettings DEF GoodSettings

LEMMA SettingsReadBack ==
  ASSUME NEW settings, GoodSettings(settings)
  PROVE  [f \in Settings |-> ReadSetting(f, WrittenSettings(settings))] = settings
<1>1. settings = [f \in Settings |-> settings[f]]
  BY DEF GoodSettings
<1>2. WrittenSettings(settings) = settings
  BY <1>1 DEF WrittenSettings
<1>3. ASSUME NEW f \in Settings PROVE ReadSetting(f, settings) = settings[f]
  <2>1. f \in DOMAIN settings
    BY <1>1
  <2>2. CASE f \in CoordinateFields /\ settings[f] = {}
    BY <2>1, <2>2, DefaultCoordinate DEF ReadSetting
  <2>3. CASE ~(f \in CoordinateFields /\ settings[f] = {})
    BY <2>1, <2>3 DEF ReadSetting
  <2> QED
    BY <2>2, <2>3
<1> QED
  BY <1>1, <1>2, <1>3

-----------------------------------------------------------------------------
(***************************************************************************)
(* The inductive invariant: ConfigIsUsable in the terms of the lemmas      *)
(* above.                                                                  *)
(***************************************************************************)
GoodConfig(c) ==
  /\ c = [lists |-> c.lists, sites |-> c.sites, pages |-> c.pages, settings |-> c.settings]
  /\ UsableLists(c.lists) /\ GoodSites(c.sites)
  /\ GoodPages(c.pages) /\ GoodSettings(c.settings)

GoodBlocks(blocks) == blocks \in [Texts -> {"none", "active", "expired"}]

GoodFetches(fetches, imports) ==
  /\ imports \in [Fetches -> ListNames \cup {"none"}]
  /\ fetches \in [Fetches -> Fetch]
  /\ \A r \in Fetches : fetches[r].at = "idle" <=> imports[r] = "none"

IInv ==
  /\ GoodConfig(config) /\ GoodBlocks(temp) /\ GoodFetches(fetch, importing)
  /\ scenario \in Scenarios
  /\ NumbersAreTheOnesSent

LEMMA Replaced ==
  ASSUME NEW c, GoodConfig(c), NEW x
  PROVE  /\ UsableLists(x) => /\ GoodConfig([c EXCEPT !.lists = x])
                              /\ [c EXCEPT !.lists = x].lists = x
         /\ GoodSites(x) => /\ GoodConfig([c EXCEPT !.sites = x])
                            /\ [c EXCEPT !.sites = x].lists = c.lists
         /\ GoodPages(x) => /\ GoodConfig([c EXCEPT !.pages = x])
                            /\ [c EXCEPT !.pages = x].lists = c.lists
         /\ GoodSettings(x) => /\ GoodConfig([c EXCEPT !.settings = x])
                               /\ [c EXCEPT !.settings = x].lists = c.lists
                               /\ [c EXCEPT !.settings = x].settings = x
  BY DEF GoodConfig

LEMMA ReadBack ==
  ASSUME NEW c, GoodConfig(c)
  PROVE  LET kept == [v \in Vectors |-> {t \in c.lists[v] : t.kind # "blank"}]
         IN  /\ parse_yaml_config(to_yaml_config(c)) = [c EXCEPT !.lists = kept]
             /\ UsableLists(kept)
<1> DEFINE kept == [v \in Vectors |-> {t \in c.lists[v] : t.kind # "blank"}]
           root == to_yaml_config(c)
<1>1. /\ root.lists = WrittenLists(c.lists) /\ root.sites = c.sites /\ root.pages = c.pages
      /\ root.settings = WrittenSettings(c.settings)
  BY DEF to_yaml_config
<1>2. read_lists(root.lists) = kept
  BY <1>1, ListsReadBack DEF GoodConfig
<1>3. read_sites(root.sites) = c.sites
  BY <1>1, SitesReadBack DEF GoodConfig
<1>4. [f \in Settings |-> ReadSetting(f, root.settings)] = c.settings
  BY <1>1, SettingsReadBack DEF GoodConfig
<1>5. UsableLists(kept)
  BY DEF GoodConfig, UsableLists
<1> HIDE DEF kept, root
<1>6. parse_yaml_config(root) =
        [lists |-> kept, sites |-> c.sites, pages |-> c.pages, settings |-> c.settings]
  BY <1>1, <1>2, <1>3, <1>4, Zenon DEF parse_yaml_config
<1>7. [c EXCEPT !.lists = kept] =
        [lists |-> kept, sites |-> c.sites, pages |-> c.pages, settings |-> c.settings]
  BY DEF GoodConfig
<1> QED
  BY <1>5, <1>6, <1>7 DEF kept, root

\* The invariant says no less than the properties.
LEMMA Usable == IInv => ConfigIsUsable
<1> SUFFICES ASSUME IInv PROVE ConfigIsUsable
  OBVIOUS
<1> DEFINE c == config
<1>1. /\ c = [lists |-> c.lists, sites |-> c.sites, pages |-> c.pages, settings |-> c.settings]
      /\ UsableLists(c.lists) /\ GoodSites(c.sites)
      /\ GoodPages(c.pages) /\ GoodSettings(c.settings)
  BY Zenon DEF IInv, GoodConfig
<1>2. config \in Config
  <2>1. c.lists \in [Vectors -> SUBSET Texts]
    BY <1>1 DEF UsableLists
  <2>2. c.sites \in Seq([domain : Domains, fields : {c.sites[i].fields : i \in DOMAIN c.sites}])
    BY <1>1, Zenon DEF GoodSites, Site
  <2>3. c.pages \in Seq([code : Int, html : {"h1", "h2"}])
    BY <1>1, Zenon DEF GoodPages, Page
  <2>4. c.settings \in {[f \in Settings |-> c.settings[f]]}
    BY <1>1, Zenon DEF GoodSettings
  <2> QED
    BY <1>1, <2>1, <2>2, <2>3, <2>4, Zenon DEF Config
<1>3. \A i \in DOMAIN c.sites :
        /\ DOMAIN c.sites[i].fields = FieldsOf("sites")
        /\ c.sites[i].fields["site.upstream_port"] \in 1 .. PortMax
        /\ BareHostname(c.sites[i].domain) /\ ~c.sites[i].domain.upper
  BY <1>1, Zenon DEF GoodSites, GoodSite, GoodFields
<1>4. TypeOK
  BY <1>2, <1>3, Zenon DEF IInv, GoodBlocks, GoodFetches, TypeOK
<1>5. EntriesAreUsable
  BY <1>1, Zenon DEF UsableLists, EntriesAreUsable
<1>6. StoredNumbersAreValid
  BY <1>1, <1>3, Zenon DEF GoodPages, GoodSettings, StoredNumbersAreValid
<1>7. NamesAreUnambiguous
  BY <1>1, <1>3, NamesResolve, Zenon DEF GoodPages, NamesAreUnambiguous
<1> QED
  BY <1>4, <1>5, <1>6, <1>7 DEF IInv, ConfigIsUsable

LEMMA InitIInv == Init => IInv
<1> SUFFICES ASSUME Init PROVE IInv
  OBVIOUS
<1>1. UsableLists([v \in Vectors |-> {}])
  BY DEF UsableLists
<1>2. GoodSites(<<>>) /\ GoodPages(<<>>)
  BY DEF GoodSites, GoodPages
<1>3. GoodConfig(config)
  BY <1>1, <1>2, DefaultsAreGood DEF Init, DefaultConfig, GoodConfig
<1>4. GoodBlocks(temp)
  BY DEF Init, GoodBlocks
<1>5. NoFetch \in Fetch /\ NoFetch.at = "idle"
  BY DEF NoFetch, Fetch
<1>6. GoodFetches(fetch, importing)
  <2>1. "none" \in ListNames \cup {"none"}
    OBVIOUS
  <2> HIDE DEF NoFetch
  <2> QED
    BY <1>5, <2>1 DEF Init, GoodFetches
<1>7. NumbersAreTheOnesSent
  BY DEF Init, NoRequest, NumbersAreTheOnesSent
<1> QED
  BY <1>3, <1>4, <1>6, <1>7 DEF Init, IInv

-----------------------------------------------------------------------------
(***************************************************************************)
(* What the steps have in common.                                          *)
(***************************************************************************)
LEMMA Answered ==
  ASSUME NEW op, NEW list, NEW text, NEW ok, Answer(op, list, text, ok)
  PROVE  last'.op = op /\ last'.list = list /\ last'.text = text /\ last'.ok = ok
  BY DEF Answer, NoRequest

LEMMA KeepsNumbers ==
  ASSUME IInv, last'.op # "settings" \/ UNCHANGED <<config, last>>
  PROVE  NumbersAreTheOnesSent'
<1>1. CASE last'.op # "settings"
  BY <1>1 DEF NumbersAreTheOnesSent
<1>2. CASE UNCHANGED <<config, last>>
  BY <1>2 DEF IInv, NumbersAreTheOnesSent
<1> QED
  BY <1>1, <1>2

\* A step that answers no settings request keeps the invariant if it keeps the
\* parts it touches.
LEMMA Keeps ==
  ASSUME IInv, last'.op # "settings" \/ UNCHANGED <<config, last>>,
         GoodConfig(config'), GoodBlocks(temp'), GoodFetches(fetch', importing'),
         UNCHANGED scenario
  PROVE  IInv'
<1>1. NumbersAreTheOnesSent'
  BY KeepsNumbers
<1> QED
  BY <1>1 DEF IInv

LEMMA Untouched ==
  ASSUME IInv
  PROVE  /\ UNCHANGED config => GoodConfig(config')
         /\ UNCHANGED temp => GoodBlocks(temp')
         /\ UNCHANGED <<importing, fetch>> => GoodFetches(fetch', importing')
  BY DEF IInv

LEMMA SameLists ==
  ASSUME config'.lists = config.lists
  PROVE  ListsFollow
  BY DEF ListsFollow

LEMMA GrownLists ==
  ASSUME NEW list, last'.op \in {"add", "import"}, last'.list = list, last'.ok,
         \A v \in Vectors : /\ config.lists[v] \subseteq config'.lists[v]
                            /\ v[1] # list => config'.lists[v] = config.lists[v]
  PROVE  ListsFollow
<1> SUFFICES ASSUME NEW v \in Vectors
             PROVE  /\ config.lists[v] \ config'.lists[v] = {}
                    /\ \/ config'.lists[v] \subseteq config.lists[v]
                       \/ last'.op \in {"add", "import"} /\ last'.list = v[1] /\ last'.ok
  BY DEF ListsFollow
<1>1. config.lists[v] \ config'.lists[v] = {}
  OBVIOUS
<1>2. CASE v[1] = list
  BY <1>1, <1>2, Zenon
<1>3. CASE v[1] # list
  <2>1. config'.lists[v] = config.lists[v]
    BY <1>3
  <2> QED
    BY <1>1, <2>1, Zenon
<1> QED
  BY <1>2, <1>3

\* Publish, of what an operation on the lists returned.
LEMMA Published ==
  ASSUME IInv, NEW lists, UsableLists(lists), Publish(lists)
  PROVE  GoodConfig(config') /\ config'.lists = lists
<1>1. GoodConfig(config)
  BY DEF IInv
<1> QED
  BY <1>1, Replaced, Zenon DEF Publish

LEMMA GoodNow ==
  ASSUME IInv
  PROVE  /\ UsableLists(config.lists) /\ GoodSites(config.sites)
         /\ GoodPages(config.pages) /\ GoodSettings(config.settings)
         /\ GoodConfig(config)
  BY Zenon DEF IInv, GoodConfig

LEMMA PublishAdd ==
  ASSUME IInv, NEW list, NEW t \in Texts, Admits(list, t),
         Publish(add_entries(config.lists, list, {t})),
         last'.op = "add", last'.list = list, last'.ok
  PROVE  GoodConfig(config') /\ ListsFollow
<1> DEFINE new == add_entries(config.lists, list, {t})
<1>1. /\ UsableLists(new)
      /\ \A v \in Vectors : /\ config.lists[v] \subseteq new[v]
                            /\ v[1] # list => new[v] = config.lists[v]
  <2>1. {t} \in SUBSET Texts /\ \A x \in {t} : Admits(list, x)
    OBVIOUS
  <2> QED
    BY <2>1, GoodNow, AddKeeps
<1> HIDE DEF new
<1>2. GoodConfig(config') /\ config'.lists = new
  BY <1>1, Published DEF new
<1>3. \A v \in Vectors : /\ config.lists[v] \subseteq config'.lists[v]
                         /\ v[1] # list => config'.lists[v] = config.lists[v]
  BY <1>1, <1>2
<1>4. last'.op \in {"add", "import"}
  OBVIOUS
<1>5. ListsFollow
  BY <1>3, <1>4, GrownLists
<1> QED
  BY <1>2, <1>5

LEMMA PublishImport ==
  ASSUME IInv, NEW list, NEW body \in SUBSET Texts,
         Publish(import_entries(config.lists, list, body)),
         last'.op = "import", last'.list = list, last'.ok
  PROVE  GoodConfig(config') /\ ListsFollow
<1> DEFINE new == import_entries(config.lists, list, body)
<1>1. /\ UsableLists(new)
      /\ \A v \in Vectors : /\ config.lists[v] \subseteq new[v]
                            /\ v[1] # list => new[v] = config.lists[v]
  BY GoodNow, ImportKeeps
<1> HIDE DEF new
<1>2. GoodConfig(config') /\ config'.lists = new
  BY <1>1, Published DEF new
<1>3. \A v \in Vectors : /\ config.lists[v] \subseteq config'.lists[v]
                         /\ v[1] # list => config'.lists[v] = config.lists[v]
  BY <1>1, <1>2
<1>4. last'.op \in {"add", "import"}
  OBVIOUS
<1>5. ListsFollow
  BY <1>3, <1>4, GrownLists
<1> QED
  BY <1>2, <1>5

LEMMA PublishRemove ==
  ASSUME IInv, NEW list, NEW t,
         Publish(remove_entry(config.lists, list, t)),
         last'.op = "remove", last'.list = list, last'.text = t
  PROVE  GoodConfig(config') /\ ListsFollow
<1> DEFINE new == remove_entry(config.lists, list, t)
<1>1. /\ UsableLists(new)
      /\ \A v \in Vectors : /\ new[v] \subseteq config.lists[v]
                            /\ config.lists[v] \ new[v] \subseteq {t}
                            /\ v[1] # list => new[v] = config.lists[v]
  BY GoodNow, RemoveKeeps
<1> HIDE DEF new
<1>2. GoodConfig(config') /\ config'.lists = new
  BY <1>1, Published DEF new
<1>3. ListsFollow
  BY <1>1, <1>2 DEF ListsFollow
<1> QED
  BY <1>2, <1>3

-----------------------------------------------------------------------------
(***************************************************************************)
(* Requests for the lists.                                                 *)
(***************************************************************************)
LEMMA AddEntryStep ==
  ASSUME IInv, NEW list, NEW t \in Texts, AddEntry(list, t)
  PROVE  IInv' /\ ListsFollow
<1>1. Answer("add", list, t, Admits(list, t)) /\ UNCHANGED <<temp, importing, scenario, fetch>>
  BY Zenon DEF AddEntry, others
<1>2. last'.op = "add" /\ last'.list = list /\ last'.ok = Admits(list, t)
  BY <1>1, Answered, Zenon
<1>3. GoodConfig(config') /\ ListsFollow
  <2>1. CASE Admits(list, t)
    <3>1. Publish(add_entries(config.lists, list, {t}))
      BY <2>1, Zenon DEF AddEntry
    <3>2. last'.ok
      BY <1>2, <2>1, Zenon
    <3> QED
      BY <1>2, <2>1, <3>1, <3>2, PublishAdd, Zenon
  <2>2. CASE ~Admits(list, t)
    <3>1. UNCHANGED config
      BY <2>2, Zenon DEF AddEntry
    <3> QED
      BY <3>1, Untouched, SameLists
  <2> QED
    BY <2>1, <2>2
<1>4. last'.op # "settings"
  BY <1>2
<1> QED
  BY <1>1, <1>3, <1>4, Keeps, Untouched

LEMMA RemoveEntryStep ==
  ASSUME IInv, NEW list, NEW t, RemoveEntry(list, t)
  PROVE  IInv' /\ ListsFollow
<1>1. /\ Answer("remove", list, t, TRUE) /\ UNCHANGED <<temp, importing, scenario, fetch>>
      /\ Publish(remove_entry(config.lists, list, t))
  BY Zenon DEF RemoveEntry, others
<1>2. last'.op = "remove" /\ last'.list = list /\ last'.text = t
  BY <1>1, Answered, Zenon
<1>3. GoodConfig(config') /\ ListsFollow
  BY <1>1, <1>2, PublishRemove, Zenon
<1>4. last'.op # "settings"
  BY <1>2
<1> QED
  BY <1>1, <1>3, <1>4, Keeps, Untouched

LEMMA ClearListStep ==
  ASSUME IInv, NEW list, ClearList(list)
  PROVE  IInv' /\ ListsFollow
<1> DEFINE new == clear_list(config.lists, list)
<1>1. /\ Answer("clear", list, Empty, TRUE) /\ UNCHANGED <<temp, importing, scenario, fetch>>
      /\ Publish(new)
  BY Zenon DEF ClearList, others
<1>2. last'.op = "clear" /\ last'.list = list
  BY <1>1, Answered, Zenon
<1>3. /\ UsableLists(new)
      /\ \A v \in Vectors : /\ new[v] \subseteq config.lists[v]
                            /\ v[1] # list => new[v] = config.lists[v]
  BY GoodNow, ClearKeeps
<1> HIDE DEF new
<1>4. GoodConfig(config') /\ config'.lists = new
  BY <1>1, <1>3, Published
<1>5. ListsFollow
  BY <1>2, <1>3, <1>4 DEF ListsFollow
<1>6. last'.op # "settings"
  BY <1>2
<1> QED
  BY <1>1, <1>4, <1>5, <1>6, Keeps, Untouched

LEMMA ImportFileStep ==
  ASSUME IInv, NEW list, NEW body \in SUBSET Texts, ImportFile(list, body)
  PROVE  IInv' /\ ListsFollow
<1>1. /\ Answer("import", list, Empty, TRUE) /\ UNCHANGED <<temp, importing, scenario, fetch>>
      /\ Publish(import_entries(config.lists, list, body))
  BY Zenon DEF ImportFile, others
<1>2. last'.op = "import" /\ last'.list = list /\ last'.ok
  BY <1>1, Answered, Zenon
<1>3. GoodConfig(config') /\ ListsFollow
  BY <1>1, <1>2, PublishImport, Zenon
<1>4. last'.op # "settings"
  BY <1>2
<1> QED
  BY <1>1, <1>3, <1>4, Keeps, Untouched

LEMMA BlocksPruned ==
  ASSUME NEW blocks, GoodBlocks(blocks)
  PROVE  /\ GoodBlocks(Pruned(blocks))
         /\ \A t \in Texts, x \in {"none", "active", "expired"} :
              GoodBlocks([blocks EXCEPT ![t] = x])
  BY DEF GoodBlocks, Pruned

LEMMA AddIpBlockStep ==
  ASSUME IInv, NEW t \in Texts, NEW halves, AddIpBlock(t, halves)
  PROVE  IInv' /\ ListsFollow
<1> DEFINE hours == saturating_to_int(halves)
<1>0. UNCHANGED <<importing, scenario, fetch>> /\ GoodBlocks(temp)
  BY Zenon DEF AddIpBlock, IInv
<1>1. CASE hours > MaxBanHours /\ Answer("temporary", IpList, t, FALSE)
           /\ UNCHANGED <<config, temp>>
  <2>1. last'.op = "temporary"
    BY <1>1, Answered, Zenon
  <2> QED
    BY <1>0, <1>1, <2>1, Keeps, Untouched, SameLists
<1>2. CASE hours \in 1 .. MaxBanHours /\ AddTemporary(t)
  <2>1. Answer("temporary", IpList, t, Admits(IpList, t)) /\ UNCHANGED config
    BY <1>2, Zenon DEF AddTemporary
  <2>2. last'.op # "settings"
    BY <2>1, Answered
  <2>3. GoodBlocks(temp')
    BY <1>0, <1>2, BlocksPruned DEF AddTemporary
  <2> QED
    BY <1>0, <2>1, <2>2, <2>3, Keeps, Untouched, SameLists
<1>3. CASE hours < 1 /\ AddPermanent(t)
  <2>1. Answer("add", IpList, t, Admits(IpList, t))
    BY <1>3, Zenon DEF AddPermanent
  <2>2. last'.op = "add" /\ last'.list = IpList /\ last'.ok = Admits(IpList, t)
    BY <2>1, Answered, Zenon
  <2>3. GoodBlocks(temp')
    BY <1>0, <1>3, BlocksPruned DEF AddPermanent
  <2>4. GoodConfig(config') /\ ListsFollow
    <3>1. CASE Admits(IpList, t)
      <4>1. Publish(add_entries(config.lists, IpList, {t}))
        BY <1>3, <3>1, Zenon DEF AddPermanent
      <4>2. last'.ok
        BY <2>2, <3>1, Zenon
      <4> QED
        BY <2>2, <3>1, <4>1, <4>2, PublishAdd, Zenon
    <3>2. CASE ~Admits(IpList, t)
      <4>1. UNCHANGED config
        BY <1>3, <3>2, Zenon DEF AddPermanent
      <4> QED
        BY <4>1, Untouched, SameLists
    <3> QED
      BY <3>1, <3>2
  <2>5. last'.op # "settings"
    BY <2>2
  <2> QED
    BY <1>0, <2>3, <2>4, <2>5, Keeps, Untouched
<1> QED
  BY <1>1, <1>2, <1>3, Zenon DEF AddIpBlock

LEMMA RemoveIpBlockStep ==
  ASSUME IInv, NEW t \in Texts, RemoveIpBlock(t)
  PROVE  IInv' /\ ListsFollow
<1>1. /\ Answer("remove", IpList, t, TRUE) /\ UNCHANGED <<importing, scenario, fetch>>
      /\ temp' = Pruned([temp EXCEPT ![t] = "none"])
      /\ temp[t] # "none" => UNCHANGED config
      /\ temp[t] = "none" => Publish(remove_entry(config.lists, IpList, t))
  BY Zenon DEF RemoveIpBlock
<1>2. last'.op = "remove" /\ last'.list = IpList /\ last'.text = t
  BY <1>1, Answered, Zenon
<1>3. GoodBlocks(temp')
  BY <1>1, BlocksPruned DEF IInv
<1>4. GoodConfig(config') /\ ListsFollow
  <2>1. CASE temp[t] # "none"
    BY <1>1, <2>1, Untouched, SameLists
  <2>2. CASE temp[t] = "none"
    BY <1>1, <1>2, <2>2, PublishRemove, Zenon
  <2> QED
    BY <2>1, <2>2
<1>5. last'.op # "settings"
  BY <1>2
<1> QED
  BY <1>1, <1>3, <1>4, <1>5, Keeps, Untouched

\* Temporary blocks come and go beside the configuration.
LEMMA BlocksOnly ==
  ASSUME IInv, UNCHANGED <<config, importing, last, scenario, fetch>>, GoodBlocks(temp')
  PROVE  IInv' /\ ListsFollow
  BY Keeps, Untouched, SameLists

LEMMA BlockSteps ==
  ASSUME IInv, BlockStep
  PROVE  IInv' /\ ListsFollow
<1>1. GoodBlocks(temp) /\ scenario.texts \subseteq Texts
  BY ScenarioAssumption DEF IInv
<1>2. ASSUME NEW t \in Texts, ScoreBan(t) \/ Expire(t) PROVE IInv' /\ ListsFollow
  <2>1. GoodBlocks(temp') /\ UNCHANGED <<config, importing, last, scenario, fetch>>
    BY <1>1, <1>2, BlocksPruned DEF ScoreBan, Expire
  <2> QED
    BY <2>1, BlocksOnly
<1>3. CASE Prune
  <2>1. GoodBlocks(temp') /\ UNCHANGED <<config, importing, last, scenario, fetch>>
    BY <1>1, <1>3, BlocksPruned DEF Prune
  <2> QED
    BY <2>1, BlocksOnly
<1> QED
  BY <1>1, <1>2, <1>3 DEF BlockStep

-----------------------------------------------------------------------------
(***************************************************************************)
(* Imports from a URL.                                                     *)
(***************************************************************************)
LEMMA FetchChanged ==
  ASSUME NEW fetches, NEW imports, GoodFetches(fetches, imports), NEW r \in Fetches,
         NEW x \in Fetch,
         NEW list \in ListNames \cup {"none"}, x.at = "idle" <=> list = "none"
  PROVE  GoodFetches([fetches EXCEPT ![r] = x], [imports EXCEPT ![r] = list])
  BY DEF GoodFetches

LEMMA NoneIsNoList == "none" \notin ListNames
  BY DEF ListNames, IpLists, EntryLists

LEMMA FetchShape ==
  ASSUME IInv, NEW r \in Fetches
  PROVE  /\ fetch[r] \in Fetch
         /\ importing[r] \in ListNames \cup {"none"}
         /\ fetch[r].at # "idle" => importing[r] \in ListNames
         /\ fetch[r].at = "idle" <=> importing[r] = "none"
         /\ importing = [importing EXCEPT ![r] = importing[r]]
  BY DEF IInv, GoodFetches

LEMMA RecordExcept ==
  ASSUME NEW A, NEW B, NEW C, NEW D, NEW f \in [at : A, https : B, ok : C, body : D],
         NEW x \in A
  PROVE  /\ [f EXCEPT !.at = x] \in [at : A, https : B, ok : C, body : D]
         /\ [f EXCEPT !.at = x].at = x
         /\ \A y \in B : LET g == [f EXCEPT !.at = x, !.https = y]
                         IN  g \in [at : A, https : B, ok : C, body : D] /\ g.at = x
         /\ \A y \in C, z \in D : LET g == [f EXCEPT !.at = x, !.ok = y, !.body = z]
                                  IN  g \in [at : A, https : B, ok : C, body : D] /\ g.at = x
  OBVIOUS

Stages == Timed \cup {"idle", "resolve"}

LEMMA FetchAt ==
  ASSUME NEW f \in Fetch, NEW x \in Stages, NEW g, g = [f EXCEPT !.at = x]
  PROVE  g \in Fetch /\ g.at = x
  BY RecordExcept, Zenon DEF Fetch, Stages

WithHttps(f, x, y) == [f EXCEPT !.at = x, !.https = y]
WithBody(f, x, y)  == [f EXCEPT !.at = x, !.ok = TRUE, !.body = y]

LEMMA FetchWith ==
  ASSUME NEW f \in Fetch, NEW x \in Stages
  PROVE  /\ \A y \in BOOLEAN : WithHttps(f, x, y) \in Fetch /\ WithHttps(f, x, y).at = x
         /\ \A y \in SUBSET Texts : WithBody(f, x, y) \in Fetch /\ WithBody(f, x, y).at = x
<1>1. TRUE \in BOOLEAN
  OBVIOUS
<1> QED
  BY <1>1, RecordExcept, Zenon DEF Fetch, Stages, WithHttps, WithBody

LEMMA NestedExcept ==
  ASSUME NEW f, NEW r \in DOMAIN f, NEW x, NEW y
  PROVE  /\ [f EXCEPT ![r].at = x] = [f EXCEPT ![r] = [f[r] EXCEPT !.at = x]]
         /\ [f EXCEPT ![r].at = x, ![r].ok = TRUE, ![r].body = y] =
              [f EXCEPT ![r] = [f[r] EXCEPT !.at = x, !.ok = TRUE, !.body = y]]
  OBVIOUS

LEMMA ImportUrlStep ==
  ASSUME IInv, NEW r \in Fetches, NEW list \in ListNames, NEW https \in BOOLEAN,
         ImportUrl(r, list, https)
  PROVE  IInv' /\ ListsFollow
<1> DEFINE x == WithHttps(NoFetch, "resolve", https)
<1>1. /\ fetch' = [fetch EXCEPT ![r] = x]
      /\ importing' = [importing EXCEPT ![r] = list]
      /\ UNCHANGED <<config, temp, last, scenario>>
  BY Zenon DEF ImportUrl, StartFetch, WithHttps
<1>2. NoFetch \in Fetch
  BY DEF NoFetch, Fetch
<1>3. "resolve" \in Stages
  BY DEF Stages
<1>4. x \in Fetch /\ x.at = "resolve"
  BY <1>2, <1>3, FetchWith
<1> HIDE DEF x
<1>5. list # "none" /\ list \in ListNames \cup {"none"} /\ x.at # "idle"
  BY <1>4, NoneIsNoList
<1>6. GoodFetches(fetch', importing')
  BY <1>1, <1>4, <1>5, FetchChanged DEF IInv
<1> QED
  BY <1>1, <1>6, Keeps, Untouched, SameLists

LEMMA FetchEnded ==
  ASSUME IInv, NEW r \in Fetches, EndFetch(r), importing' = [importing EXCEPT ![r] = "none"]
  PROVE  GoodFetches(fetch', importing')
<1>1. NoFetch \in Fetch /\ NoFetch.at = "idle"
  BY DEF NoFetch, Fetch
<1>2. fetch' = [fetch EXCEPT ![r] = NoFetch]
  BY DEF EndFetch
<1> QED
  BY <1>1, <1>2, FetchChanged DEF IInv

LEMMA ImportFailedStep ==
  ASSUME IInv, NEW r \in Fetches, ImportFailed(r)
  PROVE  IInv' /\ ListsFollow
<1>1. /\ EndFetch(r)
      /\ importing' = [importing EXCEPT ![r] = "none"]
      /\ Answer("import", importing[r], Empty, FALSE)
      /\ UNCHANGED <<config, temp, scenario>>
  BY Zenon DEF ImportFailed, ResolveFails, PeerFails, TimerFires
<1>2. last'.op = "import"
  BY <1>1, Answered, Zenon
<1>3. GoodFetches(fetch', importing')
  BY <1>1, FetchEnded
<1> QED
  BY <1>1, <1>2, <1>3, Keeps, Untouched, SameLists

LEMMA ApplyImportStep ==
  ASSUME IInv, NEW r \in Fetches, NEW body \in SUBSET Texts, ApplyImport(r, body)
  PROVE  IInv' /\ ListsFollow
<1>1. /\ Publish(import_entries(config.lists, importing[r], body))
      /\ importing' = [importing EXCEPT ![r] = "none"]
      /\ Answer("import", importing[r], Empty, TRUE)
      /\ EndFetch(r) /\ UNCHANGED <<temp, scenario>>
  BY Zenon DEF ApplyImport
<1>2. last'.op = "import" /\ last'.list = importing[r] /\ last'.ok
  BY <1>1, Answered, Zenon
<1>3. GoodFetches(fetch', importing')
  BY <1>1, FetchEnded
<1>4. GoodConfig(config') /\ ListsFollow
  BY <1>1, <1>2, PublishImport, Zenon
<1>5. last'.op # "settings"
  BY <1>2
<1> QED
  BY <1>1, <1>3, <1>4, <1>5, Keeps, Untouched

LEMMA ScenarioBodies ==
  ASSUME IInv
  PROVE  /\ scenario.lists \subseteq ListNames /\ scenario.texts \subseteq Texts
         /\ \A body \in scenario.bodies : body \in SUBSET Texts
         /\ scenario.domains \subseteq Domains
         /\ \A body \in scenario.patches :
              /\ body.route \in SettingRoutes \cup {"sites"}
              /\ \A f \in DOMAIN body.patch : body.patch[f].num \in Int
  BY ScenarioAssumption DEF IInv

LEMMA FetchEndsStep ==
  ASSUME IInv, NEW r \in Fetches, FetchEnds(r)
  PROVE  IInv' /\ ListsFollow
<1>1. CASE ImportFailed(r)
  BY <1>1, ImportFailedStep
<1>2. CASE ImportFetched(r)
  <2>1. fetch[r].body \in SUBSET Texts
    BY FetchShape DEF Fetch
  <2>2. PICK body \in SUBSET Texts : ApplyImport(r, body)
    BY <1>2, <2>1, ScenarioBodies, Zenon DEF ImportFetched
  <2> QED
    BY <2>2, ApplyImportStep
<1> QED
  BY <1>1, <1>2 DEF FetchEnds

LEMMA FetchAdvances ==
  ASSUME IInv, NEW r \in Fetches, NEW x \in Fetch, x.at # "idle",
         fetch[r].at # "idle", fetch' = [fetch EXCEPT ![r] = x],
         UNCHANGED <<config, temp, importing, last, scenario>>
  PROVE  IInv' /\ ListsFollow
<1>1. /\ importing[r] \in ListNames \cup {"none"} /\ importing[r] # "none"
      /\ importing' = [importing EXCEPT ![r] = importing[r]]
  BY FetchShape
<1>2. GoodFetches([fetch EXCEPT ![r] = x], [importing EXCEPT ![r] = importing[r]])
  <2>1. GoodFetches(fetch, importing)
    BY DEF IInv
  <2> QED
    BY <1>1, <2>1, FetchChanged
<1>3. GoodFetches(fetch', importing')
  BY <1>1, <1>2, Zenon
<1> QED
  BY <1>3, Keeps, Untouched, SameLists

LEMMA FetchStepStep ==
  ASSUME IInv, NEW r \in Fetches, FetchStep(r)
  PROVE  IInv' /\ ListsFollow
<1>1. UNCHANGED <<config, temp, importing, last, scenario>>
  BY Zenon DEF FetchStep
<1>2. fetch[r] \in Fetch /\ r \in DOMAIN fetch
  BY FetchShape DEF IInv, GoodFetches
<1>3. \A at \in Timed : at # "idle" /\ at \in Stages
  BY DEF Timed, Stages
<1>4. ASSUME NEW x \in Fetch, NEW at \in Timed, x.at = at,
             fetch[r].at # "idle", fetch' = [fetch EXCEPT ![r] = x]
      PROVE  IInv' /\ ListsFollow
  BY <1>1, <1>3, <1>4, FetchAdvances
<1>5. ASSUME NEW at \in Timed, fetch[r].at # "idle", fetch' = [fetch EXCEPT ![r].at = at]
      PROVE  IInv' /\ ListsFollow
  <2> DEFINE x == [fetch[r] EXCEPT !.at = at]
  <2>1. fetch' = [fetch EXCEPT ![r] = x]
    BY <1>2, <1>5, NestedExcept, Zenon
  <2>2. x = [fetch[r] EXCEPT !.at = at]
    OBVIOUS
  <2> HIDE DEF x
  <2>3. x \in Fetch /\ x.at = at
    BY <1>2, <1>3, <2>2, FetchAt
  <2> QED
    BY <1>4, <1>5, <2>1, <2>3
<1>6. CASE Resolved(r)
  BY <1>5, <1>6 DEF Resolved, Timed
<1>7. CASE ReadError(r)
  BY <1>5, <1>7 DEF ReadError, Timed
<1>8. CASE Advance(r)
  <2>1. fetch[r].at # "idle" /\ NextStage(r) \in Timed
    BY <1>8 DEF Advance, NextStage, Timed
  <2>2. fetch' = [fetch EXCEPT ![r].at = NextStage(r)]
    BY <1>8, Zenon DEF Advance
  <2> QED
    BY <1>5, <2>1, <2>2
<1>9. ASSUME NEW body \in SUBSET Texts, ReadBody(r, body) PROVE IInv' /\ ListsFollow
  <2> DEFINE x == WithBody(fetch[r], "shutdown", body)
  <2>1. fetch[r].at # "idle" /\ "shutdown" \in Timed
    BY <1>9 DEF ReadBody, Timed
  <2>2. fetch' = [fetch EXCEPT ![r].at = "shutdown", ![r].ok = TRUE, ![r].body = body]
    BY <1>9, Zenon DEF ReadBody
  <2>3. fetch' = [fetch EXCEPT ![r] = x]
    BY <1>2, <2>2, NestedExcept, Zenon DEF WithBody
  <2>4. x \in Fetch /\ x.at = "shutdown"
    <3>1. fetch[r] \in Fetch /\ "shutdown" \in Stages
      BY <1>2, <1>3, <2>1
    <3> QED
      BY <3>1, FetchWith
  <2> HIDE DEF x
  <2> QED
    BY <1>4, <2>1, <2>3, <2>4
<1> QED
  BY <1>6, <1>7, <1>8, <1>9, ScenarioBodies, Zenon DEF FetchStep

-----------------------------------------------------------------------------
(***************************************************************************)
(* Settings, sites and status pages.                                       *)
(***************************************************************************)
LEMMA SettingsAnswered ==
  ASSUME NEW route, NEW ok, NEW patch,
         last' = [NoRequest EXCEPT !.op = "settings", !.list = route, !.ok = ok, !.patch = patch]
  PROVE  last'.op = "settings" /\ last'.list = route /\ last'.ok = ok /\ last'.patch = patch
  BY DEF NoRequest

LEMMA UpdateSettingsStep ==
  ASSUME IInv, NEW route \in SettingRoutes, NEW patch,
         \A f \in DOMAIN patch : patch[f].num \in Int, UpdateSettings(route, patch)
  PROVE  IInv' /\ ListsFollow
<1> DEFINE ok == ~Incomplete(route, patch) /\ ~Refused(config.settings, route, patch)
           new == Patched(config.settings, route, patch)
<1>1. /\ ok => config' = [config EXCEPT !.settings = new]
      /\ ~ok => UNCHANGED config
      /\ last' = [NoRequest EXCEPT !.op = "settings", !.list = route, !.ok = ok, !.patch = patch]
      /\ UNCHANGED <<temp, importing, scenario, fetch>>
  BY Zenon DEF UpdateSettings, others
<1>2. last'.op = "settings" /\ last'.list = route /\ last'.ok = ok /\ last'.patch = patch
  BY <1>1, SettingsAnswered, Zenon
<1>3. ok => ~Refused(config.settings, route, patch)
  BY Zenon
<1> HIDE DEF ok, new
<1>4. CASE ok
  <2>1. /\ GoodSettings(new)
        /\ \A f \in Taken(route, patch) \cap NumberFields :
             /\ patch[f].num \in Int
             /\ new[f] = saturating_to_int(patch[f].num)
             /\ saturating_to_int(patch[f].num) >= 0
    BY <1>3, <1>4, GoodNow, PatchKeepsSettings DEF new
  <2>2. GoodConfig(config') /\ config'.lists = config.lists /\ config'.settings = new
    <3>1. config' = [config EXCEPT !.settings = new]
      BY <1>1, <1>4, Zenon
    <3> QED
      BY <2>1, <3>1, GoodNow, Replaced, Zenon
  <2>3. NumbersAreTheOnesSent'
    <3>1. ASSUME NEW f \in Taken(route, patch) \cap NumberFields
          PROVE  \/ patch[f].num - 2 * new[f] \in {0 - 1, 0, 1}
                 \/ new[f] = IntMax /\ patch[f].num > 2 * IntMax
      <4>1. /\ patch[f].num \in Int /\ new[f] = saturating_to_int(patch[f].num)
            /\ saturating_to_int(patch[f].num) >= 0
        BY <2>1
      <4> QED
        BY <4>1, Saturated
    <3>2. /\ Taken(last'.list, last'.patch) = Taken(route, patch)
          /\ last'.patch = patch /\ config'.settings = new
      BY <1>2, <2>2, Zenon
    <3> QED
      BY <3>1, <3>2, Zenon DEF NumbersAreTheOnesSent
  <2> QED
    BY <1>1, <2>2, <2>3, Untouched, SameLists DEF IInv
<1>5. CASE ~ok
  <2>1. NumbersAreTheOnesSent'
    <3>1. ~last'.ok
      BY <1>2, <1>5, Zenon
    <3> QED
      BY <3>1, Zenon DEF NumbersAreTheOnesSent
  <2> QED
    BY <1>1, <1>5, <2>1, Untouched, SameLists DEF IInv
<1> QED
  BY <1>4, <1>5

\* A step that changes one part of the configuration, and is answered.
LEMMA PartChanged ==
  ASSUME IInv, GoodConfig(config'), config'.lists = config.lists,
         NEW op, op # "settings", last'.op = op, UNCHANGED <<temp, importing, scenario, fetch>>
  PROVE  IInv' /\ ListsFollow
  BY Keeps, Untouched, SameLists

LEMMA NothingChanged ==
  ASSUME IInv, UNCHANGED config,
         NEW op, op # "settings", last'.op = op, UNCHANGED <<temp, importing, scenario, fetch>>
  PROVE  IInv' /\ ListsFollow
  BY Keeps, Untouched, SameLists

LEMMA UploadStep ==
  ASSUME IInv, NEW f \in FieldsOf("geoip-config"),
         NEW outcome \in {"written", "cut short", "failed"}, Upload(f, outcome)
  PROVE  IInv' /\ ListsFollow
<1> DEFINE saved == outcome \in {"written", "cut short"}
<1>1. /\ saved => config' = [config EXCEPT !.settings[f] = "uploaded"]
      /\ ~saved => UNCHANGED config
      /\ Answer("upload", f, Empty, saved) /\ UNCHANGED <<temp, importing, scenario, fetch>>
  BY Zenon DEF Upload, others
<1>2. last'.op = "upload"
  BY <1>1, Answered, Zenon
<1> HIDE DEF saved
<1>3. CASE saved
  <2> DEFINE new == [config.settings EXCEPT ![f] = "uploaded"]
  <2>1. GoodSettings(new)
    BY GoodNow, UploadKeepsSettings
  <2>2. config' = [config EXCEPT !.settings = new]
    BY <1>1, <1>3, Zenon
  <2> HIDE DEF new
  <2>3. GoodConfig(config') /\ config'.lists = config.lists
    BY <2>1, <2>2, GoodNow, Replaced, Zenon
  <2> QED
    BY <1>1, <1>2, <2>3, PartChanged
<1>4. CASE ~saved
  BY <1>1, <1>2, <1>4, NothingChanged
<1> QED
  BY <1>3, <1>4

LEMMA CreateSiteStep ==
  ASSUME IInv, NEW domain \in Domains, NEW patch,
         \A f \in DOMAIN patch : patch[f].num \in Int, CreateSite(domain, patch)
  PROVE  IInv' /\ ListsFollow
<1> DEFINE ok == /\ SiteBody(patch) /\ ~Refused(NewSite, "sites", patch)
                 /\ BareHostname(domain) /\ ~DomainTaken(config.sites, domain)
           new == add_site(config.sites, domain, patch)
<1>1. /\ ok => config' = [config EXCEPT !.sites = new]
      /\ ~ok => UNCHANGED config
      /\ Answer("site", "create", Empty, ok) /\ UNCHANGED <<temp, importing, scenario, fetch>>
  BY Zenon DEF CreateSite, others
<1>2. last'.op = "site"
  BY <1>1, Answered, Zenon
<1>3. CASE ok
  <2>1. GoodFields(Patched(NewSite, "sites", patch))
    BY <1>3, NewFieldsAreGood
  <2>2. GoodSites(new)
    BY <1>3, <2>1, GoodNow, AddKeepsSites
  <2> HIDE DEF new
  <2>3. GoodConfig(config') /\ config'.lists = config.lists
    <3>1. config' = [config EXCEPT !.sites = new]
      BY <1>1, <1>3, Zenon
    <3> QED
      BY <2>2, <3>1, GoodNow, Replaced, Zenon
  <2> QED
    BY <1>1, <1>2, <2>3, PartChanged
<1>4. CASE ~ok
  <2> HIDE DEF ok
  <2> QED
    BY <1>1, <1>2, <1>4, NothingChanged
<1> QED
  BY <1>3, <1>4

LEMMA UpdateSiteStep ==
  ASSUME IInv, NEW domain \in Domains, NEW patch,
         \A f \in DOMAIN patch : patch[f].num \in Int, UpdateSite(domain, patch)
  PROVE  IInv' /\ ListsFollow
<1> DEFINE i  == find_site(config.sites, domain)
           ok == i # 0 /\ ~Refused(NewSite, "sites", patch)
           new == update_site(config.sites, i, patch)
<1>1. /\ ok => config' = [config EXCEPT !.sites = new]
      /\ ~ok => UNCHANGED config
      /\ Answer("site", "update", Empty, ok) /\ UNCHANGED <<temp, importing, scenario, fetch>>
  BY Zenon DEF UpdateSite, others
<1>2. last'.op = "site"
  BY <1>1, Answered, Zenon
<1>3. CASE ok
  <2>1. i \in DOMAIN config.sites
    BY <1>3, GoodNow, FindSite
  <2> HIDE DEF i
  <2>2. GoodFields(config.sites[i].fields)
    BY <2>1, GoodNow DEF GoodSites, GoodSite
  <2>3. GoodFields(Patched(config.sites[i].fields, "sites", patch))
    BY <1>3, <2>2, NewFieldsAreGood
  <2>4. GoodSites(new)
    BY <2>1, <2>3, GoodNow, UpdateKeepsSites
  <2> HIDE DEF new
  <2>5. GoodConfig(config') /\ config'.lists = config.lists
    <3>1. config' = [config EXCEPT !.sites = new]
      BY <1>1, <1>3, Zenon
    <3> QED
      BY <2>4, <3>1, GoodNow, Replaced, Zenon
  <2> QED
    BY <1>1, <1>2, <2>5, PartChanged
<1>4. CASE ~ok
  <2> HIDE DEF ok
  <2> QED
    BY <1>1, <1>2, <1>4, NothingChanged
<1> QED
  BY <1>3, <1>4

LEMMA DeleteSiteStep ==
  ASSUME IInv, NEW domain \in Domains, DeleteSite(domain)
  PROVE  IInv' /\ ListsFollow
<1> DEFINE i == find_site(config.sites, domain)
           new == RemoveAt(config.sites, i)
<1>1. /\ i # 0 => config' = [config EXCEPT !.sites = new]
      /\ i = 0 => UNCHANGED config
      /\ Answer("site", "delete", Empty, i # 0) /\ UNCHANGED <<temp, importing, scenario, fetch>>
  BY Zenon DEF DeleteSite, others
<1>2. last'.op = "site"
  BY <1>1, Answered, Zenon
<1>3. i # 0 => i \in DOMAIN config.sites
  BY GoodNow, FindSite
<1> HIDE DEF i
<1>4. CASE i # 0
  <2>1. GoodSites(new)
    BY <1>3, <1>4, GoodNow, RemoveKeepsSites
  <2> HIDE DEF new
  <2>2. GoodConfig(config') /\ config'.lists = config.lists
    <3>1. config' = [config EXCEPT !.sites = new]
      BY <1>1, <1>4, Zenon
    <3> QED
      BY <2>1, <3>1, GoodNow, Replaced, Zenon
  <2> QED
    BY <1>1, <1>2, <2>2, PartChanged
<1>5. CASE i = 0
  BY <1>1, <1>2, <1>5, NothingChanged
<1> QED
  BY <1>4, <1>5

LEMMA AddStatusPageStep ==
  ASSUME IInv, NEW halves, NEW html \in {"h1", "h2"}, AddStatusPage(halves, html)
  PROVE  IInv' /\ ListsFollow
<1> DEFINE code == saturating_to_int(halves)
           ok == PageAdmitted(config.pages, code)
           new == add_status_page(config.pages, code, html)
<1>1. /\ ok => config' = [config EXCEPT !.pages = new]
      /\ ~ok => UNCHANGED config
      /\ Answer("page", "add", Empty, ok) /\ UNCHANGED <<temp, importing, scenario, fetch>>
  BY Zenon DEF AddStatusPage, others
<1>2. last'.op = "page"
  BY <1>1, Answered, Zenon
<1> HIDE DEF code
<1>3. CASE ok
  <2>1. GoodPages(new)
    BY <1>3, GoodNow, AddKeepsPages
  <2> HIDE DEF new
  <2>2. GoodConfig(config') /\ config'.lists = config.lists
    <3>1. config' = [config EXCEPT !.pages = new]
      BY <1>1, <1>3, Zenon
    <3> QED
      BY <2>1, <3>1, GoodNow, Replaced, Zenon
  <2> QED
    BY <1>1, <1>2, <2>2, PartChanged
<1>4. CASE ~ok
  <2> HIDE DEF ok
  <2> QED
    BY <1>1, <1>2, <1>4, NothingChanged
<1> QED
  BY <1>3, <1>4

LEMMA UpdateStatusPageStep ==
  ASSUME IInv, NEW code, NEW html \in {"h1", "h2"}, UpdateStatusPage(code, html)
  PROVE  IInv' /\ ListsFollow
<1> DEFINE i == find_status_page(config.pages, code)
           new == update_status_page(config.pages, i, html)
<1>1. /\ i # 0 => config' = [config EXCEPT !.pages = new]
      /\ i = 0 => UNCHANGED config
      /\ Answer("page", "update", Empty, i # 0) /\ UNCHANGED <<temp, importing, scenario, fetch>>
  BY Zenon DEF UpdateStatusPage, others
<1>2. last'.op = "page"
  BY <1>1, Answered, Zenon
<1>3. i # 0 => i \in DOMAIN config.pages
  BY GoodNow, FindPage
<1> HIDE DEF i
<1>4. CASE i # 0
  <2>1. GoodPages(new)
    BY <1>3, <1>4, GoodNow, UpdateKeepsPages
  <2> HIDE DEF new
  <2>2. GoodConfig(config') /\ config'.lists = config.lists
    <3>1. config' = [config EXCEPT !.pages = new]
      BY <1>1, <1>4, Zenon
    <3> QED
      BY <2>1, <3>1, GoodNow, Replaced, Zenon
  <2> QED
    BY <1>1, <1>2, <2>2, PartChanged
<1>5. CASE i = 0
  BY <1>1, <1>2, <1>5, NothingChanged
<1> QED
  BY <1>4, <1>5

LEMMA DeleteStatusPageStep ==
  ASSUME IInv, NEW code, DeleteStatusPage(code)
  PROVE  IInv' /\ ListsFollow
<1> DEFINE i == find_status_page(config.pages, code)
           new == RemoveAt(config.pages, i)
<1>1. /\ i # 0 => config' = [config EXCEPT !.pages = new]
      /\ i = 0 => UNCHANGED config
      /\ Answer("page", "delete", Empty, i # 0) /\ UNCHANGED <<temp, importing, scenario, fetch>>
  BY Zenon DEF DeleteStatusPage, others
<1>2. last'.op = "page"
  BY <1>1, Answered, Zenon
<1>3. i # 0 => i \in DOMAIN config.pages
  BY GoodNow, FindPage
<1> HIDE DEF i
<1>4. CASE i # 0
  <2>1. GoodPages(new)
    BY <1>3, <1>4, GoodNow, RemoveKeepsPages
  <2> HIDE DEF new
  <2>2. GoodConfig(config') /\ config'.lists = config.lists
    <3>1. config' = [config EXCEPT !.pages = new]
      BY <1>1, <1>4, Zenon
    <3> QED
      BY <2>1, <3>1, GoodNow, Replaced, Zenon
  <2> QED
    BY <1>1, <1>2, <2>2, PartChanged
<1>5. CASE i = 0
  BY <1>1, <1>2, <1>5, NothingChanged
<1> QED
  BY <1>4, <1>5

LEMMA RestartStep ==
  ASSUME IInv, Restart
  PROVE  IInv' /\ ListsFollow
<1> DEFINE kept == [v \in Vectors |-> {t \in config.lists[v] : t.kind # "blank"}]
<1>1. config' = [config EXCEPT !.lists = kept] /\ UsableLists(kept)
  BY GoodNow, ReadBack, Zenon DEF Restart
<1>2. \A v \in Vectors : kept[v] = {t \in config.lists[v] : t.kind # "blank"}
  OBVIOUS
<1> HIDE DEF kept
<1>3. GoodConfig(config') /\ config'.lists = kept
  BY <1>1, GoodNow, Replaced, Zenon
<1>4. last'.op = "restart"
  BY DEF Restart, NoRequest
<1>5. ListsFollow
  BY <1>2, <1>3, <1>4 DEF ListsFollow
<1>6. GoodBlocks(temp')
  BY DEF Restart, GoodBlocks
<1>7. GoodFetches(fetch', importing')
  <2>1. NoFetch \in Fetch /\ NoFetch.at = "idle"
    BY DEF NoFetch, Fetch
  <2> QED
    BY <2>1 DEF Restart, GoodFetches
<1>8. UNCHANGED scenario
  BY DEF Restart
<1>9. last'.op # "settings"
  BY <1>4
<1> QED
  BY <1>3, <1>5, <1>6, <1>7, <1>8, <1>9, Keeps

-----------------------------------------------------------------------------
LEMMA EntryRequestStep ==
  ASSUME IInv, EntryRequest
  PROVE  IInv' /\ ListsFollow
<1>1. PICK list \in scenario.lists :
        \/ ClearList(list)
        \/ \E body \in scenario.bodies : ImportFile(list, body)
        \/ \E t \in scenario.texts :
             \/ list # IpList /\ (AddEntry(list, t) \/ RemoveEntry(list, t))
             \/ list = IpList /\ RemoveIpBlock(t)
             \/ list = IpList /\ \E halves \in scenario.hours : AddIpBlock(t, halves)
        \/ \E r \in Fetches, https \in BOOLEAN : ImportUrl(r, list, https)
  BY Zenon DEF EntryRequest
<1>2. list \in ListNames
  BY ScenarioBodies
<1>3. CASE ClearList(list)
  BY <1>3, ClearListStep
<1>4. ASSUME NEW body \in scenario.bodies, ImportFile(list, body) PROVE IInv' /\ ListsFollow
  BY <1>4, ScenarioBodies, ImportFileStep, Zenon
<1>5. ASSUME NEW t \in scenario.texts, AddEntry(list, t) \/ RemoveEntry(list, t)
      PROVE  IInv' /\ ListsFollow
  <2>1. t \in Texts
    BY ScenarioBodies
  <2> QED
    BY <1>5, <2>1, AddEntryStep, RemoveEntryStep, Zenon
<1>6. ASSUME NEW t \in scenario.texts, RemoveIpBlock(t) PROVE IInv' /\ ListsFollow
  <2>1. t \in Texts
    BY ScenarioBodies
  <2> QED
    BY <1>6, <2>1, RemoveIpBlockStep, Zenon
<1>7. ASSUME NEW t \in scenario.texts, NEW halves, AddIpBlock(t, halves) PROVE IInv' /\ ListsFollow
  <2>1. t \in Texts
    BY ScenarioBodies
  <2> QED
    BY <1>7, <2>1, AddIpBlockStep, Zenon
<1>8. ASSUME NEW r \in Fetches, NEW https \in BOOLEAN, ImportUrl(r, list, https)
      PROVE  IInv' /\ ListsFollow
  BY <1>2, <1>8, ImportUrlStep, Zenon
<1> QED
  BY <1>1, <1>3, <1>4, <1>5, <1>6, <1>7, <1>8, Zenon

LEMMA SettingsRequestStep ==
  ASSUME IInv, SettingsRequest
  PROVE  IInv' /\ ListsFollow
<1>1. PICK body \in scenario.patches :
        \/ body.route # "sites" /\ UpdateSettings(body.route, body.patch)
        \/ body.route = "geoip-config"
           /\ \E f \in FieldsOf("geoip-config"), outcome \in {"written", "cut short", "failed"} : Upload(f, outcome)
        \/ body.route = "sites" /\ \E domain \in scenario.domains :
             \/ Len(config.sites) < MaxSites /\ CreateSite(domain, body.patch)
             \/ UpdateSite(domain, body.patch)
  BY Zenon DEF SettingsRequest
<1>2. /\ body.route \in SettingRoutes \cup {"sites"}
      /\ \A f \in DOMAIN body.patch : body.patch[f].num \in Int
      /\ scenario.domains \subseteq Domains
  BY ScenarioBodies, Zenon
<1>3. CASE body.route # "sites" /\ UpdateSettings(body.route, body.patch)
  <2>1. body.route \in SettingRoutes
    BY <1>2, <1>3
  <2> QED
    BY <1>2, <1>3, <2>1, UpdateSettingsStep, Zenon
<1>4. ASSUME NEW f \in FieldsOf("geoip-config"),
             NEW outcome \in {"written", "cut short", "failed"}, Upload(f, outcome)
      PROVE  IInv' /\ ListsFollow
  BY <1>4, UploadStep, Zenon
<1>5. ASSUME NEW domain \in scenario.domains,
             CreateSite(domain, body.patch) \/ UpdateSite(domain, body.patch)
      PROVE  IInv' /\ ListsFollow
  <2>1. domain \in Domains
    BY <1>2
  <2> QED
    BY <1>2, <1>5, <2>1, CreateSiteStep, UpdateSiteStep, Zenon
<1> QED
  BY <1>1, <1>3, <1>4, <1>5, Zenon

LEMMA NameRequestStep ==
  ASSUME IInv, NameRequest
  PROVE  IInv' /\ ListsFollow
<1>1. ASSUME NEW domain \in scenario.domains, DeleteSite(domain) PROVE IInv' /\ ListsFollow
  <2>1. domain \in Domains
    BY ScenarioBodies
  <2> QED
    BY <1>1, <2>1, DeleteSiteStep, Zenon
<1> QED
  BY <1>1, AddStatusPageStep, UpdateStatusPageStep, DeleteStatusPageStep, Zenon DEF NameRequest

LEMMA MalformedStep ==
  ASSUME IInv, Malformed
  PROVE  IInv' /\ ListsFollow
<1>1. /\ Answer("malformed", "none", Empty, FALSE)
      /\ UNCHANGED config /\ UNCHANGED <<temp, importing, scenario, fetch>>
  BY Zenon DEF Malformed, others
<1>2. last'.op = "malformed"
  BY <1>1, Answered, Zenon
<1> QED
  BY <1>1, <1>2, NothingChanged

\* One step per request, and what it did to the lists.
LEMMA NextIInv == IInv /\ [Next]_vars => IInv' /\ [ListsFollow]_vars
<1> SUFFICES ASSUME IInv, [Next]_vars PROVE IInv' /\ [ListsFollow]_vars
  OBVIOUS
<1>1. ASSUME Next PROVE IInv' /\ ListsFollow
  BY <1>1, EntryRequestStep, BlockSteps, SettingsRequestStep, NameRequestStep, MalformedStep,
     RestartStep, FetchStepStep, FetchEndsStep, Zenon DEF Next
<1>2. CASE UNCHANGED vars
  <2>1. /\ UNCHANGED <<config, last>> /\ UNCHANGED <<importing, fetch>>
        /\ UNCHANGED temp /\ UNCHANGED scenario /\ UNCHANGED config
    BY <1>2 DEF vars
  <2>2. IInv'
    BY <2>1, Keeps, Untouched
  <2> QED
    BY <1>2, <2>2
<1> QED
  BY <1>1, <1>2

\* What an admin stored is in range, where its check looks for it and under a
\* name of its own, after any sequence of requests, downloads and restarts.
THEOREM AdminInvariance == Spec => []IInv
  BY InitIInv, NextIInv, PTL DEF Spec

\* Entries, numbers, sites and status pages that the routes store can be used by
\* the request checks, resolve_site and the views as they are.
THEOREM ConfigStaysUsable == Spec => []ConfigIsUsable
  BY AdminInvariance, Usable, PTL

\* parse_yaml_config after to_yaml_config gives back the configuration, whatever
\* the requests before it made of it; blank entries are passed over.
THEOREM RestartReadsBack == Spec => []RestartKeepsConfig
<1>1. IInv => RestartKeepsConfig
  <2> SUFFICES ASSUME IInv PROVE RestartKeepsConfig
    OBVIOUS
  <2>1. parse_yaml_config(to_yaml_config(config)) =
          [config EXCEPT !.lists = [v \in Vectors |-> {t \in config.lists[v] : t.kind # "blank"}]]
    BY GoodNow, ReadBack, Zenon
  <2> QED
    BY <2>1, Zenon DEF RestartKeepsConfig
<1> QED
  BY <1>1, AdminInvariance, PTL

\* No request, import or restart takes an entry from a list or adds one to a
\* list it is not for.
THEOREM ListsFollowRequests == Spec => ListsChangeByRequest
  BY AdminInvariance, NextIInv, PTL DEF Spec, ListsChangeByRequest
=============================================================================
