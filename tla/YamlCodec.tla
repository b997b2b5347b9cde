------------------------------ MODULE YamlCodec ------------------------------
(***************************************************************************)
(* The configuration as the file has it: to_yaml_config and                *)
(* parse_yaml_config of config/yaml_codec.cpp.  A document maps each key   *)
(* that was written to what was written under it; that a scalar reads back *)
(* as the value it was written from is yaml-cpp's part.  What is modelled  *)
(* is this codec's part: which keys there are, what a missing key means,   *)
(* which entries are passed over, how a list of IPs splits in two, and     *)
(* what is converted on the way in.                                        *)
(***************************************************************************)
EXTENDS RuntimeConfig

CONSTANT Checks   \* the checks that BanConfig gives points by default

\* The fields of RuntimeConfig that are not lists.  "listeners" stands for
\* http, https, upstream, admin and limits, which no admin route changes.
Settings == UNION {FieldsOf(route) : route \in SettingRoutes} \cup {"listeners"}

\* The default member initializers of runtime_config.hpp, every number narrowed
\* to one within the narrowed ranges.
DefaultSettings ==
  [f \in Settings |->
     CASE f \in FlagFields -> f = "globe.auto_detect_server_location"
       [] f \in NumberFields \ {"body_size.max_bytes"} -> 1
       [] f = "body_size.max_bytes" -> 0
       [] f \in CoordinateFields -> {}
       [] f = "ban.scores" -> [check \in Checks |-> 1]
       [] f = "method_check.allowed_methods" -> {"GET", "POST"}
       [] OTHER -> ""]

DefaultConfig ==
  [lists |-> [v \in Vectors |-> {}], sites |-> <<>>, pages |-> <<>>,
   settings |-> DefaultSettings]

-----------------------------------------------------------------------------
(* write_entry_list and write_ip_list: the vectors of a list under one key. *)

\* mutant: a list the code adds to RuntimeConfig is not written
WrittenListsForgetful(lists) ==
  [list \in ListNames \ {"whitelist.routes"} |->
     UNION {lists[v] : v \in {w \in Vectors : w[1] = list}}]

WrittenLists(lists) ==
  [list \in ListNames |-> UNION {lists[v] : v \in {w \in Vectors : w[1] = list}}]

\* Every field has its key; an unset coordinate, {}, is written as null.
WrittenSettings(settings) == [f \in Settings |-> settings[f]]

to_yaml_config(config) ==
  [lists |-> WrittenLists(config.lists), sites |-> config.sites,
   pages |-> config.pages, settings |-> WrittenSettings(config.settings)]

-----------------------------------------------------------------------------
(* read_raw_entry passes over blank entries; read_ip_list splits by '/' and *)
(* passes over what is neither an address nor a range.                      *)

Readable(list, t) ==
  /\ ~is_blank(t)
  /\ list \in IpLists => IF HasSlash(t) THEN parse_cidr(t) ELSE make_address(t)

read_lists(node) ==
  [v \in Vectors |->
     {t \in IF v[1] \in DOMAIN node THEN node[v[1]] ELSE {} :
        Readable(v[1], t) /\ list_for(v[1], t) = v}]

\* Entries without a domain are passed over, the others keep their order.
read_sites(node) ==
  LET named     == {i \in DOMAIN node : ~EmptyDomain(node[i].domain)}
      before(i) == {j \in named : j <= i}
  IN  [k \in 1 .. Cardinality(named) |->
         LET site == node[CHOOSE i \in named : Cardinality(before(i)) = k]
         IN  [site EXCEPT !.domain = to_lower(@)]]

\* A missing key, or a null coordinate, leaves the default; scores and
\* allowed_methods that are there replace the defaults.
ReadSetting(f, node) ==
  CASE f \notin DOMAIN node -> DefaultSettings[f]
    [] f \in CoordinateFields /\ node[f] = {} -> DefaultSettings[f]
    [] OTHER -> node[f]

parse_yaml_config(root) ==
  [lists |-> read_lists(root.lists), sites |-> read_sites(root.sites),
   pages |-> root.pages, settings |-> [f \in Settings |-> ReadSetting(f, root.settings)]]
=============================================================================
