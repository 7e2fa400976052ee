----------------------------- MODULE ConfigFile -----------------------------
(***************************************************************************)
(* load_yaml_config and load_json_config (src/config_utils.cpp): from the  *)
(* tree the YAML or JSON library returns to the two maps the options are   *)
(* read from.                                                              *)
(*                                                                         *)
(* A node is [kind |-> "scalar", text], of YAML any and of JSON a string   *)
(* or a Boolean, [kind |-> "number", text] of JSON, [kind |-> "null"],     *)
(* [kind |-> "list"], or [kind |-> "map", entries], entries being the      *)
(* pairs of a key and a node in the order the loader meets them: that of   *)
(* the document for YAML, that of the sorted keys for JSON.  A file that   *)
(* cannot be opened or parsed is the node "broken".  An option is named by *)
(* its key without the dashes that the loader puts before it.              *)
(***************************************************************************)
EXTENDS Sequences, SequencesExt, TLC

CONSTANTS
  PathKeys,   \* the keys that contain a slash or a backslash
  Printed     \* what the loaders print for the numbers whose text is another: octal and
              \* hexadecimal ones of YAML, exponents, more digits than a stream prints

Scalar(text) == [kind |-> "scalar", text |-> text]
Number(text) == [kind |-> "number", text |-> text]
Null == [kind |-> "null"]
List == [kind |-> "list"]
Map(entries) == [kind |-> "map", entries |-> entries]
Broken == [kind |-> "broken"]

\* kTopLevelSchema: these must be scalars, "repositories" must be a map.
ScalarKeys == {"interval", "cli", "root", "credential-file"}

NoOptions == [key \in {} |-> <<>>]
NoConfig == [ok |-> TRUE, opts |-> NoOptions, repos |-> [path \in {} |-> NoOptions]]
Failed == [ok |-> FALSE, opts |-> NoOptions, repos |-> [path \in {} |-> NoOptions]]

\* to_string_value.  A null is the empty string; a Boolean is spelt "true" or
\* "false", and YAML takes several words for one; a number is printed anew, and YAML
\* takes every text for one that reads like one.
HasText(node) == node.kind \in {"scalar", "number", "null"}

YamlTrue == {<<"true">>, <<"yes">>, <<"on">>, <<"y">>}
YamlFalse == {<<"false">>, <<"no">>, <<"off">>, <<"n">>}

to_string_value(node, format) ==
  LET IsNumber == format = "yaml" \/ node.kind = "number"
  IN  CASE node.kind = "null" -> <<>>
        [] node.kind # "null" /\ format = "yaml" /\ node.text \in YamlTrue -> <<"true">>
        [] node.kind # "null" /\ format = "yaml" /\ node.text \in YamlFalse -> <<"false">>
        [] node.kind # "null" /\ IsNumber /\ node.text \in DOMAIN Printed -> Printed[node.text]
        [] OTHER -> node.text

\* m[key] = value, for every entry of a map: later ones replace earlier ones.
Assigned(m, entries, format) ==
  FoldLeft(LAMBDA acc, e : (e[1] :> to_string_value(e[2], format)) @@ acc, m, entries)

AllText(entries) == \A i \in DOMAIN entries : HasText(entries[i][2])

Of(m, key) == IF key \in DOMAIN m THEN m[key] ELSE NoOptions

\* The settings of one repository; a null withdraws what was there.
AddRepo(acc, path, node, format) ==
  CASE ~acc.ok -> acc
    [] node.kind = "map" /\ AllText(node.entries) ->
         [acc EXCEPT !.repos =
            (path :> Assigned(Of(acc.repos, path), node.entries, format)) @@ acc.repos]
    [] node.kind = "null" -> [acc EXCEPT !.repos = (path :> NoOptions) @@ acc.repos]
    [] OTHER -> Failed

\* One key of the root: a map of repositories, the settings of one repository if
\* the key looks like a path, a category of options, or an option itself.
AddKey(acc, key, node, format) ==
  CASE ~acc.ok -> acc
    [] key = "repositories" /\ node.kind = "map" ->
         FoldLeft(LAMBDA a, e : AddRepo(a, e[1], e[2], format), acc, node.entries)
    [] node.kind = "map" /\ key \in PathKeys /\ AllText(node.entries) ->
         AddRepo(acc, key, node, format)
    [] /\ node.kind = "map" /\ AllText(node.entries)
       /\ key \notin PathKeys \cup ScalarKeys \cup {"repositories"} ->
         [acc EXCEPT !.opts = Assigned(@, node.entries, format)]
    [] HasText(node) /\ key # "repositories" ->
         [acc EXCEPT !.opts = Assigned(@, <<<<key, node>>>>, format)]
    [] OTHER -> Failed

\* Both loaders, on top of what an earlier file gave.  They write into the
\* caller's maps as they go, but the caller gives up on a failure.
load_config(root, format, acc) ==
  IF root.kind # "map" THEN Failed
  ELSE FoldLeft(LAMBDA a, e : AddKey(a, e[1], e[2], format), acc, root.entries)

load_yaml_config(root, acc) == load_config(root, "yaml", acc)
load_json_config(root, acc) == load_config(root, "json", acc)
=============================================================================
