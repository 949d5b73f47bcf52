---------------------------- MODULE PluginConfig ----------------------------
(***************************************************************************)
(* How docker/install-dynamic-plugins.py turns dynamic-plugins.yaml into   *)
(* the ordered dict allPlugins and what it reads off each of its entries.  *)
(*                                                                         *)
(* An entry is a function from the names of the fields it has to their     *)
(* values, so that a missing field differs from a default. A config file   *)
(* is a record [kind, includes, plugins]; kind is "absent" or "empty" when *)
(* there is nothing to install, "invalid" when the script raises on its    *)
(* structure, "plugins" otherwise.                                         *)
(***************************************************************************)
EXTENDS Sequences, SequencesExt, TLC

CONSTANTS
  OciPackages,      \* packages whose name starts with oci://
  LocalPackages,    \* packages whose name starts with ./
  LatestTagged      \* packages whose name contains :latest!

Position(list, package) == {i \in DOMAIN list : list[i]["package"] = package}

(* allPlugins[plugin['package']] = plugin: an entry of a later include     *)
(* replaces an earlier one as a whole, in its place.                       *)
Include(list, plugin) ==
  IF Position(list, plugin["package"]) = {}
  THEN Append(list, plugin)
  ELSE [i \in DOMAIN list |->
          IF i \in Position(list, plugin["package"]) THEN plugin ELSE list[i]]

(* An entry of the main list overrides an included one field by field.     *)
OverrideFields(list, plugin) ==
  IF Position(list, plugin["package"]) = {}
  THEN Append(list, plugin)
  ELSE [i \in DOMAIN list |->
          IF i \in Position(list, plugin["package"]) THEN plugin @@ list[i] ELSE list[i]]

AllPlugins(file) ==
  FoldLeft(OverrideFields, FoldLeft(Include, <<>>, FlattenSeq(file.includes)), file.plugins)

Field(plugin, name, default) ==
  IF name \in DOMAIN plugin THEN plugin[name] ELSE default

(* plugin['hash']: a digest of every field but pluginConfig. The entry     *)
(* without that field stands for its digest.                               *)
HashOf(plugin) == [f \in DOMAIN plugin \ {"pluginConfig"} |-> plugin[f]]

Disabled(plugin) == Field(plugin, "disabled", FALSE)

IsOci(plugin) == plugin["package"] \in OciPackages
IsLocal(plugin) == plugin["package"] \in LocalPackages

PullPolicy(plugin) ==
  Field(plugin, "pullPolicy",
        IF IsOci(plugin) /\ plugin["package"] \in LatestTagged
        THEN "Always" ELSE "IfNotPresent")

\* An installed plugin is downloaded again, or its image compared, on every run.
Forced(plugin) ==
  \/ PullPolicy(plugin) = "Always"
  \/ ~IsOci(plugin) /\ Field(plugin, "forceDownload", FALSE)

(* pluginConfig as the function from the paths of its leaves to their      *)
(* values; ConfigMerge relates this view to merge().                       *)
Fragment(plugin) == Field(plugin, "pluginConfig", <<>>)

Compatible(fragment, config) ==
  \A k \in DOMAIN fragment \cap DOMAIN config : fragment[k] = config[k]

EnabledOf(file) ==
  IF file.kind = "plugins"
  THEN {p \in ToSet(AllPlugins(file)) : ~Disabled(p)}
  ELSE {}
=============================================================================
