--------------------------- MODULE PluginInstall ---------------------------
(***************************************************************************)
(* main() of docker/install-dynamic-plugins.py below the lock: one run     *)
(* after another reconciles dynamic-plugins-root with the configuration,   *)
(* each of them may raise or be killed between any two changes of the      *)
(* volume, and between and during runs the configuration is edited and     *)
(* new content is published under a name.                                  *)
(*                                                                         *)
(* A directory is [hash, digest, content]: the hash file, the digest file  *)
(* (0 if it has none) and the version of the other files, 0 while some are *)
(* missing. The archive of npm pack and the copied image are left out.     *)
(***************************************************************************)
EXTENDS PluginConfig, Naturals, FiniteSets

CONSTANTS
  ConfigFiles,    \* the contents dynamic-plugins.yaml takes
  Sources,        \* the images, registry packages and local directories
  SourceOf,       \* SourceOf[package]: where its content comes from
  MaxVersion,     \* bound: the versions a source goes through
  Pinned,         \* bound: the sources that stay at their first version
  MaxAborts,      \* bound: how many runs are killed or fail at random
  Dirs,           \* the plugin directories
  DirOf           \* DirOf[<<package, version>>]: where it is extracted

Versions == 1 .. MaxVersion

NoDir == "none"

\* Every entry of allPlugins in some configuration.
Entries == UNION {ToSet(AllPlugins(f)) : f \in {g \in ConfigFiles : g.kind = "plugins"}}

\* The dict allPlugins has one entry for a package.
Distinct(list) ==
  \A i, j \in DOMAIN list : list[i]["package"] = list[j]["package"] => i = j

ASSUME EntriesAssumption ==
  /\ \A f \in ConfigFiles :
       f.kind = "plugins" => AllPlugins(f) \in Seq(Entries) /\ Distinct(AllPlugins(f))
  /\ \A p \in Entries : "package" \in DOMAIN p /\ SourceOf[p["package"]] \in Sources

\* The directory of an image's plugin is in the name of its package, after the "!".
ASSUME PlacesAssumption ==
  /\ \A p \in Entries, v \in Versions : DirOf[<<p["package"], v>>] \in Dirs
  /\ \A p \in Entries, v, w \in Versions :
       IsOci(p) => DirOf[<<p["package"], v>>] = DirOf[<<p["package"], w>>]
  /\ NoDir \notin Dirs

\* The local packages are part of the container image, which stays for a run.
LocalSources == {SourceOf[p["package"]] : p \in {q \in Entries : IsLocal(q)}}

ASSUME BoundsAssumption == MaxVersion \in Nat \ {0} /\ MaxAborts \in Nat

Torn == [torn |-> TRUE]         \* a file truncated and not yet written
NoFile == [torn |-> FALSE]      \* no such file
Partial == 0

BaseConfig == [rootDirectory |-> "dynamic-plugins-root"]

VARIABLES
  file,         \* dynamic-plugins.yaml
  published,    \* published[s]: the version source s serves now
  disk,         \* the plugin directories of dynamic-plugins-root
  globalFile,   \* app-config.dynamic-plugins.yaml
  pc,           \* where the run stands, "idle" between runs
  todo,         \* the entries of allPlugins still to be handled
  stale,        \* plugin_path_by_hash
  globalConfig, \* the fragments merged so far
  target,       \* the directory being replaced
  fetched,      \* the version fetched for it
  copied,       \* image_to_tarball: the images copied by this run
  settled,      \* history: successful runs since anything else happened, up to 2
  mishaps,      \* history: the kinds of mishap so far
  aborts        \* history: runs killed or failed at random so far

envVars == <<file, published>>
runVars == <<todo, stale, globalConfig, target, fetched, copied>>
history == <<settled, mishaps, aborts>>
vars == <<envVars, disk, globalFile, pc, runVars, history>>

Mishaps == {"aborted", "rmtree_killed", "tag_moved"}

Put(f, x, v) == [y \in DOMAIN f \cup {x} |-> IF y = x THEN v ELSE f[y]]

\* f, and g where f says nothing.
Over(f, g) == [x \in DOMAIN f \cup DOMAIN g |-> IF x \in DOMAIN f THEN f[x] ELSE g[x]]

Max2(n) == IF n = 2 THEN 2 ELSE n + 1

Init ==
  /\ file \in ConfigFiles
  /\ published = [s \in Sources |-> 1]
  /\ disk = <<>>
  /\ globalFile = <<>>
  /\ pc = "idle"
  /\ todo = <<>> /\ stale = <<>> /\ globalConfig = <<>>
  /\ target = NoDir /\ fetched = 0 /\ copied = <<>>
  /\ settled = 0 /\ mishaps = {} /\ aborts = 0

-----------------------------------------------------------------------------
(* The world around the script.                                            *)

EditConfig ==
  /\ pc = "idle"
  /\ file' \in ConfigFiles \ {file}
  /\ settled' = 0
  /\ UNCHANGED <<published, disk, globalFile, pc, runVars, mishaps, aborts>>

\* A tag moves, a new version is published, an upgrade brings a new local package.
Publish(s) ==
  /\ s \notin Pinned /\ published[s] < MaxVersion
  /\ s \in LocalSources => pc = "idle"
  /\ published' = [published EXCEPT ![s] = @ + 1]
  /\ settled' = 0
  /\ UNCHANGED <<file, disk, globalFile, pc, runVars, mishaps, aborts>>

-----------------------------------------------------------------------------
(* Beginning and end of a run.                                             *)

\* The process is gone and its memory with it.
Exit ==
  /\ pc' = "idle"
  /\ todo' = <<>> /\ stale' = <<>> /\ globalConfig' = <<>>
  /\ target' = NoDir /\ fetched' = 0 /\ copied' = <<>>

(* No file, or an empty one: the global configuration is emptied and the   *)
(* volume is not looked at.                                                *)
NothingToInstall ==
  /\ pc = "idle"
  /\ file.kind \in {"absent", "empty"}
  /\ globalFile' = <<>>
  /\ settled' = 0
  /\ UNCHANGED <<envVars, disk, pc, runVars, mishaps, aborts>>

InvalidFile ==
  /\ pc = "idle"
  /\ file.kind = "invalid"
  /\ settled' = 0
  /\ UNCHANGED <<envVars, disk, globalFile, pc, runVars, mishaps, aborts>>

(* plugin_path_by_hash: of the directories with the same hash file the one *)
(* that os.listdir names last counts; an empty hash file is a hash too.    *)
Scan ==
  LET hashes == {disk[d].hash : d \in DOMAIN disk} \ {NoFile}
  IN  {f \in [hashes -> DOMAIN disk] : \A h \in hashes : disk[f[h]].hash = h}

Begin ==
  /\ pc = "idle"
  /\ file.kind = "plugins"
  /\ pc' = "plugin"
  /\ todo' = AllPlugins(file)
  /\ stale' \in Scan
  /\ globalConfig' = BaseConfig
  /\ UNCHANGED <<envVars, disk, globalFile, target, fetched, copied, history>>

Abort ==
  /\ Exit
  /\ settled' = 0
  /\ mishaps' = mishaps \cup {"aborted"}
  /\ UNCHANGED <<envVars, disk, globalFile>>

(* SIGKILL, or the SystemExit of the SIGTERM handler.                      *)
Kill ==
  /\ pc # "idle"
  /\ aborts < MaxAborts /\ aborts' = aborts + 1
  /\ Exit
  /\ settled' = 0
  /\ mishaps' = mishaps \cup {"aborted"}
                \cup IF pc \in {"clearing", "removing"} THEN {"rmtree_killed"} ELSE {}
  /\ UNCHANGED <<envVars, disk, globalFile>>

-----------------------------------------------------------------------------
(* One entry of allPlugins.                                                *)

Plugin == Head(todo)

AtPlugin == pc = "plugin" /\ todo # <<>>

Known == HashOf(Plugin) \in DOMAIN stale

Pop(h) == [k \in DOMAIN stale \ {h} |-> stale[k]]

Source == SourceOf[Plugin["package"]]

SkipDisabled ==
  /\ AtPlugin /\ Disabled(Plugin)
  /\ todo' = Tail(todo)
  /\ UNCHANGED <<envVars, disk, globalFile, pc, stale, globalConfig, target, fetched,
                 copied, history>>

Decide(next) ==
  /\ ~Disabled(Plugin)
  /\ pc' = next
  /\ UNCHANGED <<envVars, disk, globalFile, todo, globalConfig, target, fetched, copied,
                 history>>

\* Mutant: the hash of a skipped plugin stays among those to be swept.
SkipInstalledKeepsHash ==
  /\ AtPlugin /\ Known /\ ~Forced(Plugin)
  /\ UNCHANGED stale
  /\ Decide("merging")

\* Mutant: what is installed is downloaded again.
SkipInstalledDownloads ==
  /\ AtPlugin /\ Known /\ ~Forced(Plugin)
  /\ stale' = Pop(HashOf(Plugin))
  /\ Decide("fetching")

\* Mutant: continue before the fragment of an installed plugin is merged.
SkipInstalledUnmerged ==
  /\ AtPlugin /\ Known /\ ~Forced(Plugin) /\ ~Disabled(Plugin)
  /\ stale' = Pop(HashOf(Plugin))
  /\ todo' = Tail(todo)
  /\ UNCHANGED <<envVars, disk, globalFile, pc, globalConfig, target, fetched, copied,
                 history>>

SkipInstalled ==
  /\ AtPlugin /\ Known /\ ~Forced(Plugin)
  /\ stale' = Pop(HashOf(Plugin))
  /\ Decide("merging")

\* Mutant: any digest file will do.
CompareDigestPresent ==
  /\ AtPlugin /\ Known /\ Forced(Plugin) /\ IsOci(Plugin)
  /\ stale' = Pop(HashOf(Plugin))
  /\ Decide(IF disk[stale[HashOf(Plugin)]].digest # 0 THEN "merging" ELSE "fetching")

(* OCI with pull policy Always: the digest kept beside the plugin against  *)
(* the digest the registry reports now.                                    *)
CompareDigest ==
  /\ AtPlugin /\ Known /\ Forced(Plugin) /\ IsOci(Plugin)
  /\ stale' = Pop(HashOf(Plugin))
  /\ Decide(IF disk[stale[HashOf(Plugin)]].digest = published[Source]
            THEN "merging" ELSE "fetching")

ForceDownload ==
  /\ AtPlugin /\ Known /\ Forced(Plugin) /\ ~IsOci(Plugin)
  /\ stale' = Pop(HashOf(Plugin))
  /\ Decide("fetching")

Download ==
  /\ AtPlugin /\ ~Known
  /\ UNCHANGED stale
  /\ Decide("fetching")

\* The content that skopeo copy or npm pack delivers; an image is copied once a run.
Delivered ==
  IF IsOci(Plugin) /\ Source \in DOMAIN copied THEN copied[Source] ELSE published[Source]

\* Mutant: the integrity hash has to be there and is not compared.
VerifiedPresent ==
  \/ IsOci(Plugin) \/ IsLocal(Plugin)
  \/ "integrity" \in DOMAIN Plugin

(* verify_package_integrity: an integrity hash identifies a version.       *)
Verified ==
  \/ IsOci(Plugin) \/ IsLocal(Plugin)
  \/ "integrity" \in DOMAIN Plugin /\ Plugin["integrity"] = Delivered

Fetch ==
  /\ pc = "fetching"
  /\ Verified
  /\ pc' = "replacing"
  /\ fetched' = Delivered
  /\ target' = DirOf[<<Plugin["package"], Delivered>>]
  /\ copied' = IF IsOci(Plugin) THEN Put(copied, Source, Delivered) ELSE copied
  /\ UNCHANGED <<envVars, disk, globalFile, todo, stale, globalConfig, history>>

RejectPackage ==
  /\ pc = "fetching"
  /\ ~Verified
  /\ Abort /\ UNCHANGED aborts

\* rmtree deletes file after file, in any order.
Ruins(dir) ==
  {[hash |-> h, digest |-> g, content |-> Partial] :
     h \in {dir.hash, NoFile}, g \in {dir.digest, 0}}

Clear ==
  /\ pc = "replacing"
  /\ target \in DOMAIN disk
  /\ pc' = "clearing"
  /\ \E r \in Ruins(disk[target]) : disk' = [disk EXCEPT ![target] = r]
  /\ UNCHANGED <<envVars, globalFile, runVars, history>>

\* Mutant: the hash file is written into the fresh directory before the extraction.
ExtractHashFirst ==
  /\ pc = "clearing" \/ (pc = "replacing" /\ target \notin DOMAIN disk)
  /\ pc' = "extracting"
  /\ disk' = Put(disk, target, [hash |-> HashOf(Plugin), digest |-> 0, content |-> Partial])
  /\ UNCHANGED <<envVars, globalFile, runVars, history>>

\* Mutant: the archive is extracted over what is there.
ExtractOver ==
  /\ pc = "clearing" \/ (pc = "replacing" /\ target \notin DOMAIN disk)
  /\ pc' = "extracting"
  /\ disk' = disk @@ (target :> [hash |-> NoFile, digest |-> 0, content |-> Partial])
  /\ UNCHANGED <<envVars, globalFile, runVars, history>>

Extract ==
  /\ pc = "clearing" \/ (pc = "replacing" /\ target \notin DOMAIN disk)
  /\ pc' = "extracting"
  /\ disk' = Put(disk, target, [hash |-> NoFile, digest |-> 0, content |-> Partial])
  /\ UNCHANGED <<envVars, globalFile, runVars, history>>

FinishExtract ==
  /\ pc = "extracting"
  /\ pc' = IF IsOci(Plugin) THEN "digesting" ELSE "hashing"
  /\ disk' = [disk EXCEPT ![target].content = fetched]
  /\ UNCHANGED <<envVars, globalFile, runVars, history>>

(* OCI only: the digest is asked for again, and every other hash of the    *)
(* directory is taken off plugin_path_by_hash.                             *)
WriteDigest ==
  /\ pc = "digesting"
  /\ pc' = "hashing"
  /\ disk' = [disk EXCEPT ![target].digest = published[Source]]
  /\ stale' = [h \in {k \in DOMAIN stale : stale[k] # target} |-> stale[h]]
  /\ mishaps' = IF published[Source] = fetched THEN mishaps ELSE mishaps \cup {"tag_moved"}
  /\ UNCHANGED <<envVars, globalFile, todo, globalConfig, target, fetched, copied, settled, aborts>>

OpenHashFile ==
  /\ pc = "hashing"
  /\ pc' = "writing"
  /\ disk' = [disk EXCEPT ![target].hash = Torn]
  /\ UNCHANGED <<envVars, globalFile, runVars, history>>

WriteHash ==
  /\ pc = "writing"
  /\ pc' = "merging"
  /\ disk' = [disk EXCEPT ![target].hash = HashOf(Plugin)]
  /\ UNCHANGED <<envVars, globalFile, runVars, history>>

(* skopeo or npm fails, or the archive cannot be extracted: InstallException. *)
Fail ==
  /\ \/ AtPlugin /\ ~Disabled(Plugin) /\ Known /\ Forced(Plugin) /\ IsOci(Plugin)
     \/ pc \in {"fetching", "extracting", "digesting"}
  /\ aborts < MaxAborts /\ aborts' = aborts + 1
  /\ Abort

MergeFragment ==
  /\ pc = "merging"
  /\ Compatible(Fragment(Plugin), globalConfig)
  /\ pc' = "plugin"
  /\ globalConfig' = Over(Fragment(Plugin), globalConfig)
  /\ todo' = Tail(todo)
  /\ target' = NoDir /\ fetched' = 0
  /\ UNCHANGED <<envVars, disk, globalFile, stale, copied, history>>

MergeConflict ==
  /\ pc = "merging"
  /\ ~Compatible(Fragment(Plugin), globalConfig)
  /\ Abort /\ UNCHANGED aborts

-----------------------------------------------------------------------------
(* After the last entry: the global configuration, then the sweep.         *)

OpenGlobalFile ==
  /\ pc = "plugin" /\ todo = <<>>
  /\ pc' = "dumping"
  /\ globalFile' = Torn
  /\ UNCHANGED <<envVars, disk, runVars, history>>

WriteGlobalFile ==
  /\ pc = "dumping"
  /\ pc' = "sweeping"
  /\ globalFile' = globalConfig
  /\ UNCHANGED <<envVars, disk, runVars, history>>

Sweep(h) ==
  /\ pc = "sweeping"
  /\ pc' = "removing"
  /\ target' = stale[h]
  /\ stale' = Pop(h)
  /\ \E r \in Ruins(disk[stale[h]]) : disk' = [disk EXCEPT ![stale[h]] = r]
  /\ UNCHANGED <<envVars, globalFile, todo, globalConfig, fetched, copied, history>>

FinishSweep ==
  /\ pc = "removing"
  /\ pc' = "sweeping"
  /\ disk' = [d \in DOMAIN disk \ {target} |-> disk[d]]
  /\ target' = NoDir
  /\ UNCHANGED <<envVars, globalFile, todo, stale, globalConfig, fetched, copied, history>>

\* Mutant: the run ends without the sweep.
FinishUnswept ==
  /\ pc = "sweeping"
  /\ Exit
  /\ settled' = Max2(settled)
  /\ UNCHANGED <<envVars, disk, globalFile, mishaps, aborts>>

Finish ==
  /\ pc = "sweeping"
  /\ stale = <<>>
  /\ Exit
  /\ settled' = Max2(settled)
  /\ UNCHANGED <<envVars, disk, globalFile, mishaps, aborts>>

RunStep ==
  \/ SkipDisabled \/ SkipInstalled \/ CompareDigest \/ ForceDownload \/ Download
  \/ Fetch \/ RejectPackage \/ Clear \/ Extract \/ FinishExtract
  \/ WriteDigest \/ OpenHashFile \/ WriteHash \/ MergeFragment \/ MergeConflict
  \/ OpenGlobalFile \/ WriteGlobalFile
  \/ \E h \in DOMAIN stale : Sweep(h)
  \/ FinishSweep \/ Finish

Next ==
  \/ EditConfig \/ (\E s \in Sources : Publish(s))
  \/ NothingToInstall \/ InvalidFile \/ Begin
  \/ RunStep \/ Fail \/ Kill

Spec == Init /\ [][Next]_vars

-----------------------------------------------------------------------------
Hashes == {HashOf(p) : p \in Entries}

Phases == {"idle", "plugin", "fetching", "replacing", "clearing", "extracting", "digesting",
           "hashing", "writing", "merging", "dumping", "sweeping", "removing"}

\* plugin_path_by_hash names directories that are there, and none of them twice.
StaleOK ==
  /\ DOMAIN stale \subseteq Hashes \cup {Torn}
  /\ \A h \in DOMAIN stale : stale[h] \in DOMAIN disk
  /\ \A g, h \in DOMAIN stale : stale[g] = stale[h] => g = h

TypeOK ==
  /\ file \in ConfigFiles
  /\ published \in [Sources -> Versions]
  /\ DOMAIN disk \subseteq Dirs
  /\ \A d \in DOMAIN disk :
       disk[d] \in [hash : Hashes \cup {Torn, NoFile}, digest : Versions \cup {0},
                   content : Versions \cup {Partial}]
  /\ pc \in Phases
  /\ todo \in Seq(Entries)
  /\ StaleOK
  /\ target \in Dirs \cup {NoDir} /\ fetched \in Versions \cup {0}
  /\ \A s \in DOMAIN copied : copied[s] \in Versions
  /\ settled \in 0 .. 2 /\ mishaps \subseteq Mishaps /\ aborts \in 0 .. MaxAborts

(* A directory with a hash file is what later runs skip as already         *)
(* installed: it holds all of its files, unless rmtree was killed halfway. *)
HashedComplete ==
  "rmtree_killed" \notin mishaps =>
    \A d \in DOMAIN disk :
      \/ disk[d].hash \in {NoFile, Torn}
      \/ disk[d].content # Partial
      \/ d = target /\ pc \in {"clearing", "removing"}

(* What is installed under an entry with an integrity hash is the content  *)
(* that hash identifies, whatever the registry served in between.          *)
IntegrityKept ==
  \A d \in DOMAIN disk :
    LET h == disk[d].hash
    IN  h \notin {NoFile, Torn} /\ ~IsOci(h) /\ ~IsLocal(h) =>
          disk[d].content \in {Partial, h["integrity"]}

(* The digest kept beside an image's plugin is that of the image its files *)
(* came from, unless the tag moved between the copy and the second look.   *)
DigestHonest ==
  "tag_moved" \notin mishaps =>
    \A d \in DOMAIN disk : disk[d].digest # 0 => disk[d].content \in {Partial, disk[d].digest}

Installed(p) ==
  \E d \in DOMAIN disk : disk[d].hash = HashOf(p) /\ disk[d].content # Partial

(* The header comment: each enabled plugin is extracted in the root        *)
(* directory.                                                              *)
SuccessInstalls ==
  pc = "idle" /\ settled >= 1 => \A p \in EnabledOf(file) : Installed(p)

\* No two enabled plugins of a configuration are extracted in one directory.
OwnPlaces(f) ==
  \A p, q \in EnabledOf(f) : p # q =>
    \A v, w \in Versions : DirOf[<<p["package"], v>>] # DirOf[<<q["package"], w>>]

(* What the code achieves: after a second successful run with the same     *)
(* configuration every enabled plugin is there, whatever came before,      *)
(* unless two of them take turns in one directory.                         *)
SettledInstalls ==
  pc = "idle" /\ settled = 2 /\ "rmtree_killed" \notin mishaps /\ OwnPlaces(file) =>
    \A p \in EnabledOf(file) : Installed(p)

\* Of a local package that is packed on every run: each version has a directory.
Repacked(h) == IsLocal(h) /\ Forced(h)

(* Without aborted runs, a successful run leaves no directory of a plugin  *)
(* that is disabled, removed or replaced. A package that is packed on      *)
(* every run is excepted: plugin_path_by_hash has one of its directories.  *)
SettledClean ==
  pc = "idle" /\ settled >= 1 /\ mishaps \subseteq {"tag_moved"} =>
    \A d \in DOMAIN disk :
      Repacked(disk[d].hash) \/ \E p \in EnabledOf(file) : disk[d].hash = HashOf(p)

(* An image pulled Always is the one published, once two runs succeeded    *)
(* since it was.                                                           *)
SettledFresh ==
  pc = "idle" /\ settled = 2 /\ mishaps \subseteq {"aborted"} =>
    \A p \in EnabledOf(file), d \in DOMAIN disk :
      IsOci(p) /\ Forced(p) /\ disk[d].hash = HashOf(p) =>
        disk[d].content = published[SourceOf[p["package"]]]

OfEnabled(d) == \E p \in EnabledOf(file) : disk[d].hash = HashOf(p)

(* docs/dynamic-plugins/installing-plugins.md: plugins are downloaded and  *)
(* extracted only once. From the second successful run on, if no plugin is *)
(* pulled every time, a run makes no directory and leaves those of the     *)
(* enabled plugins alone; what it may do is to sweep what is left of       *)
(* others.                                                                 *)
OnlyOnce ==
  [][settled = 2 /\ OwnPlaces(file) /\ (\A p \in EnabledOf(file) : ~Forced(p)) =>
       /\ DOMAIN disk' \subseteq DOMAIN disk
       /\ \A d \in DOMAIN disk : OfEnabled(d) => d \in DOMAIN disk' /\ disk'[d] = disk[d]]_vars

(* After a successful run the global configuration holds the fragments of  *)
(* the enabled plugins and no others.                                      *)
GlobalFileCurrent ==
  settled >= 1 /\ pc # "dumping" =>
    /\ DOMAIN globalFile = DOMAIN BaseConfig
         \cup UNION {DOMAIN Fragment(p) : p \in EnabledOf(file)}
    /\ \A p \in EnabledOf(file) : \A k \in DOMAIN Fragment(p) : globalFile[k] = Fragment(p)[k]
=============================================================================
