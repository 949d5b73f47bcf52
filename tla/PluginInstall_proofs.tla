------------------------ MODULE PluginInstall_proofs ------------------------
(***************************************************************************)
(* What the files in dynamic-plugins-root mean, for all configurations,    *)
(* sources and directories, and however often runs are killed; then what   *)
(* successful runs lead to, whatever the runs before them left on the      *)
(* volume: the global configuration, the plugins that are there, those     *)
(* that are not, and that nothing is downloaded twice.                     *)
(***************************************************************************)
EXTENDS PluginInstall, TLAPS

Installing == pc \in {"replacing", "clearing", "extracting", "digesting", "hashing", "writing"}

(* Between the fetch and the hash file the entry at hand stays, and what   *)
(* was fetched for it is what its integrity hash identifies.               *)
FetchOK ==
  /\ Installing \/ pc \in {"fetching", "merging"} => todo # <<>>
  /\ Installing => /\ target \in Dirs
                   /\ fetched \in Versions
                   /\ \/ IsOci(Plugin) \/ IsLocal(Plugin)
                      \/ "integrity" \in DOMAIN Plugin /\ Plugin["integrity"] = fetched

(* How far the replacement of the target has come.                         *)
TargetOK ==
  /\ pc \in {"clearing", "removing", "extracting", "digesting", "hashing", "writing"} =>
       target \in DOMAIN disk
  /\ pc \in {"extracting", "digesting", "hashing"} => disk[target].hash = NoFile
  /\ pc \in {"extracting", "digesting"} => disk[target].digest = 0
  /\ pc \in {"digesting", "hashing", "writing"} => disk[target].content = fetched
  /\ pc = "removing" => \A h \in DOMAIN stale : stale[h] # target

(* HashedComplete is not inductive: that a hash file is only written into  *)
(* a complete directory rests on the progress of the run.                  *)
IInv == TypeOK /\ FetchOK /\ TargetOK /\ HashedComplete /\ IntegrityKept /\ DigestHonest

-----------------------------------------------------------------------------
(* The hash of an entry keeps its package and its integrity hash.          *)
LEMMA HashFields ==
  ASSUME NEW p \in Entries
  PROVE  /\ HashOf(p) \in Hashes
         /\ IsOci(HashOf(p)) <=> IsOci(p)
         /\ IsLocal(HashOf(p)) <=> IsLocal(p)
         /\ "integrity" \in DOMAIN p => HashOf(p)["integrity"] = p["integrity"]
<1>1. HashOf(p) \in Hashes
  BY DEF Hashes
<1>2. "package" \in DOMAIN p
  BY EntriesAssumption
<1>3. HashOf(p)["package"] = p["package"]
  BY <1>2 DEF HashOf
<1>4. "integrity" \in DOMAIN p => HashOf(p)["integrity"] = p["integrity"]
  BY DEF HashOf
<1> QED
  BY <1>1, <1>3, <1>4 DEF IsOci, IsLocal

LEMMA EntryAtHand ==
  ASSUME TypeOK, todo # <<>>
  PROVE  /\ Plugin \in Entries
         /\ Tail(todo) \in Seq(Entries)
         /\ Source \in Sources
         /\ published[Source] \in Versions
<1>1. Plugin \in Entries /\ Tail(todo) \in Seq(Entries)
  BY DEF TypeOK, Plugin
<1>2. Source \in Sources
  BY <1>1, EntriesAssumption DEF Source
<1> QED
  BY <1>1, <1>2 DEF TypeOK

LEMMA InitIInv == Init => IInv
<1> SUFFICES ASSUME Init
             PROVE  IInv
  OBVIOUS
<1> USE DEF Init
<1>1. TypeOK
  BY BoundsAssumption DEF TypeOK, StaleOK, Phases, Versions, Mishaps
<1>2. FetchOK /\ TargetOK
  BY DEF FetchOK, TargetOK, Installing
<1>3. HashedComplete /\ IntegrityKept /\ DigestHonest
  BY DEF HashedComplete, IntegrityKept, DigestHonest
<1> QED
  BY <1>1, <1>2, <1>3 DEF IInv

(* The disk invariants look at nothing but the disk, the target and the    *)
(* mishaps: they survive a step that leaves the disk alone.                *)
LEMMA DiskUntouched ==
  ASSUME IInv, UNCHANGED disk, mishaps \subseteq mishaps',
         \/ pc \notin {"clearing", "removing"}
         \/ "rmtree_killed" \in mishaps'
  PROVE  HashedComplete' /\ IntegrityKept' /\ DigestHonest'
BY DEF IInv, HashedComplete, IntegrityKept, DigestHonest

LEMMA EnvStep ==
  ASSUME IInv, EditConfig \/ (\E s \in Sources : Publish(s)) \/ NothingToInstall \/ InvalidFile
  PROVE  IInv'
<1>1. CASE EditConfig \/ NothingToInstall \/ InvalidFile
  <2> USE <1>1 DEF EditConfig, NothingToInstall, InvalidFile, envVars, runVars
  <2>1. TypeOK'
    BY DEF IInv, TypeOK, StaleOK
  <2>2. FetchOK' /\ TargetOK'
    BY DEF FetchOK, TargetOK, Installing
  <2>3. HashedComplete' /\ IntegrityKept' /\ DigestHonest'
    BY DiskUntouched
  <2> QED
    BY <2>1, <2>2, <2>3 DEF IInv
<1>2. ASSUME NEW s \in Sources, Publish(s)
      PROVE  IInv'
  <2> USE <1>2 DEF Publish, runVars
  <2>1. published' \in [Sources -> Versions]
    BY BoundsAssumption DEF IInv, TypeOK, Versions
  <2>2. TypeOK'
    BY <2>1 DEF IInv, TypeOK, StaleOK
  <2>3. FetchOK' /\ TargetOK'
    BY DEF IInv, FetchOK, TargetOK, Installing, Plugin
  <2>4. HashedComplete' /\ IntegrityKept' /\ DigestHonest'
    BY DEF IInv, HashedComplete, IntegrityKept, DigestHonest
  <2> QED
    BY <2>2, <2>3, <2>4 DEF IInv
<1> QED
  BY <1>1, <1>2

LEMMA BeginStep == ASSUME IInv, Begin PROVE IInv'
<1> USE DEF Begin, envVars, history
<1>1. AllPlugins(file) \in Seq(Entries)
  BY EntriesAssumption DEF IInv, TypeOK
<1>2. StaleOK'
  <2>1. PICK f \in Scan : stale' = f
    OBVIOUS
  <2> DEFINE H == {disk[d].hash : d \in DOMAIN disk} \ {NoFile}
  <2>2. f \in [H -> DOMAIN disk] /\ \A h \in H : disk[f[h]].hash = h
    BY DEF Scan
  <2>3. H \subseteq Hashes \cup {Torn}
    BY DEF IInv, TypeOK
  <2> QED
    BY <2>1, <2>2, <2>3 DEF StaleOK
<1>3. TypeOK'
  BY <1>1, <1>2 DEF IInv, TypeOK, Phases
<1>4. FetchOK' /\ TargetOK'
  BY DEF FetchOK, TargetOK, Installing
<1>5. HashedComplete' /\ IntegrityKept' /\ DigestHonest'
  BY DiskUntouched
<1> QED
  BY <1>3, <1>4, <1>5 DEF IInv

(* A run that ends leaves the volume as it is at that moment.             *)
Ends ==
  /\ Exit
  /\ UNCHANGED <<file, published, disk>>
  /\ settled' \in 0 .. 2 /\ aborts' \in 0 .. MaxAborts
  /\ mishaps \subseteq mishaps' /\ mishaps' \subseteq Mishaps
  /\ pc \in {"clearing", "removing"} => "rmtree_killed" \in mishaps'

LEMMA ExitStep == ASSUME IInv, Ends PROVE IInv'
<1> USE DEF Exit, Ends
<1>1. stale' = <<>> /\ todo' = <<>>
  OBVIOUS
<1>2. StaleOK'
  BY <1>1 DEF StaleOK
<1>3. todo' \in Seq(Entries)
  BY <1>1
<1>4. TypeOK'
  BY <1>2, <1>3 DEF IInv, TypeOK, Phases
<1>5. FetchOK' /\ TargetOK'
  BY DEF FetchOK, TargetOK, Installing
<1>6. HashedComplete' /\ IntegrityKept' /\ DigestHonest'
  BY DiskUntouched
<1> QED
  BY <1>4, <1>5, <1>6 DEF IInv

LEMMA EarlyEnd ==
  ASSUME IInv, Fail \/ Kill \/ RejectPackage \/ MergeConflict \/ Finish
  PROVE  IInv'
<1> SUFFICES Ends
  BY ExitStep
<1>1. aborts \in 0 .. MaxAborts /\ settled \in 0 .. 2 /\ mishaps \subseteq Mishaps
  BY DEF IInv, TypeOK
<1> "aborted" \in Mishaps /\ "rmtree_killed" \in Mishaps
  BY DEF Mishaps
<1>2. CASE Fail
  BY <1>1, <1>2, BoundsAssumption DEF Fail, AtPlugin, Abort, Ends, envVars
<1>3. CASE Kill
  BY <1>1, <1>3, BoundsAssumption DEF Kill, Ends, envVars
<1>4. CASE RejectPackage \/ MergeConflict
  BY <1>1, <1>4 DEF RejectPackage, MergeConflict, Abort, Ends, envVars
<1>5. CASE Finish
  BY <1>1, <1>5 DEF Finish, Max2, Ends, envVars
<1> QED
  BY <1>2, <1>3, <1>4, <1>5

LEMMA PopStep ==
  ASSUME StaleOK, NEW h, stale' = Pop(h), UNCHANGED disk
  PROVE  StaleOK'
<1>1. DOMAIN stale' = DOMAIN stale \ {h} /\ \A k \in DOMAIN stale' : stale'[k] = stale[k]
  BY DEF Pop
<1> QED
  BY <1>1 DEF StaleOK

LEMMA DecideStep ==
  ASSUME IInv, SkipDisabled \/ SkipInstalled \/ CompareDigest \/ ForceDownload \/ Download
  PROVE  IInv'
<1>0. /\ pc = "plugin" /\ todo # <<>> /\ pc' \in {"plugin", "merging", "fetching"}
      /\ pc' # "plugin" => UNCHANGED todo
      /\ todo' \in {todo, Tail(todo)}
      /\ stale' = stale \/ stale' = Pop(HashOf(Plugin))
      /\ UNCHANGED <<file, published, disk, target, fetched, copied, settled, mishaps, aborts>>
  BY DEF SkipDisabled, SkipInstalled, CompareDigest, ForceDownload, Download, Decide,
         AtPlugin, envVars, history
<1>1. todo' \in Seq(Entries)
  BY <1>0, EntryAtHand DEF IInv, TypeOK
<1>2. StaleOK'
  <2>1. CASE stale' = stale
    BY <1>0, <2>1 DEF IInv, TypeOK, StaleOK
  <2>2. CASE stale' = Pop(HashOf(Plugin))
    BY <1>0, <2>2, PopStep DEF IInv, TypeOK
  <2> QED
    BY <1>0, <2>1, <2>2
<1>3. TypeOK'
  BY <1>0, <1>1, <1>2 DEF IInv, TypeOK, Phases
<1>4. FetchOK' /\ TargetOK'
  BY <1>0 DEF FetchOK, TargetOK, Installing
<1>5. HashedComplete' /\ IntegrityKept' /\ DigestHonest'
  BY <1>0, DiskUntouched
<1> QED
  BY <1>3, <1>4, <1>5 DEF IInv

LEMMA FetchStep == ASSUME IInv, Fetch PROVE IInv'
<1> USE DEF Fetch, envVars, history
<1>0. todo # <<>>
  BY DEF IInv, FetchOK
<1>1. Plugin \in Entries /\ Delivered \in Versions
  BY <1>0, EntryAtHand DEF IInv, TypeOK, Delivered
<1>2. DirOf[<<Plugin["package"], Delivered>>] \in Dirs
  BY <1>1, PlacesAssumption
<1>3. \A s \in DOMAIN copied' : copied'[s] \in Versions
  BY <1>1 DEF IInv, TypeOK, Put
<1>4. TypeOK'
  BY <1>1, <1>2, <1>3 DEF IInv, TypeOK, StaleOK, Phases
<1>5. FetchOK'
  BY <1>0, <1>1, <1>2 DEF FetchOK, Installing, Verified, Plugin, IsOci, IsLocal
<1>6. TargetOK'
  BY DEF TargetOK
<1>7. HashedComplete' /\ IntegrityKept' /\ DigestHonest'
  BY DiskUntouched
<1> QED
  BY <1>4, <1>5, <1>6, <1>7 DEF IInv

-----------------------------------------------------------------------------
(* Steps that change one directory of the volume.                          *)

DirRecord == [hash : Hashes \cup {Torn, NoFile}, digest : Versions \cup {0},
              content : Versions \cup {Partial}]

(* What the replaced directory t may hold when such a step is over.        *)
GoodDir(t, r) ==
  /\ r \in DirRecord
  /\ r.hash \in {NoFile, Torn} \/ r.content # Partial \/ pc' \in {"clearing", "removing"}
  /\ r.hash \notin {NoFile, Torn} /\ ~IsOci(r.hash) /\ ~IsLocal(r.hash) =>
       r.content \in {Partial, r.hash["integrity"]}
  /\ "tag_moved" \notin mishaps' => r.digest = 0 \/ r.content \in {Partial, r.digest}

LEMMA DiskStep ==
  ASSUME IInv, NEW t \in Dirs, NEW r, GoodDir(t, r), target' = t,
         disk' = Put(disk, t, r),
         pc \in {"clearing", "removing"} => t = target,
         mishaps \subseteq mishaps'
  PROVE  /\ DOMAIN disk' = DOMAIN disk \cup {t}
         /\ disk'[t] = r
         /\ DOMAIN disk' \subseteq Dirs
         /\ \A d \in DOMAIN disk' : disk'[d] \in DirRecord
         /\ HashedComplete' /\ IntegrityKept' /\ DigestHonest'
<1>1. DOMAIN disk' = DOMAIN disk \cup {t} /\ disk'[t] = r
  BY DEF Put
<1>2. \A d \in DOMAIN disk' : d # t => d \in DOMAIN disk /\ disk'[d] = disk[d]
  BY DEF Put
<1>3. DOMAIN disk' \subseteq Dirs /\ \A d \in DOMAIN disk' : disk'[d] \in DirRecord
  BY <1>1, <1>2 DEF IInv, TypeOK, DirRecord, GoodDir
<1>4. HashedComplete'
  BY <1>1, <1>2 DEF IInv, HashedComplete, GoodDir
<1>5. IntegrityKept'
  BY <1>1, <1>2 DEF IInv, IntegrityKept, GoodDir
<1>6. DigestHonest'
  BY <1>1, <1>2 DEF IInv, DigestHonest, GoodDir
<1> QED
  BY <1>1, <1>3, <1>4, <1>5, <1>6

LEMMA RuinsGood ==
  ASSUME IInv, NEW t \in DOMAIN disk, NEW r \in Ruins(disk[t]), pc' \in {"clearing", "removing"}
  PROVE  GoodDir(t, r)
<1>1. disk[t] \in DirRecord
  BY DEF IInv, TypeOK, DirRecord
<1>2. /\ r \in DirRecord /\ r.content = Partial
  BY <1>1 DEF Ruins, DirRecord
<1> QED
  BY <1>2 DEF GoodDir

LEMMA ExceptIsPut ==
  ASSUME NEW f, NEW x \in DOMAIN f, NEW v
  PROVE  [f EXCEPT ![x] = v] = Put(f, x, v)
BY DEF Put

LEMMA ClearStep == ASSUME IInv, Clear PROVE IInv'
<1> USE DEF Clear, envVars, runVars, history
<1>1. PICK r \in Ruins(disk[target]) : disk' = Put(disk, target, r)
  BY ExceptIsPut
<1>2. target \in Dirs /\ todo # <<>>
  BY DEF IInv, FetchOK, Installing
<1>3. /\ DOMAIN disk' = DOMAIN disk
      /\ DOMAIN disk' \subseteq Dirs /\ \A d \in DOMAIN disk' : disk'[d] \in DirRecord
      /\ HashedComplete' /\ IntegrityKept' /\ DigestHonest'
  BY <1>1, <1>2, RuinsGood, DiskStep
<1>4. TypeOK'
  BY <1>3 DEF IInv, TypeOK, StaleOK, Phases, DirRecord
<1>5. FetchOK' /\ TargetOK'
  BY <1>3 DEF IInv, FetchOK, TargetOK, Installing, Plugin
<1> QED
  BY <1>3, <1>4, <1>5 DEF IInv

LEMMA ExtractStep == ASSUME IInv, Extract PROVE IInv'
<1> USE DEF Extract, envVars, runVars, history
<1> DEFINE r == [hash |-> NoFile, digest |-> 0, content |-> Partial]
<1>1. target \in Dirs /\ todo # <<>>
  BY DEF IInv, FetchOK, Installing
<1>2. GoodDir(target, r)
  BY DEF GoodDir, DirRecord
<1>3. /\ DOMAIN disk' = DOMAIN disk \cup {target} /\ disk'[target] = r
      /\ DOMAIN disk' \subseteq Dirs /\ \A d \in DOMAIN disk' : disk'[d] \in DirRecord
      /\ HashedComplete' /\ IntegrityKept' /\ DigestHonest'
  BY <1>1, <1>2, DiskStep
<1>4. TypeOK'
  BY <1>3 DEF IInv, TypeOK, StaleOK, Phases, DirRecord
<1>5. FetchOK' /\ TargetOK'
  BY <1>3 DEF IInv, FetchOK, TargetOK, Installing, Plugin
<1> QED
  BY <1>3, <1>4, <1>5 DEF IInv

(* The replaced directory while it is filled.                              *)
LEMMA AtWork ==
  ASSUME IInv, pc \in {"extracting", "digesting", "hashing", "writing"}
  PROVE  /\ target \in Dirs /\ target \in DOMAIN disk /\ disk[target] \in DirRecord
         /\ fetched \in Versions /\ fetched # Partial
         /\ todo # <<>> /\ Plugin \in Entries
<1>1. target \in Dirs /\ todo # <<>> /\ fetched \in Versions
  BY DEF IInv, FetchOK, Installing
<1>2. target \in DOMAIN disk /\ disk[target] \in DirRecord
  BY DEF IInv, TypeOK, TargetOK, DirRecord
<1> QED
  BY <1>1, <1>2, EntryAtHand, BoundsAssumption DEF IInv, Versions, Partial

LEMMA FinishExtractStep == ASSUME IInv, FinishExtract PROVE IInv'
<1> USE DEF FinishExtract, envVars, runVars, history
<1> DEFINE r == [disk[target] EXCEPT !.content = fetched]
<1>1. /\ target \in Dirs /\ target \in DOMAIN disk /\ disk[target] \in DirRecord
      /\ fetched \in Versions /\ fetched # Partial
      /\ todo # <<>> /\ Plugin \in Entries
  BY AtWork
<1>2. GoodDir(target, r)
  BY <1>1 DEF IInv, TargetOK, GoodDir, DirRecord
<1>3. disk' = Put(disk, target, r)
  BY <1>1, ExceptIsPut
<1>4. /\ DOMAIN disk' = DOMAIN disk /\ disk'[target] = r
      /\ DOMAIN disk' \subseteq Dirs /\ \A d \in DOMAIN disk' : disk'[d] \in DirRecord
      /\ HashedComplete' /\ IntegrityKept' /\ DigestHonest'
  BY <1>1, <1>2, <1>3, DiskStep
<1>5. TypeOK'
  BY <1>4 DEF IInv, TypeOK, StaleOK, Phases, DirRecord
<1>6. FetchOK' /\ TargetOK'
  BY <1>1, <1>4 DEF IInv, FetchOK, TargetOK, Installing, Plugin, DirRecord
<1> QED
  BY <1>4, <1>5, <1>6 DEF IInv

LEMMA WriteDigestStep == ASSUME IInv, WriteDigest PROVE IInv'
<1> USE DEF WriteDigest, envVars, runVars, history
<1> DEFINE r == [disk[target] EXCEPT !.digest = published[Source]]
<1>1. /\ target \in Dirs /\ target \in DOMAIN disk /\ disk[target] \in DirRecord
      /\ fetched \in Versions /\ fetched # Partial
      /\ todo # <<>> /\ Plugin \in Entries
  BY AtWork
<1>2. GoodDir(target, r)
  BY <1>1, EntryAtHand DEF IInv, TargetOK, GoodDir, DirRecord
<1>3. disk' = Put(disk, target, r)
  BY <1>1, ExceptIsPut
<1>4. /\ DOMAIN disk' = DOMAIN disk /\ disk'[target] = r
      /\ DOMAIN disk' \subseteq Dirs /\ \A d \in DOMAIN disk' : disk'[d] \in DirRecord
      /\ HashedComplete' /\ IntegrityKept' /\ DigestHonest'
  BY <1>1, <1>2, <1>3, DiskStep
<1>5. TypeOK'
  BY <1>4 DEF IInv, TypeOK, StaleOK, Phases, DirRecord, Mishaps
<1>6. FetchOK' /\ TargetOK'
  BY <1>1, <1>4 DEF IInv, FetchOK, TargetOK, Installing, Plugin, DirRecord
<1> QED
  BY <1>4, <1>5, <1>6 DEF IInv

LEMMA OpenHashFileStep == ASSUME IInv, OpenHashFile PROVE IInv'
<1> USE DEF OpenHashFile, envVars, runVars, history
<1> DEFINE r == [disk[target] EXCEPT !.hash = Torn]
<1>1. /\ target \in Dirs /\ target \in DOMAIN disk /\ disk[target] \in DirRecord
      /\ fetched \in Versions /\ fetched # Partial
      /\ todo # <<>> /\ Plugin \in Entries
  BY AtWork
<1>2. GoodDir(target, r)
  BY <1>1 DEF IInv, TargetOK, GoodDir, DirRecord, DigestHonest
<1>3. disk' = Put(disk, target, r)
  BY <1>1, ExceptIsPut
<1>4. /\ DOMAIN disk' = DOMAIN disk /\ disk'[target] = r
      /\ DOMAIN disk' \subseteq Dirs /\ \A d \in DOMAIN disk' : disk'[d] \in DirRecord
      /\ HashedComplete' /\ IntegrityKept' /\ DigestHonest'
  BY <1>1, <1>2, <1>3, DiskStep
<1>5. TypeOK'
  BY <1>4 DEF IInv, TypeOK, StaleOK, Phases, DirRecord
<1>6. FetchOK' /\ TargetOK'
  BY <1>1, <1>4 DEF IInv, FetchOK, TargetOK, Installing, Plugin, DirRecord
<1> QED
  BY <1>4, <1>5, <1>6 DEF IInv

LEMMA WriteHashStep == ASSUME IInv, WriteHash PROVE IInv'
<1> USE DEF WriteHash, envVars, runVars, history
<1> DEFINE r == [disk[target] EXCEPT !.hash = HashOf(Plugin)]
<1>1. /\ target \in Dirs /\ target \in DOMAIN disk /\ disk[target] \in DirRecord
      /\ fetched \in Versions /\ fetched # Partial
      /\ todo # <<>> /\ Plugin \in Entries
  BY AtWork
<1>2. GoodDir(target, r)
  <2>1. HashOf(Plugin) \in Hashes /\ disk[target].content = fetched
    BY <1>1, HashFields DEF IInv, TargetOK
  <2>2. ~IsOci(HashOf(Plugin)) /\ ~IsLocal(HashOf(Plugin)) =>
          HashOf(Plugin)["integrity"] = fetched
    BY <1>1, HashFields DEF IInv, FetchOK, Installing
  <2> QED
    BY <1>1, <2>1, <2>2 DEF IInv, GoodDir, DirRecord, DigestHonest
<1>3. disk' = Put(disk, target, r)
  BY <1>1, ExceptIsPut
<1>4. /\ DOMAIN disk' = DOMAIN disk /\ disk'[target] = r
      /\ DOMAIN disk' \subseteq Dirs /\ \A d \in DOMAIN disk' : disk'[d] \in DirRecord
      /\ HashedComplete' /\ IntegrityKept' /\ DigestHonest'
  BY <1>1, <1>2, <1>3, DiskStep
<1>5. TypeOK'
  BY <1>4 DEF IInv, TypeOK, StaleOK, Phases, DirRecord
<1>6. FetchOK' /\ TargetOK'
  BY <1>1, <1>4 DEF IInv, FetchOK, TargetOK, Installing, Plugin, DirRecord
<1> QED
  BY <1>4, <1>5, <1>6 DEF IInv

-----------------------------------------------------------------------------
(* The rest of a run.                                                      *)

LEMMA MergeStep == ASSUME IInv, MergeFragment PROVE IInv'
<1> USE DEF MergeFragment, envVars, history
<1>1. todo # <<>>
  BY DEF IInv, FetchOK
<1>2. todo' \in Seq(Entries)
  BY <1>1, EntryAtHand DEF IInv
<1>3. TypeOK'
  BY <1>2 DEF IInv, TypeOK, StaleOK, Phases
<1>4. FetchOK' /\ TargetOK'
  BY DEF FetchOK, TargetOK, Installing
<1>5. HashedComplete' /\ IntegrityKept' /\ DigestHonest'
  BY DiskUntouched
<1> QED
  BY <1>3, <1>4, <1>5 DEF IInv

LEMMA GlobalFileStep == ASSUME IInv, OpenGlobalFile \/ WriteGlobalFile PROVE IInv'
<1> USE DEF OpenGlobalFile, WriteGlobalFile, envVars, runVars, history
<1>1. TypeOK'
  BY DEF IInv, TypeOK, StaleOK, Phases
<1>2. FetchOK' /\ TargetOK'
  BY DEF FetchOK, TargetOK, Installing
<1>3. HashedComplete' /\ IntegrityKept' /\ DigestHonest'
  BY DiskUntouched
<1> QED
  BY <1>1, <1>2, <1>3 DEF IInv

LEMMA SweepStep == ASSUME IInv, NEW h \in DOMAIN stale, Sweep(h) PROVE IInv'
<1> USE DEF Sweep, envVars, history
<1>1. stale[h] \in DOMAIN disk /\ stale[h] \in Dirs
  BY DEF IInv, TypeOK, StaleOK
<1>2. PICK r \in Ruins(disk[stale[h]]) : disk' = Put(disk, stale[h], r)
  BY <1>1, ExceptIsPut
<1>3. /\ DOMAIN disk' = DOMAIN disk
      /\ DOMAIN disk' \subseteq Dirs /\ \A d \in DOMAIN disk' : disk'[d] \in DirRecord
      /\ HashedComplete' /\ IntegrityKept' /\ DigestHonest'
  BY <1>1, <1>2, RuinsGood, DiskStep
<1>4. DOMAIN stale' = DOMAIN stale \ {h} /\ \A k \in DOMAIN stale' : stale'[k] = stale[k]
  BY DEF Pop
<1>5. TypeOK'
  BY <1>1, <1>3, <1>4 DEF IInv, TypeOK, StaleOK, Phases, DirRecord
<1>6. FetchOK' /\ TargetOK'
  BY <1>1, <1>3, <1>4 DEF IInv, TypeOK, StaleOK, FetchOK, TargetOK, Installing
<1> QED
  BY <1>3, <1>5, <1>6 DEF IInv

LEMMA FinishSweepStep == ASSUME IInv, FinishSweep PROVE IInv'
<1> USE DEF FinishSweep, envVars, history
<1>1. /\ DOMAIN disk' = DOMAIN disk \ {target}
      /\ \A d \in DOMAIN disk' : disk'[d] = disk[d]
  OBVIOUS
<1>2. TypeOK'
  BY <1>1 DEF IInv, TypeOK, StaleOK, TargetOK, Phases
<1>3. FetchOK' /\ TargetOK'
  BY DEF FetchOK, TargetOK, Installing
<1>4. HashedComplete' /\ IntegrityKept' /\ DigestHonest'
  BY <1>1 DEF IInv, HashedComplete, IntegrityKept, DigestHonest
<1> QED
  BY <1>2, <1>3, <1>4 DEF IInv

LEMMA NextStep == IInv /\ [Next]_vars => IInv'
<1> SUFFICES ASSUME IInv, [Next]_vars
             PROVE  IInv'
  OBVIOUS
<1>1. CASE EditConfig \/ (\E s \in Sources : Publish(s)) \/ NothingToInstall \/ InvalidFile
  BY <1>1, EnvStep
<1>2. CASE Begin
  BY <1>2, BeginStep
<1>3. CASE Fail \/ Kill \/ RejectPackage \/ MergeConflict \/ Finish
  BY <1>3, EarlyEnd
<1>4. CASE SkipDisabled \/ SkipInstalled \/ CompareDigest \/ ForceDownload \/ Download
  BY <1>4, DecideStep
<1>5. CASE Fetch
  BY <1>5, FetchStep
<1>6. CASE Clear \/ Extract \/ FinishExtract
  BY <1>6, ClearStep, ExtractStep, FinishExtractStep
<1>7. CASE WriteDigest \/ OpenHashFile \/ WriteHash
  BY <1>7, WriteDigestStep, OpenHashFileStep, WriteHashStep
<1>8. CASE MergeFragment \/ OpenGlobalFile \/ WriteGlobalFile
  BY <1>8, MergeStep, GlobalFileStep
<1>9. CASE (\E h \in DOMAIN stale : Sweep(h)) \/ FinishSweep
  BY <1>9, SweepStep, FinishSweepStep
<1>10. CASE UNCHANGED vars
  <2> USE <1>10 DEF vars, envVars, runVars, history
  <2>1. TypeOK'
    BY DEF IInv, TypeOK, StaleOK
  <2>2. FetchOK' /\ TargetOK'
    BY DEF IInv, FetchOK, TargetOK, Installing, Plugin
  <2>3. HashedComplete' /\ IntegrityKept' /\ DigestHonest'
    BY DEF IInv, HashedComplete, IntegrityKept, DigestHonest
  <2> QED
    BY <2>1, <2>2, <2>3 DEF IInv
<1> QED
  BY <1>1, <1>2, <1>3, <1>4, <1>5, <1>6, <1>7, <1>8, <1>9, <1>10 DEF Next, RunStep

(* The invariant of every sequence of runs of the script.                  *)
THEOREM Inductive == Spec => []IInv
BY InitIInv, NextStep, PTL DEF Spec

(* The state of the script stays in its types, whatever the configurations *)
(* name and however runs end.                                              *)
THEOREM TypeCorrect == Spec => []TypeOK
BY Inductive, PTL DEF IInv

(* A directory that later runs skip because of its hash file is complete,  *)
(* unless a run was killed while it deleted one.                           *)
THEOREM HashedCompleteAlways == Spec => []HashedComplete
BY Inductive, PTL DEF IInv

(* verify_package_integrity: what is installed for an entry is the content *)
(* its integrity hash identifies, whenever the registry changes.           *)
THEOREM IntegrityAlways == Spec => []IntegrityKept
BY Inductive, PTL DEF IInv

(* The digest file tells the truth while no tag moves during a run.        *)
THEOREM DigestHonestAlways == Spec => []DigestHonest
BY Inductive, PTL DEF IInv

-----------------------------------------------------------------------------
(* Successful runs.                                                        *)


Enabled == EnabledOf(file)

Going == pc # "idle"

AtWorkOn == Installing \/ pc \in {"fetching", "merging"}

(* The entries that the run has not begun with.                            *)
Waiting == IF AtWorkOn THEN ToSet(Tail(todo)) ELSE ToSet(todo)

(* The entries that it is done with.                                       *)
Handled == Enabled \ ToSet(todo)

(* A run works through the entries of one configuration, each of them once.*)
TodoOK ==
  /\ Going => /\ file.kind = "plugins"
              /\ ToSet(todo) \subseteq ToSet(AllPlugins(file))
              /\ Distinct(todo)
  /\ pc \in {"idle", "dumping", "sweeping", "removing"} => todo = <<>>
  /\ ~Going => stale = <<>> /\ copied = <<>>
  /\ AtWorkOn => ~Disabled(Plugin)

-----------------------------------------------------------------------------
(* The fragments of p are what the configuration holds for their keys.     *)
Merged(p, config) ==
  DOMAIN Fragment(p) \subseteq DOMAIN config
  /\ \A k \in DOMAIN Fragment(p) : config[k] = Fragment(p)[k]

Keys(ps) == DOMAIN BaseConfig \cup UNION {DOMAIN Fragment(p) : p \in ps}

ConfigOK ==
  /\ Going => /\ DOMAIN BaseConfig \subseteq DOMAIN globalConfig
              /\ DOMAIN globalConfig \subseteq Keys(Enabled)
              /\ \A p \in Handled : Merged(p, globalConfig)
  /\ pc \in {"sweeping", "removing"} => globalFile = globalConfig

-----------------------------------------------------------------------------
(* Where a directory with the hash h may be.                               *)
Places(h) ==
  {DirOf[<<h["package"], v>>] :
     v \in {w \in Versions : IsOci(h) \/ IsLocal(h) \/ h["integrity"] = w}}

PlaceOK ==
  /\ \A d \in DOMAIN disk : disk[d].hash \in Hashes => d \in Places(disk[d].hash)
  /\ \A h \in DOMAIN stale : h \in Hashes => stale[h] \in Places(h)
  /\ Installing => target = DirOf[<<Plugin["package"], fetched>>]
  /\ \A p \in Handled : HashOf(p) \notin DOMAIN stale
  /\ pc \in {"merging"} \cup {"fetching"} \/ Installing => HashOf(Plugin) \notin DOMAIN stale

-----------------------------------------------------------------------------
(* A directory that neither the sweep nor the replacement at hand takes.   *)
Safe(d) ==
  /\ d \in DOMAIN disk
  /\ \A h \in DOMAIN stale : stale[h] # d
  /\ d = target => pc \notin {"clearing", "removing"}

Secure(p) == \E d \in DOMAIN disk : Safe(d) /\ disk[d].hash = HashOf(p)

SecureElsewhere(p) == \E d \in DOMAIN disk \ {target} : Safe(d) /\ disk[d].hash = HashOf(p)

Version(p) == IF IsLocal(p) THEN published[SourceOf[p["package"]]] ELSE p["integrity"]

Place(p) == DirOf[<<p["package"], Version(p)>>]

\* The sweep has taken the plugin's directory, and the next run makes it anew.
Vacant(p) == ~IsOci(p) /\ Version(p) \in Versions /\ Place(p) \notin DOMAIN disk

\* The sweep is going to take it.
Doomed(p) ==
  /\ ~IsOci(p) /\ Version(p) \in Versions
  /\ \/ \E h \in DOMAIN stale : stale[h] = Place(p)
     \/ pc = "removing" /\ target = Place(p)

Listed(p) == HashOf(p) \in DOMAIN stale

Found(p) == Listed(p) /\ disk[stale[HashOf(p)]].hash = HashOf(p)

Freed == \A h \in DOMAIN stale : stale[h] # target

Outlook ==
  /\ ~Going /\ settled >= 1 => \A p \in Enabled : Secure(p) \/ Vacant(p)
  /\ ~Going /\ settled = 2 => \A p \in Enabled : Secure(p)

HandledOK ==
  Going => /\ \A p \in Handled : Secure(p) \/ Vacant(p) \/ Doomed(p)
           /\ settled >= 1 => \A p \in Handled : Secure(p)

WaitingOK ==
  Going => /\ \A p \in Waiting \cap Enabled : Listed(p) => Found(p)
           /\ settled >= 1 => \A p \in Waiting \cap Enabled : Found(p) \/ Vacant(p)

AtHandOK ==
  /\ pc = "fetching" /\ settled >= 1 => Secure(Plugin) \/ Vacant(Plugin)
  /\ Installing /\ ~IsOci(Plugin) => fetched = Version(Plugin)
  /\ Installing /\ settled >= 1 => SecureElsewhere(Plugin) \/ Freed \/ IsOci(Plugin)
  /\ pc \in {"hashing", "writing"} /\ IsOci(Plugin) => Freed
  /\ pc = "merging" => Secure(Plugin) \/ (settled = 0 /\ Doomed(Plugin))

SettleOK == Outlook /\ HandledOK /\ WaitingOK /\ AtHandOK

Unforced == \A p \in Enabled : ~Forced(p)

\* From the second successful run on nothing is fetched.
QuietOK ==
  settled = 2 /\ Unforced =>
    /\ ~Installing /\ pc # "fetching"
    /\ Going => \A p \in Waiting \cap Enabled : Found(p)
    /\ \A h \in DOMAIN stale : disk[stale[h]].hash = h
    /\ pc = "removing" => ~OfEnabled(target)

-----------------------------------------------------------------------------
Unaborted == mishaps \subseteq {"tag_moved"}

\* A directory has the hash file of one of its plugins, until it is replaced or swept.
AllHashed ==
  \A d \in DOMAIN disk :
    \/ disk[d].hash \in Hashes
    \/ d = target /\ pc \in {"clearing", "extracting", "digesting", "hashing", "writing", "removing"}

OneOfAHash ==
  \A d, e \in DOMAIN disk :
    disk[d].hash = disk[e].hash /\ disk[d].hash \in Hashes => d = e \/ Repacked(disk[d].hash)

\* It is to be swept, or of an enabled plugin.
Accounted(d) ==
  LET h == disk[d].hash
  IN  h \in Hashes =>
        \/ Repacked(h)
        \/ h \in DOMAIN stale /\ stale[h] = d
        \/ h \notin DOMAIN stale /\ (OfEnabled(d) \/ (pc = "removing" /\ d = target))

Unknown(p) == \A d \in DOMAIN disk : disk[d].hash # HashOf(p)

CleanOK ==
  /\ AllHashed /\ OneOfAHash
  /\ Going => \A d \in DOMAIN disk : Accounted(d)
  /\ Going => \A p \in Waiting : HashOf(p) \in DOMAIN stale \/ Repacked(HashOf(p)) \/ Unknown(p)
  /\ pc = "fetching" /\ IsLocal(Plugin) => Repacked(HashOf(Plugin)) \/ Unknown(Plugin)
  /\ Installing /\ IsLocal(Plugin) =>
       \/ Repacked(HashOf(Plugin))
       \/ \A d \in DOMAIN disk \ {target} : disk[d].hash # HashOf(Plugin)
  /\ ~Going /\ settled >= 1 => \A d \in DOMAIN disk : Repacked(disk[d].hash) \/ OfEnabled(d)

-----------------------------------------------------------------------------
\* What is not being deleted of p's image is what is published now.
Fresh(p) ==
  \A d \in DOMAIN disk :
    \/ disk[d].hash # HashOf(p)
    \/ disk[d].content = published[SourceOf[p["package"]]]
    \/ d = target /\ pc \in {"clearing", "removing"}

Pulled(p) == IsOci(p) /\ Forced(p)

FreshOK ==
  /\ settled >= 1 => \A s \in DOMAIN copied : copied[s] = published[s]
  /\ Going /\ settled >= 1 => \A p \in Handled : ~Pulled(p) \/ Fresh(p)
  /\ ~Going /\ settled = 2 => \A p \in Enabled : ~Pulled(p) \/ Fresh(p)
  /\ Installing /\ settled >= 1 /\ IsOci(Plugin) => fetched = published[Source]
  /\ pc = "merging" /\ settled >= 1 /\ Pulled(Plugin) => Fresh(Plugin)

-----------------------------------------------------------------------------
(* Lists of entries.                                                       *)

(* The entries of one configuration have packages and hashes of their own. *)
LEMMA KeyOK ==
  ASSUME TypeOK, file.kind = "plugins"
  PROVE  /\ ToSet(AllPlugins(file)) \subseteq Entries
         /\ \A p, q \in ToSet(AllPlugins(file)) :
              p["package"] = q["package"] \/ HashOf(p) = HashOf(q) => p = q
<1>1. AllPlugins(file) \in Seq(Entries) /\ Distinct(AllPlugins(file))
  BY EntriesAssumption DEF TypeOK
<1>2. ToSet(AllPlugins(file)) \subseteq Entries
  BY <1>1 DEF ToSet
<1>3. \A p, q \in ToSet(AllPlugins(file)) : p["package"] = q["package"] => p = q
  BY <1>1 DEF ToSet, Distinct
<1>4. \A p \in Entries : HashOf(p)["package"] = p["package"]
  BY EntriesAssumption DEF HashOf
<1> QED
  BY <1>2, <1>3, <1>4

LEMMA EnabledListed ==
  /\ Enabled \subseteq ToSet(AllPlugins(file))
  /\ \A p \in ToSet(AllPlugins(file)) : ~Disabled(p) /\ file.kind = "plugins" => p \in Enabled
  /\ \A p \in Enabled : ~Disabled(p)
  /\ file.kind # "plugins" => Enabled = {}
BY DEF Enabled, EnabledOf

(* The entry at hand is not among those that wait behind it.               *)
LEMMA HeadTail ==
  ASSUME NEW s \in Seq(Entries), s # <<>>, Distinct(s)
  PROVE  /\ ToSet(s) = {Head(s)} \cup ToSet(Tail(s))
         /\ Head(s) \notin ToSet(Tail(s))
         /\ Tail(s) \in Seq(Entries) /\ Distinct(Tail(s))
<1>1. Tail(s) \in Seq(Entries) /\ Len(Tail(s)) = Len(s) - 1 /\ Len(s) > 0
  OBVIOUS
<1>2. \A i \in 1 .. Len(s) - 1 : Tail(s)[i] = s[i + 1]
  OBVIOUS
<1>3. Head(s) = s[1]
  OBVIOUS
<1>4. ToSet(s) = {Head(s)} \cup ToSet(Tail(s))
  <2>1. ASSUME NEW i \in DOMAIN s
        PROVE  s[i] = Head(s) \/ s[i] \in ToSet(Tail(s))
    <3>1. CASE i = 1
      BY <1>3, <3>1
    <3>2. CASE i # 1
      <4>1. i - 1 \in 1 .. Len(s) - 1 /\ i - 1 \in DOMAIN Tail(s) /\ Tail(s)[i - 1] = s[i]
        BY <1>1, <1>2, <3>2
      <4> QED
        BY <4>1 DEF ToSet
    <3> QED
      BY <3>1, <3>2
  <2>2. ASSUME NEW i \in DOMAIN Tail(s)
        PROVE  Tail(s)[i] \in ToSet(s)
    BY <1>1, <1>2 DEF ToSet
  <2>3. Head(s) \in ToSet(s)
    BY <1>1, <1>3 DEF ToSet
  <2> QED
    BY <2>1, <2>2, <2>3 DEF ToSet
<1>5. Distinct(Tail(s))
  BY <1>1, <1>2 DEF Distinct
<1>6. Head(s) \notin ToSet(Tail(s))
  BY <1>1, <1>2, <1>3 DEF Distinct, ToSet
<1> QED
  BY <1>1, <1>4, <1>5, <1>6

-----------------------------------------------------------------------------
(* What the steps of a run do to the list of entries and to the phase.     *)

Vars == <<file, published, disk, globalFile, pc, todo, stale, globalConfig, target, fetched,
          copied, settled, mishaps, aborts>>

EnvStart == EditConfig \/ (\E s \in Sources : Publish(s)) \/ NothingToInstall \/ InvalidFile

RunEnds == Fail \/ Kill \/ RejectPackage \/ MergeConflict \/ Finish

Chosen == SkipInstalled \/ CompareDigest \/ ForceDownload \/ Download

(* The steps between the choice and the merge stay with the entry at hand. *)
Replacing == Fetch \/ Clear \/ Extract \/ FinishExtract \/ WriteDigest \/ OpenHashFile \/ WriteHash

Ending == OpenGlobalFile \/ WriteGlobalFile \/ (\E h \in DOMAIN stale : Sweep(h)) \/ FinishSweep

LEMMA NextCases ==
  ASSUME [Next]_vars
  PROVE  \/ EnvStart \/ Begin \/ RunEnds \/ SkipDisabled \/ Chosen \/ Replacing
         \/ MergeFragment \/ Ending \/ UNCHANGED Vars
BY DEF Next, RunStep, EnvStart, RunEnds, Chosen, Replacing, Ending, Vars, vars, envVars, runVars,
       history

LEMMA EnvFrame ==
  ASSUME IInv, EnvStart
  PROVE  /\ UNCHANGED <<disk, pc, todo, stale, globalConfig, target, fetched, copied, mishaps>>
         /\ settled' = 0
         /\ Going => UNCHANGED <<file, globalFile>>
         /\ ~Going \/ \A s \in LocalSources : published'[s] = published[s]
<1>1. CASE EditConfig \/ NothingToInstall \/ InvalidFile
  BY <1>1 DEF EditConfig, NothingToInstall, InvalidFile, envVars, runVars, Going
<1>2. ASSUME NEW s \in Sources, Publish(s)
      PROVE  /\ UNCHANGED <<disk, pc, todo, stale, globalConfig, target, fetched, copied, mishaps,
                             file, globalFile>>
             /\ settled' = 0
             /\ ~Going \/ \A t \in LocalSources : published'[t] = published[t]
  <2>1. published \in [Sources -> Versions] /\ LocalSources \subseteq Sources
    BY EntriesAssumption DEF IInv, TypeOK, LocalSources
  <2> QED
    BY <1>2, <2>1 DEF Publish, runVars, Going
<1> QED
  BY <1>1, <1>2 DEF EnvStart

LEMMA EndFrame ==
  ASSUME RunEnds
  PROVE  /\ Exit /\ UNCHANGED <<file, published, disk, globalFile>>
         /\ Finish \/ settled' = 0
BY DEF RunEnds, Fail, Kill, RejectPackage, MergeConflict, Finish, Abort, envVars

LEMMA ChosenFrame ==
  ASSUME Chosen
  PROVE  /\ pc = "plugin" /\ todo # <<>> /\ pc' \in {"merging", "fetching"}
         /\ ~Disabled(Plugin)
         /\ stale' = stale \/ stale' = Pop(HashOf(Plugin))
         /\ UNCHANGED <<file, published, disk, globalFile, todo, globalConfig, target, fetched,
                        copied, settled, mishaps>>
BY DEF Chosen, SkipInstalled, CompareDigest, ForceDownload, Download, Decide, AtPlugin, envVars,
       history

LEMMA ReplacingFrame ==
  ASSUME Replacing
  PROVE  /\ AtWorkOn /\ AtWorkOn' /\ Going /\ pc \notin {"idle", "dumping", "sweeping", "removing"}
         /\ UNCHANGED <<file, published, globalFile, todo, globalConfig, settled>>
BY DEF Replacing, Fetch, Clear, Extract, FinishExtract, WriteDigest, OpenHashFile, WriteHash,
       AtWorkOn, Installing, Going, envVars, runVars, history

LEMMA EndingFrame ==
  ASSUME Ending
  PROVE  /\ pc \in {"plugin", "dumping", "sweeping", "removing"}
         /\ pc' \in {"dumping", "sweeping", "removing"}
         /\ pc = "plugin" => todo = <<>>
         /\ UNCHANGED <<file, published, todo, globalConfig, copied, settled>>
BY DEF Ending, OpenGlobalFile, WriteGlobalFile, Sweep, FinishSweep, envVars, runVars, history

LEMMA TodoInit == Init => TodoOK
BY DEF Init, TodoOK, Going, AtWorkOn, Installing

LEMMA TodoStep == IInv /\ TodoOK /\ [Next]_vars => TodoOK'
<1> SUFFICES ASSUME IInv, TodoOK, [Next]_vars
             PROVE  TodoOK'
  OBVIOUS
<1> USE DEF TodoOK, Going
<1>1. CASE EnvStart \/ UNCHANGED Vars
  BY <1>1, EnvFrame DEF Vars, AtWorkOn, Installing, Plugin
<1>2. CASE Begin
  <2>1. pc' = "plugin" /\ todo' = AllPlugins(file) /\ file' = file /\ file.kind = "plugins"
    BY <1>2 DEF Begin, envVars
  <2>2. Distinct(todo')
    BY <2>1, EntriesAssumption DEF IInv, TypeOK
  <2> QED
    BY <2>1, <2>2 DEF AtWorkOn, Installing
<1>3. CASE RunEnds
  BY <1>3, EndFrame DEF Exit, AtWorkOn, Installing
<1>4. CASE SkipDisabled \/ MergeFragment
  <2>1. /\ todo # <<>> /\ todo' = Tail(todo) /\ file' = file /\ pc' = "plugin"
        /\ pc \in {"plugin", "merging"}
    BY <1>4 DEF SkipDisabled, MergeFragment, AtPlugin, envVars, IInv, FetchOK
  <2>2. /\ ToSet(todo) = {Head(todo)} \cup ToSet(todo')
        /\ Distinct(todo')
    BY <2>1, HeadTail DEF IInv, TypeOK
  <2> QED
    BY <2>1, <2>2 DEF AtWorkOn, Installing
<1>5. CASE Chosen
  BY <1>5, ChosenFrame DEF AtWorkOn, Installing, Plugin
<1>6. CASE Replacing
  <2>1. pc' \notin {"idle", "dumping", "sweeping", "removing"}
    BY <1>6, ReplacingFrame DEF AtWorkOn, Installing
  <2> QED
    BY <1>6, <2>1, ReplacingFrame DEF Plugin
<1>7. CASE Ending
  BY <1>7, EndingFrame DEF AtWorkOn, Installing
<1> QED
  BY <1>1, <1>2, <1>3, <1>4, <1>5, <1>6, <1>7, NextCases

(* The loop of main() over allPlugins: what is still to be done is of the  *)
(* configuration the run began with, each package once.                    *)
THEOREM TodoAlways == Spec => [](IInv /\ TodoOK)
<1>1. Init => IInv /\ TodoOK
  BY InitIInv, TodoInit
<1>2. IInv /\ TodoOK /\ [Next]_vars => (IInv /\ TodoOK)'
  BY NextStep, TodoStep
<1> QED
  BY <1>1, <1>2, PTL DEF Spec

-----------------------------------------------------------------------------
(* The global configuration.                                               *)

LEMMA ConfigInit == Init => ConfigOK /\ GlobalFileCurrent
BY DEF Init, ConfigOK, GlobalFileCurrent, Going

LEMMA MergeConfig ==
  ASSUME IInv, TodoOK, ConfigOK, MergeFragment
  PROVE  ConfigOK'
<1> USE DEF MergeFragment, envVars, history, Going
<1>1. /\ todo # <<>> /\ todo' = Tail(todo) /\ file' = file /\ pc' = "plugin"
      /\ ~Disabled(Plugin) /\ file.kind = "plugins"
  BY DEF IInv, FetchOK, TodoOK, AtWorkOn
<1>2. ToSet(todo) = {Plugin} \cup ToSet(todo') /\ Plugin \in Enabled /\ Enabled' = Enabled
  BY <1>1, HeadTail, EnabledListed DEF IInv, TypeOK, TodoOK, Plugin, Enabled
<1>3. /\ DOMAIN globalConfig' = DOMAIN Fragment(Plugin) \cup DOMAIN globalConfig
      /\ \A k \in DOMAIN Fragment(Plugin) : globalConfig'[k] = Fragment(Plugin)[k]
      /\ \A k \in DOMAIN globalConfig : globalConfig'[k] = globalConfig[k]
  BY DEF Over, Compatible
<1>4. Handled' \subseteq Handled \cup {Plugin}
  BY <1>2 DEF Handled
<1>5. \A p \in Handled' : Merged(p, globalConfig')
  BY <1>3, <1>4 DEF ConfigOK, Merged
<1>6. DOMAIN globalConfig' \subseteq Keys(Enabled')
  BY <1>2, <1>3 DEF ConfigOK, Keys
<1> QED
  BY <1>1, <1>3, <1>5, <1>6 DEF ConfigOK

LEMMA ConfigStep ==
  ASSUME IInv, TodoOK, ConfigOK, [Next]_vars
  PROVE  ConfigOK'
<1> USE DEF Going
<1>1. CASE EnvStart \/ UNCHANGED Vars
  BY <1>1, EnvFrame DEF Vars, ConfigOK, Handled, Enabled
<1>2. CASE Begin
  <2>1. /\ pc' = "plugin" /\ todo' = AllPlugins(file) /\ file' = file /\ file.kind = "plugins"
        /\ globalConfig' = BaseConfig
    BY <1>2 DEF Begin, envVars
  <2>2. Handled' = {}
    BY <2>1, EnabledListed DEF Handled, Enabled
  <2> QED
    BY <2>1, <2>2 DEF ConfigOK, Keys
<1>3. CASE RunEnds
  BY <1>3, EndFrame DEF Exit, ConfigOK
<1>4. CASE SkipDisabled
  <2>1. /\ todo # <<>> /\ todo' = Tail(todo) /\ pc = "plugin" /\ Disabled(Plugin)
        /\ UNCHANGED <<file, pc, globalConfig>>
    BY <1>4 DEF SkipDisabled, AtPlugin, envVars
  <2>2. ToSet(todo) = {Plugin} \cup ToSet(todo') /\ Plugin \notin Enabled
    BY <2>1, HeadTail, EnabledListed DEF IInv, TypeOK, TodoOK, Plugin
  <2>3. Handled' = Handled /\ Enabled' = Enabled
    BY <2>1, <2>2 DEF Handled, Enabled
  <2> QED
    BY <2>1, <2>3 DEF ConfigOK
<1>5. CASE Chosen
  BY <1>5, ChosenFrame DEF ConfigOK, Handled, Enabled
<1>6. CASE Replacing
  <2>1. pc' \notin {"idle", "dumping", "sweeping", "removing"}
    BY <1>6, ReplacingFrame DEF AtWorkOn, Installing
  <2> QED
    BY <1>6, <2>1, ReplacingFrame DEF ConfigOK, Handled, Enabled
<1>7. CASE MergeFragment
  BY <1>7, MergeConfig
<1>8. CASE Ending
  <2>1. pc' \in {"sweeping", "removing"} => globalFile' = globalConfig'
    BY <1>8 DEF Ending, OpenGlobalFile, WriteGlobalFile, Sweep, FinishSweep, ConfigOK, envVars,
                runVars
  <2> QED
    BY <1>8, <2>1, EndingFrame DEF ConfigOK, Handled, Enabled
<1> QED
  BY <1>1, <1>2, <1>3, <1>4, <1>5, <1>6, <1>7, <1>8, NextCases

LEMMA CurrentStep ==
  ASSUME IInv, TodoOK, ConfigOK, GlobalFileCurrent, [Next]_vars
  PROVE  GlobalFileCurrent'
<1> USE DEF Going
<1>1. CASE Finish
  <2>1. /\ pc = "sweeping" /\ todo = <<>> /\ globalFile = globalConfig
        /\ UNCHANGED <<file, globalFile>>
    BY <1>1 DEF Finish, TodoOK, ConfigOK, envVars
  <2>2. Handled = Enabled
    BY <2>1 DEF Handled, ToSet
  <2>3. \A p \in Enabled : Merged(p, globalFile)
    BY <2>1, <2>2 DEF ConfigOK
  <2>4. DOMAIN globalFile = Keys(Enabled)
    BY <2>1, <2>3 DEF ConfigOK, Keys, Merged
  <2> QED
    BY <2>1, <2>3, <2>4 DEF GlobalFileCurrent, Merged, Keys, Enabled
<1>2. CASE settled' = 0
  BY <1>2 DEF GlobalFileCurrent
<1>3. CASE Ending
  <2>1. pc' = "dumping" \/ pc = "dumping" \/ UNCHANGED globalFile
    BY <1>3 DEF Ending, OpenGlobalFile, WriteGlobalFile, Sweep, FinishSweep
  <2>2. CASE pc' = "dumping"
    BY <2>2 DEF GlobalFileCurrent
  <2>3. CASE pc = "dumping" /\ pc' # "dumping"
    <3>1. globalFile' = globalConfig /\ todo = <<>>
      BY <1>3, <2>3 DEF Ending, OpenGlobalFile, WriteGlobalFile, Sweep, FinishSweep, TodoOK
    <3>2. Handled = Enabled /\ file' = file
      BY <1>3, <3>1, EndingFrame DEF Handled, ToSet
    <3>3. \A p \in Enabled : Merged(p, globalFile')
      BY <2>3, <3>1, <3>2 DEF ConfigOK
    <3>4. DOMAIN globalFile' = Keys(Enabled)
      BY <2>3, <3>1, <3>3 DEF ConfigOK, Keys, Merged
    <3> QED
      BY <3>2, <3>3, <3>4 DEF GlobalFileCurrent, Merged, Keys, Enabled
  <2>4. CASE pc # "dumping" /\ UNCHANGED globalFile
    BY <1>3, <2>4, EndingFrame DEF GlobalFileCurrent
  <2> QED
    BY <2>1, <2>2, <2>3, <2>4
<1>4. ASSUME Begin \/ SkipDisabled \/ Chosen \/ Replacing \/ MergeFragment \/ UNCHANGED Vars
      PROVE  GlobalFileCurrent'
  <2>1. UNCHANGED <<file, globalFile, settled>> /\ (pc = "dumping" => pc' = "dumping")
    <3>1. CASE Begin \/ SkipDisabled \/ MergeFragment \/ UNCHANGED Vars
      BY <3>1 DEF Begin, SkipDisabled, MergeFragment, AtPlugin, envVars, history, Vars
    <3>2. CASE Chosen \/ Replacing
      BY <3>2, ChosenFrame, ReplacingFrame
    <3> QED
      BY <1>4, <3>1, <3>2
  <2> QED
    BY <2>1 DEF GlobalFileCurrent
<1> QED
  BY <1>1, <1>2, <1>3, <1>4, EnvFrame, EndFrame, NextCases

(* maybeMergeConfig and the file it is dumped to: after a successful run   *)
(* the global configuration holds the fragments of the enabled plugins and *)
(* no others, until the configuration is edited, something is published or *)
(* a run does not succeed.                                                 *)
THEOREM GlobalFileAlways == Spec => []GlobalFileCurrent
<1> DEFINE Inv == ConfigOK /\ GlobalFileCurrent
<1>1. Init => Inv
  BY ConfigInit
<1>2. IInv /\ TodoOK /\ Inv /\ [Next]_vars => Inv'
  BY ConfigStep, CurrentStep
<1> QED
  BY <1>1, <1>2, TodoAlways, PTL DEF Spec

-----------------------------------------------------------------------------
(* What a step may do to a directory.                                      *)

Same(d) == d \in DOMAIN disk /\ disk'[d] = disk[d]

Blank(d) ==
  d = target' /\ disk'[d].hash \in {NoFile, Torn} /\ pc' \in {"extracting", "digesting", "hashing", "writing"}

Ruined(d) ==
  /\ d = target' /\ pc' \in {"clearing", "removing"}
  /\ d \in DOMAIN disk /\ disk'[d].hash \in {NoFile, disk[d].hash}

Marked(d) == WriteHash /\ d = target /\ disk'[d].hash = HashOf(Plugin)

LEMMA NotAHash == Torn \notin Hashes /\ NoFile \notin Hashes
<1>1. \A h \in Hashes : "package" \in DOMAIN h
  BY EntriesAssumption DEF Hashes, HashOf
<1>2. "package" \notin DOMAIN Torn /\ "package" \notin DOMAIN NoFile
  BY DEF Torn, NoFile
<1> QED
  BY <1>1, <1>2

LEMMA ReplacingDirs ==
  ASSUME IInv, Replacing
  PROVE  /\ \A d \in DOMAIN disk' : Same(d) \/ Blank(d) \/ Ruined(d) \/ Marked(d)
         /\ \A d \in DOMAIN disk : d \in DOMAIN disk' /\ (d = target' \/ disk'[d] = disk[d])
         /\ Fetch \/ (target' = target /\ target \in DOMAIN disk')
<1>1. CASE Fetch
  BY <1>1 DEF Fetch, Same, envVars, history
<1>2. CASE Clear
  <2>1. PICK r \in Ruins(disk[target]) : disk' = [disk EXCEPT ![target] = r]
    BY <1>2 DEF Clear
  <2> QED
    BY <1>2, <2>1 DEF Clear, Same, Ruined, Ruins, runVars
<1>3. CASE Extract
  BY <1>3 DEF Extract, Same, Blank, Put, runVars
<1>4. CASE FinishExtract \/ WriteDigest \/ OpenHashFile
  <2>1. target \in DOMAIN disk /\ target' = target /\ pc' \in {"digesting", "hashing", "writing"}
    BY <1>4 DEF FinishExtract, WriteDigest, OpenHashFile, runVars, IInv, TargetOK
  <2>2. disk[target] \in DirRecord
    BY <2>1 DEF IInv, TypeOK, DirRecord
  <2>3. disk'[target].hash \in {NoFile, Torn}
    BY <1>4, <2>1, <2>2 DEF FinishExtract, WriteDigest, OpenHashFile, IInv, TargetOK, DirRecord
  <2>4. DOMAIN disk' = DOMAIN disk /\ \A d \in DOMAIN disk : d # target => disk'[d] = disk[d]
    BY <1>4 DEF FinishExtract, WriteDigest, OpenHashFile
  <2> QED
    BY <2>1, <2>3, <2>4 DEF Same, Blank
<1>5. CASE WriteHash
  <2>1. target \in DOMAIN disk /\ target' = target
    BY <1>5 DEF WriteHash, runVars, IInv, TargetOK
  <2>2. disk[target] \in DirRecord
    BY <2>1 DEF IInv, TypeOK, DirRecord
  <2> QED
    BY <1>5, <2>1, <2>2 DEF WriteHash, Same, Marked, DirRecord
<1> QED
  BY <1>1, <1>2, <1>3, <1>4, <1>5 DEF Replacing

LEMMA EndingDirs ==
  ASSUME IInv, Ending
  PROVE  /\ \A d \in DOMAIN disk' : Same(d) \/ Ruined(d)
         /\ \A d \in DOMAIN disk : d \in DOMAIN disk' \/ (FinishSweep /\ d = target)
         /\ \A d \in DOMAIN disk' : disk'[d] = disk[d] \/ d = target'
<1>1. CASE OpenGlobalFile \/ WriteGlobalFile
  BY <1>1 DEF OpenGlobalFile, WriteGlobalFile, Same
<1>2. ASSUME NEW h \in DOMAIN stale, Sweep(h)
      PROVE  /\ \A d \in DOMAIN disk' : Same(d) \/ Ruined(d)
             /\ \A d \in DOMAIN disk : d \in DOMAIN disk' \/ (FinishSweep /\ d = target)
             /\ \A d \in DOMAIN disk' : disk'[d] = disk[d] \/ d = target'
  <2>1. PICK r \in Ruins(disk[stale[h]]) : disk' = [disk EXCEPT ![stale[h]] = r]
    BY <1>2 DEF Sweep
  <2>2. stale[h] \in DOMAIN disk
    BY DEF IInv, TypeOK, StaleOK
  <2> QED
    BY <1>2, <2>1, <2>2 DEF Sweep, Same, Ruined, Ruins
<1>3. CASE FinishSweep
  BY <1>3 DEF FinishSweep, Same
<1> QED
  BY <1>1, <1>2, <1>3 DEF Ending

(* Outside of these two groups of steps the directories stay as they are.  *)
LEMMA OtherDirs ==
  ASSUME [Next]_vars
  PROVE  Replacing \/ Ending \/ disk' = disk
<1>1. RunEnds => disk' = disk
  BY EndFrame
<1>2. EnvStart => disk' = disk
  BY DEF EnvStart, EditConfig, Publish, NothingToInstall, InvalidFile
<1>3. Begin \/ SkipDisabled \/ MergeFragment \/ UNCHANGED Vars => disk' = disk
  BY DEF Begin, SkipDisabled, MergeFragment, Vars
<1> QED
  BY <1>1, <1>2, <1>3, ChosenFrame, NextCases

-----------------------------------------------------------------------------
(* Where the directories are.                                              *)

LEMMA StaleShrinks ==
  ASSUME [Next]_vars
  PROVE  Begin \/ (DOMAIN stale' \subseteq DOMAIN stale /\ \A h \in DOMAIN stale' : stale'[h] = stale[h])
<1>1. CASE EnvStart \/ UNCHANGED Vars
  BY <1>1 DEF EnvStart, EditConfig, Publish, NothingToInstall, InvalidFile, Vars, runVars
<1>2. CASE RunEnds
  BY <1>2, EndFrame DEF Exit
<1>3. CASE SkipDisabled \/ MergeFragment \/ OpenGlobalFile \/ WriteGlobalFile \/ FinishSweep
  BY <1>3 DEF SkipDisabled, MergeFragment, OpenGlobalFile, WriteGlobalFile, FinishSweep, runVars
<1>4. CASE Chosen
  BY <1>4, ChosenFrame DEF Pop
<1>5. CASE Replacing
  BY <1>5 DEF Replacing, Fetch, Clear, Extract, FinishExtract, WriteDigest, OpenHashFile,
              WriteHash, runVars
<1>6. ASSUME NEW h \in DOMAIN stale, Sweep(h)
      PROVE  DOMAIN stale' \subseteq DOMAIN stale /\ \A k \in DOMAIN stale' : stale'[k] = stale[k]
  BY <1>6 DEF Sweep, Pop
<1> QED
  BY <1>1, <1>2, <1>3, <1>4, <1>5, <1>6, NextCases DEF Ending

LEMMA ScanOK ==
  ASSUME Begin
  PROVE  \A h \in DOMAIN stale' : stale'[h] \in DOMAIN disk /\ disk[stale'[h]].hash = h
BY DEF Begin, Scan

LEMMA MarkedPlace ==
  ASSUME IInv, TodoOK, PlaceOK, WriteHash
  PROVE  target \in Places(HashOf(Plugin)) /\ HashOf(Plugin) \in Hashes
<1>1. Plugin \in Entries /\ fetched \in Versions
  BY AtWork DEF WriteHash
<1>2. HashOf(Plugin)["package"] = Plugin["package"]
  BY <1>1, EntriesAssumption DEF HashOf
<1>3. IsOci(HashOf(Plugin)) \/ IsLocal(HashOf(Plugin)) \/ HashOf(Plugin)["integrity"] = fetched
  BY <1>1, HashFields DEF WriteHash, IInv, FetchOK, Installing
<1>4. target = DirOf[<<Plugin["package"], fetched>>]
  BY DEF WriteHash, PlaceOK, Installing
<1> QED
  BY <1>1, <1>2, <1>3, <1>4, HashFields DEF Places

LEMMA PlaceInit == Init => PlaceOK
BY DEF Init, PlaceOK, Installing

(* The entries that are done with, or at hand, are not swept.              *)
LEMMA UnhashedStep ==
  ASSUME IInv, TodoOK, PlaceOK, [Next]_vars
  PROVE  /\ \A p \in Handled' : HashOf(p) \notin DOMAIN stale'
         /\ AtWorkOn' => HashOf(Plugin') \notin DOMAIN stale'
<1> USE DEF Going, AtWorkOn
<1>0. /\ \A p \in Handled : HashOf(p) \notin DOMAIN stale
      /\ AtWorkOn => HashOf(Plugin) \notin DOMAIN stale
  BY DEF PlaceOK
<1>1. CASE EnvStart
  <2>1. UNCHANGED <<pc, todo, stale>> /\ (file' = file \/ stale = <<>>)
    BY <1>1, EnvFrame DEF TodoOK
  <2> QED
    BY <1>0, <2>1 DEF Handled, Enabled, Installing, Plugin
<1>2. CASE Begin
  <2>1. Handled' = {} /\ ~AtWorkOn'
    <3>1. pc' = "plugin" /\ todo' = AllPlugins(file) /\ file' = file
      BY <1>2 DEF Begin, envVars
    <3> QED
      BY <3>1, EnabledListed DEF Handled, Enabled, Installing
  <2> QED
    BY <2>1
<1>3. CASE RunEnds
  BY <1>3, EndFrame DEF Exit, Installing
<1>4. CASE SkipDisabled \/ MergeFragment
  <2>1. /\ todo # <<>> /\ todo' = Tail(todo) /\ UNCHANGED <<file, stale>> /\ pc' = "plugin"
        /\ Disabled(Plugin) \/ pc = "merging"
    BY <1>4 DEF SkipDisabled, MergeFragment, AtPlugin, envVars, IInv, FetchOK
  <2>2. ToSet(todo) = {Plugin} \cup ToSet(todo')
    BY <1>4, <2>1, HeadTail DEF IInv, TypeOK, TodoOK, Plugin, SkipDisabled, MergeFragment, AtPlugin
  <2>3. Handled' \subseteq Handled \cup {Plugin} /\ (Disabled(Plugin) => Plugin \notin Handled')
    BY <2>1, <2>2, EnabledListed DEF Handled, Enabled
  <2> QED
    BY <1>0, <2>1, <2>3 DEF Installing
<1>5. CASE Chosen
  <2>1. HashOf(Plugin) \notin DOMAIN stale'
    BY <1>5 DEF Chosen, SkipInstalled, CompareDigest, ForceDownload, Download, Known, Pop
  <2>2. UNCHANGED <<file, todo>> /\ DOMAIN stale' \subseteq DOMAIN stale
    BY <1>5, ChosenFrame DEF Pop
  <2> QED
    BY <1>0, <2>1, <2>2 DEF Handled, Enabled, Plugin
<1>6. CASE Replacing
  <2>1. UNCHANGED <<file, todo>> /\ AtWorkOn
    BY <1>6, ReplacingFrame
  <2>2. DOMAIN stale' \subseteq DOMAIN stale
    BY <1>6 DEF Replacing, Fetch, Clear, Extract, FinishExtract, WriteDigest, OpenHashFile,
                WriteHash, runVars
  <2> QED
    BY <1>0, <2>1, <2>2 DEF Handled, Enabled, Plugin
<1>7. CASE Ending
  <2>1. UNCHANGED <<file, todo>> /\ ~AtWorkOn'
    BY <1>7, EndingFrame DEF Installing
  <2>2. DOMAIN stale' \subseteq DOMAIN stale
    BY <1>7 DEF Ending, OpenGlobalFile, WriteGlobalFile, Sweep, FinishSweep, Pop, runVars
  <2> QED
    BY <1>0, <2>1, <2>2 DEF Handled, Enabled
<1>8. CASE UNCHANGED Vars
  BY <1>0, <1>8 DEF Vars, Handled, Enabled, Installing, Plugin
<1> QED
  BY <1>1, <1>2, <1>3, <1>4, <1>5, <1>6, <1>7, <1>8, NextCases

LEMMA PlaceStep ==
  ASSUME IInv, TodoOK, PlaceOK, [Next]_vars
  PROVE  PlaceOK'
<1>1. \A d \in DOMAIN disk' : disk'[d].hash \in Hashes => d \in Places(disk'[d].hash)
  <2>1. CASE Replacing \/ Ending
    <3>1. \A d \in DOMAIN disk' : Same(d) \/ Blank(d) \/ Ruined(d) \/ Marked(d)
      BY <2>1, ReplacingDirs, EndingDirs
    <3> QED
      BY <3>1, MarkedPlace, NotAHash DEF PlaceOK, Same, Blank, Ruined, Marked
  <2>2. CASE disk' = disk
    BY <2>2 DEF PlaceOK
  <2> QED
    BY <2>1, <2>2, OtherDirs
<1>2. \A h \in DOMAIN stale' : h \in Hashes => stale'[h] \in Places(h)
  <2>1. CASE Begin
    BY <2>1, ScanOK DEF PlaceOK
  <2>2. CASE ~Begin
    BY <2>2, StaleShrinks DEF PlaceOK
  <2> QED
    BY <2>1, <2>2
<1>3. Installing' => target' = DirOf[<<Plugin'["package"], fetched'>>]
  <2>1. CASE Replacing
    <3>1. Plugin' = Plugin
      BY <2>1, ReplacingFrame DEF Plugin
    <3>2. CASE Fetch
      BY <3>1, <3>2 DEF Fetch
    <3>3. CASE ~Fetch
      <4>1. Installing /\ UNCHANGED <<target, fetched>>
        BY <2>1, <3>3 DEF Replacing, Clear, Extract, FinishExtract, WriteDigest, OpenHashFile,
                          WriteHash, Installing, runVars
      <4> QED
        BY <3>1, <4>1 DEF PlaceOK
    <3> QED
      BY <3>2, <3>3
  <2>2. CASE EnvStart \/ UNCHANGED Vars
    BY <2>2, EnvFrame DEF Vars, PlaceOK, Installing, Plugin
  <2>3. CASE Begin \/ RunEnds \/ SkipDisabled \/ Chosen \/ MergeFragment \/ Ending
    <3>1. ~Installing'
      BY <2>3, EndFrame, ChosenFrame, EndingFrame
         DEF Begin, SkipDisabled, MergeFragment, AtPlugin, Installing, Exit
    <3> QED
      BY <3>1
  <2> QED
    BY <2>1, <2>2, <2>3, NextCases
<1> QED
  BY <1>1, <1>2, <1>3, UnhashedStep DEF PlaceOK, AtWorkOn

-----------------------------------------------------------------------------
(* Without aborted runs.                                                   *)

LEMMA UnabortedKept ==
  ASSUME [Next]_vars, Unaborted'
  PROVE  Unaborted /\ (RunEnds => Finish)
<1>1. mishaps \subseteq mishaps'
  <2>1. EnvStart \/ Begin \/ SkipDisabled \/ MergeFragment \/ Ending \/ UNCHANGED Vars
          => UNCHANGED mishaps
    BY DEF EnvStart, EditConfig, Publish, NothingToInstall, InvalidFile, Begin, SkipDisabled,
           MergeFragment, Ending, OpenGlobalFile, WriteGlobalFile, Sweep, FinishSweep, Vars, history
  <2>2. RunEnds => mishaps \subseteq mishaps'
    BY DEF RunEnds, Fail, Kill, RejectPackage, MergeConflict, Finish, Abort
  <2>3. Replacing => mishaps \subseteq mishaps'
    BY DEF Replacing, Fetch, Clear, Extract, FinishExtract, WriteDigest, OpenHashFile, WriteHash,
           history
  <2> QED
    BY <2>1, <2>2, <2>3, ChosenFrame, NextCases
<1>2. RunEnds => Finish \/ "aborted" \in mishaps'
  BY DEF RunEnds, Fail, Kill, RejectPackage, MergeConflict, Abort
<1> QED
  BY <1>1, <1>2 DEF Unaborted

LEMMA CleanInit == Init => CleanOK
BY DEF Init, CleanOK, AllHashed, OneOfAHash, Going, Installing

LEMMA AllHashedStep ==
  ASSUME IInv, AllHashed, [Next]_vars, RunEnds => Finish
  PROVE  AllHashed'
<1> DEFINE Torso == {"clearing", "extracting", "digesting", "hashing", "writing", "removing"}
<1>1. CASE Replacing
  <2>1. ASSUME NEW d \in DOMAIN disk', Same(d)
        PROVE  disk'[d].hash \in Hashes \/ (d = target' /\ pc' \in Torso)
    <3>1. CASE disk[d].hash \in Hashes
      BY <2>1, <3>1 DEF Same
    <3>2. CASE d = target /\ pc \in Torso
      <4>1. ~Fetch /\ target' = target
        BY <1>1, <3>2, ReplacingDirs DEF Fetch
      <4>2. CASE WriteHash
        <5>1. disk'[target].hash = HashOf(Plugin) /\ Plugin \in Entries
          BY <2>1, <3>2, <4>2, AtWork DEF WriteHash, Same, IInv, TypeOK, DirRecord
        <5> QED
          BY <3>2, <5>1, HashFields
      <4>3. CASE ~WriteHash
        BY <1>1, <3>2, <4>1, <4>3
           DEF Replacing, Clear, Extract, FinishExtract, WriteDigest, OpenHashFile
      <4> QED
        BY <4>2, <4>3
    <3> QED
      BY <2>1, <3>1, <3>2 DEF AllHashed, Same
  <2>2. ASSUME NEW d \in DOMAIN disk', Blank(d) \/ Ruined(d)
        PROVE  d = target' /\ pc' \in Torso
    BY <2>2 DEF Blank, Ruined
  <2>3. ASSUME NEW d \in DOMAIN disk', Marked(d)
        PROVE  disk'[d].hash \in Hashes
    BY <2>3, AtWork, HashFields DEF Marked, WriteHash
  <2> QED
    BY <1>1, <2>1, <2>2, <2>3, ReplacingDirs DEF AllHashed
<1>2. CASE Ending
  <2>1. ASSUME NEW d \in DOMAIN disk', Same(d)
        PROVE  disk'[d].hash \in Hashes \/ (d = target' /\ pc' \in Torso)
    <3>1. CASE disk[d].hash \in Hashes
      BY <2>1, <3>1 DEF Same
    <3>2. CASE d = target /\ pc \in Torso
      <4>1. FinishSweep
        BY <1>2, <3>2 DEF Ending, OpenGlobalFile, WriteGlobalFile, Sweep
      <4> QED
        BY <3>2, <4>1 DEF FinishSweep
    <3> QED
      BY <2>1, <3>1, <3>2 DEF AllHashed, Same
  <2>2. ASSUME NEW d \in DOMAIN disk', Ruined(d)
        PROVE  d = target' /\ pc' \in Torso
    BY <2>2 DEF Ruined
  <2> QED
    BY <1>2, <2>1, <2>2, EndingDirs DEF AllHashed
<1>3. CASE EnvStart \/ UNCHANGED Vars
  BY <1>3, EnvFrame DEF Vars, AllHashed
<1>4. CASE Begin \/ RunEnds \/ SkipDisabled \/ Chosen \/ MergeFragment
  <2>1. pc \notin Torso /\ disk' = disk
    <3>1. CASE Begin \/ SkipDisabled \/ MergeFragment
      BY <3>1 DEF Begin, SkipDisabled, MergeFragment, AtPlugin
    <3>2. CASE RunEnds
      BY <3>2, EndFrame DEF Finish
    <3> QED
      BY <1>4, <3>1, <3>2, ChosenFrame
  <2> QED
    BY <2>1 DEF AllHashed
<1> QED
  BY <1>1, <1>2, <1>3, <1>4, NextCases

(* Of an image and of a package with an integrity hash there is one        *)
(* directory at most.                                                      *)
LEMMA OnePlace ==
  ASSUME NEW h \in Hashes, IsOci(h) \/ ~IsLocal(h), NEW d \in Places(h), NEW e \in Places(h)
  PROVE  d = e
<1>1. PICK p \in Entries : h = HashOf(p)
  BY DEF Hashes
<1>2. h["package"] = p["package"] /\ (IsOci(h) <=> IsOci(p))
  BY <1>1, EntriesAssumption, HashFields DEF HashOf
<1>3. CASE IsOci(h)
  BY <1>2, <1>3, PlacesAssumption DEF Places
<1>4. CASE ~IsOci(h)
  BY <1>4 DEF Places
<1> QED
  BY <1>3, <1>4

LEMMA Alone ==
  ASSUME IInv, PlaceOK, CleanOK, WriteHash, ~Repacked(HashOf(Plugin)),
         NEW d \in DOMAIN disk, disk[d].hash = HashOf(Plugin), TodoOK
  PROVE  d = target
<1>1. Plugin \in Entries /\ (IsLocal(HashOf(Plugin)) <=> IsLocal(Plugin))
  BY AtWork, HashFields DEF WriteHash
<1>2. CASE IsLocal(Plugin)
  BY <1>2 DEF CleanOK, WriteHash, Installing
<1>3. CASE ~IsLocal(Plugin)
  BY <1>1, <1>3, OnePlace, MarkedPlace DEF PlaceOK
<1> QED
  BY <1>2, <1>3

LEMMA OneOfAHashStep ==
  ASSUME IInv, TodoOK, PlaceOK, CleanOK, [Next]_vars
  PROVE  OneOfAHash'
<1> SUFFICES ASSUME NEW d \in DOMAIN disk', NEW e \in DOMAIN disk',
                    disk'[d].hash = disk'[e].hash, disk'[d].hash \in Hashes, d # e
             PROVE  Repacked(disk'[d].hash)
  BY DEF OneOfAHash
<1> DEFINE Kept(x) == x \in DOMAIN disk /\ disk[x].hash = disk'[x].hash
<1>1. ASSUME NEW x \in {d, e}
      PROVE  Kept(x) \/ Marked(x)
  <2>1. CASE Replacing \/ Ending
    <3>1. Same(x) \/ Blank(x) \/ Ruined(x) \/ Marked(x)
      BY <2>1, ReplacingDirs, EndingDirs
    <3> QED
      BY <3>1, NotAHash DEF Same, Blank, Ruined
  <2>2. CASE disk' = disk
    BY <2>2
  <2> QED
    BY <2>1, <2>2, OtherDirs
<1>2. CASE Kept(d) /\ Kept(e)
  BY <1>2 DEF CleanOK, OneOfAHash
<1>3. CASE Marked(d) /\ Kept(e)
  BY <1>3, Alone DEF Marked
<1>4. CASE Kept(d) /\ Marked(e)
  BY <1>4, Alone DEF Marked
<1>5. ~(Marked(d) /\ Marked(e))
  BY DEF Marked
<1> QED
  BY <1>1, <1>2, <1>3, <1>4, <1>5

LEMMA KeptOrMarked ==
  ASSUME IInv, [Next]_vars, NEW d \in DOMAIN disk', disk'[d].hash \in Hashes
  PROVE  (d \in DOMAIN disk /\ disk[d].hash = disk'[d].hash) \/ Marked(d)
<1>1. CASE Replacing \/ Ending
  <2>1. Same(d) \/ Blank(d) \/ Ruined(d) \/ Marked(d)
    BY <1>1, ReplacingDirs, EndingDirs
  <2> QED
    BY <2>1, NotAHash DEF Same, Blank, Ruined
<1>2. CASE disk' = disk
  BY <1>2
<1> QED
  BY <1>1, <1>2, OtherDirs

LEMMA ScanAll ==
  ASSUME Begin, NEW d \in DOMAIN disk, disk[d].hash # NoFile
  PROVE  disk[d].hash \in DOMAIN stale'
BY DEF Begin, Scan

(* The entry at hand is one of the enabled ones.                           *)
LEMMA PluginEnabled ==
  ASSUME IInv, TodoOK, AtWorkOn \/ (pc = "plugin" /\ todo # <<>> /\ ~Disabled(Plugin))
  PROVE  /\ Plugin \in Enabled /\ Plugin \in ToSet(AllPlugins(file)) /\ Plugin \in Entries
         /\ file.kind = "plugins" /\ todo # <<>>
<1>1. todo # <<>> /\ Going /\ ~Disabled(Plugin)
  BY DEF AtWorkOn, Installing, IInv, FetchOK, TodoOK, Going
<1>2. Plugin \in ToSet(AllPlugins(file)) /\ file.kind = "plugins"
  BY <1>1, HeadTail DEF IInv, TypeOK, TodoOK, Plugin
<1> QED
  BY <1>1, <1>2, EnabledListed, EntryAtHand DEF IInv

LEMMA RemovingStep ==
  ASSUME IInv, [Next]_vars, pc = "removing", pc' # "idle"
  PROVE  FinishSweep \/ (pc' = pc /\ target' = target)
<1>1. ~Begin /\ ~SkipDisabled /\ ~Chosen /\ ~MergeFragment /\ ~Replacing
  BY ChosenFrame, ReplacingFrame DEF Begin, SkipDisabled, AtPlugin, MergeFragment
<1>2. RunEnds => pc' = "idle"
  BY EndFrame DEF Exit
<1>3. Ending => FinishSweep
  BY DEF Ending, OpenGlobalFile, WriteGlobalFile, Sweep
<1> QED
  BY <1>1, <1>2, <1>3, EnvFrame, NextCases DEF Vars

LEMMA AccountedStep ==
  ASSUME IInv, TodoOK, PlaceOK, CleanOK, [Next]_vars, Going', NEW d \in DOMAIN disk'
  PROVE  Accounted(d)'
<1> DEFINE h == disk'[d].hash
<1> SUFFICES ASSUME h \in Hashes, ~Repacked(h)
             PROVE  \/ h \in DOMAIN stale' /\ stale'[h] = d
                    \/ h \notin DOMAIN stale' /\ (OfEnabled(d)' \/ (pc' = "removing" /\ d = target'))
  BY DEF Accounted
<1>1. CASE Begin
  <2>1. disk' = disk
    BY <1>1 DEF Begin
  <2>2. h \in DOMAIN stale' /\ stale'[h] \in DOMAIN disk /\ disk[stale'[h]].hash = h
    BY <1>1, <2>1, ScanOK, ScanAll, NotAHash
  <2> QED
    BY <2>1, <2>2 DEF CleanOK, OneOfAHash
<1>2. CASE ~Begin /\ Marked(d)
  <2>1. /\ WriteHash /\ d = target /\ h = HashOf(Plugin) /\ stale' = stale /\ file' = file
    BY <1>2 DEF Marked, WriteHash, envVars, runVars
  <2>2. h \notin DOMAIN stale' /\ Plugin \in Enabled
    BY <2>1, PluginEnabled DEF PlaceOK, WriteHash, AtWorkOn, Installing
  <2> QED
    BY <2>1, <2>2 DEF OfEnabled, Enabled
<1>3. CASE ~Begin /\ ~Marked(d)
  <2>1. d \in DOMAIN disk /\ disk[d].hash = h
    BY <1>3, KeptOrMarked
  <2>2. Going
    BY <1>3, EnvFrame, EndFrame, ChosenFrame, ReplacingFrame, EndingFrame, NextCases
       DEF Going, Exit, SkipDisabled, MergeFragment, AtPlugin, Vars
  <2>3. UNCHANGED file
    BY <1>3, <2>2, EnvFrame, EndFrame, ChosenFrame, ReplacingFrame, EndingFrame, NextCases
       DEF SkipDisabled, MergeFragment, Vars, envVars
  <2>4. Accounted(d)
    BY <2>1, <2>2 DEF CleanOK
  <2>5. /\ DOMAIN stale' \subseteq DOMAIN stale
        /\ \A k \in DOMAIN stale' : stale'[k] = stale[k]
    BY <1>3, StaleShrinks
  <2>6. CASE h \in DOMAIN stale /\ h \notin DOMAIN stale' /\ stale[h] = d
    <3>1. CASE Chosen
      <4>1. h = HashOf(Plugin) /\ Plugin \in Enabled
        BY <2>6, <3>1, ChosenFrame, PluginEnabled DEF Pop
      <4> QED
        BY <2>3, <2>6, <4>1 DEF OfEnabled, Enabled
    <3>2. CASE Replacing
      <4>1. WriteDigest /\ d = target
        BY <2>6, <3>2 DEF Replacing, Fetch, Clear, Extract, FinishExtract, WriteDigest,
                          OpenHashFile, WriteHash, runVars
      <4>2. disk[target].hash = NoFile
        BY <4>1 DEF WriteDigest, IInv, TargetOK
      <4> QED
        BY <2>1, <4>1, <4>2, NotAHash
    <3>3. CASE Ending
      <4>1. PICK k \in DOMAIN stale : Sweep(k)
        BY <2>6, <3>3 DEF Ending, OpenGlobalFile, WriteGlobalFile, FinishSweep, runVars
      <4>2. k = h /\ target' = d /\ pc' = "removing"
        BY <2>6, <4>1 DEF Sweep, Pop
      <4> QED
        BY <2>6, <4>2
    <3>4. EnvStart \/ SkipDisabled \/ MergeFragment \/ UNCHANGED Vars => stale' = stale
      BY EnvFrame DEF SkipDisabled, MergeFragment, Vars
    <3>5. RunEnds => ~Going'
      BY EndFrame DEF Exit, Going
    <3> QED
      BY <1>3, <2>6, <3>1, <3>2, <3>3, <3>4, <3>5, NextCases
  <2>7. CASE h \notin DOMAIN stale /\ OfEnabled(d)
    BY <2>1, <2>3, <2>5, <2>7 DEF OfEnabled, Enabled
  <2>8. CASE h \notin DOMAIN stale /\ pc = "removing" /\ d = target
    <3>1. ~FinishSweep
      BY <2>8 DEF FinishSweep
    <3> QED
      BY <2>5, <2>8, <3>1, RemovingStep DEF Going
  <2> QED
    BY <2>1, <2>4, <2>5, <2>6, <2>7, <2>8 DEF Accounted
<1> QED
  BY <1>1, <1>2, <1>3

LEMMA RepackedEntry ==
  ASSUME NEW p \in Entries
  PROVE  Repacked(HashOf(p)) <=> IsLocal(p) /\ Forced(p)
<1>1. /\ \A f : f # "pluginConfig" => (f \in DOMAIN HashOf(p) <=> f \in DOMAIN p)
      /\ \A f \in DOMAIN HashOf(p) : HashOf(p)[f] = p[f]
      /\ HashOf(p)["package"] = p["package"]
  BY EntriesAssumption DEF HashOf
<1>2. \A default : /\ Field(HashOf(p), "pullPolicy", default) = Field(p, "pullPolicy", default)
                   /\ Field(HashOf(p), "forceDownload", default) = Field(p, "forceDownload", default)
  BY <1>1 DEF Field
<1>3. PullPolicy(HashOf(p)) = PullPolicy(p)
  BY <1>1, <1>2 DEF PullPolicy, IsOci
<1> QED
  BY <1>1, <1>2, <1>3 DEF Repacked, Forced, IsOci, IsLocal

(* No entry begins to wait during a run, and those that wait have hashes   *)
(* other than that of the entry at hand.                                   *)
LEMMA WaitingShrinks ==
  ASSUME IInv, TodoOK, [Next]_vars, ~Begin, Going'
  PROVE  /\ Going /\ file' = file /\ Waiting' \subseteq Waiting
         /\ \A p \in Waiting : p \in ToSet(AllPlugins(file)) /\ p \in Entries
         /\ AtWorkOn \/ Chosen => \A p \in Waiting' : HashOf(p) # HashOf(Plugin)
<1> USE DEF Going
<1>1. Going
  BY EnvFrame, EndFrame, ChosenFrame, ReplacingFrame, EndingFrame, NextCases
     DEF Exit, SkipDisabled, MergeFragment, AtPlugin, Vars
<1>2. UNCHANGED file
  BY <1>1, EnvFrame, EndFrame, ChosenFrame, ReplacingFrame, EndingFrame, NextCases
     DEF SkipDisabled, MergeFragment, Vars, envVars
<1>3. /\ ToSet(todo) \subseteq ToSet(AllPlugins(file)) /\ file.kind = "plugins" /\ Distinct(todo)
      /\ todo \in Seq(Entries) /\ (AtWorkOn => todo # <<>>)
  BY <1>1 DEF TodoOK, IInv, TypeOK, FetchOK, AtWorkOn
<1>4. todo # <<>> => /\ ToSet(todo) = {Plugin} \cup ToSet(Tail(todo))
                     /\ Plugin \notin ToSet(Tail(todo))
  BY <1>3, HeadTail DEF Plugin
<1>5. \A p \in Waiting : p \in ToSet(AllPlugins(file)) /\ p \in Entries
  BY <1>3, <1>4, KeyOK DEF Waiting, IInv
<1>6. Waiting' \subseteq Waiting /\ (AtWorkOn \/ Chosen => Plugin \notin Waiting')
  <2>1. CASE EnvStart \/ UNCHANGED Vars
    BY <1>3, <1>4, <2>1, EnvFrame DEF Vars, Waiting, AtWorkOn, Installing, Chosen, SkipInstalled,
       CompareDigest, ForceDownload, Download, AtPlugin, Decide, Plugin
  <2>2. CASE SkipDisabled \/ MergeFragment
    <3>1. todo # <<>> /\ todo' = Tail(todo) /\ pc' = "plugin"
      BY <1>3, <2>2 DEF SkipDisabled, MergeFragment, AtPlugin, AtWorkOn
    <3>2. Waiting' = ToSet(Tail(todo))
      BY <3>1 DEF Waiting, AtWorkOn, Installing
    <3> QED
      BY <1>4, <3>1, <3>2 DEF Waiting
  <2>3. CASE Chosen
    BY <1>4, <2>3, ChosenFrame DEF Waiting, AtWorkOn, Installing
  <2>4. CASE Replacing
    BY <1>3, <1>4, <2>4, ReplacingFrame DEF Waiting
  <2>5. CASE Ending
    <3>1. Waiting' = ToSet(todo) /\ ~AtWorkOn /\ ~Chosen
      BY <2>5, EndingFrame, ChosenFrame DEF Waiting, AtWorkOn, Installing
    <3> QED
      BY <3>1 DEF Waiting
  <2>6. ~RunEnds
    BY EndFrame DEF Exit
  <2> QED
    BY <2>1, <2>2, <2>3, <2>4, <2>5, <2>6, NextCases
<1>7. AtWorkOn \/ Chosen => Plugin \in ToSet(AllPlugins(file))
  BY <1>3, <1>4, ChosenFrame
<1>8. \A p, q \in ToSet(AllPlugins(file)) : HashOf(p) = HashOf(q) => p = q
  BY <1>3, KeyOK DEF IInv
<1> QED
  BY <1>1, <1>2, <1>5, <1>6, <1>7, <1>8

LEMMA WaitingStep ==
  ASSUME IInv, TodoOK, PlaceOK, CleanOK, [Next]_vars, Going', NEW p \in Waiting'
  PROVE  HashOf(p) \in DOMAIN stale' \/ Repacked(HashOf(p)) \/ Unknown(p)'
<1> DEFINE h == HashOf(p)
<1>1. CASE Begin
  <2>1. /\ pc' = "plugin" /\ todo' = AllPlugins(file) /\ disk' = disk /\ file.kind = "plugins"
    BY <1>1 DEF Begin
  <2>2. p \in ToSet(AllPlugins(file))
    BY <2>1 DEF Waiting, AtWorkOn, Installing
  <2>3. h \in Hashes
    BY <2>1, <2>2, KeyOK, HashFields DEF IInv
  <2> QED
    BY <1>1, <2>1, <2>3, ScanAll, NotAHash DEF Unknown
<1>2. CASE ~Begin
  <2>1. /\ p \in Waiting /\ p \in Entries /\ Going
        /\ AtWorkOn \/ Chosen => h # HashOf(Plugin)
    BY <1>2, WaitingShrinks
  <2>2. h \in Hashes
    BY <2>1, HashFields
  <2>3. CASE Unknown(p)
    <3>1. ASSUME NEW d \in DOMAIN disk', disk'[d].hash = h
          PROVE  FALSE
      <4>1. ~Marked(d)
        BY <2>1, <3>1 DEF Marked, WriteHash, AtWorkOn, Installing
      <4> QED
        BY <2>2, <2>3, <3>1, <4>1, KeptOrMarked DEF Unknown
    <3> QED
      BY <3>1 DEF Unknown
  <2>4. CASE h \in DOMAIN stale /\ h \notin DOMAIN stale' /\ ~Repacked(h)
    <3>1. WriteDigest /\ stale[h] = target
      <4>1. CASE Chosen
        BY <2>1, <2>4, <4>1, ChosenFrame DEF Pop
      <4>2. CASE Replacing
        BY <2>4, <4>2 DEF Replacing, Fetch, Clear, Extract, FinishExtract, WriteDigest,
                          OpenHashFile, WriteHash, runVars
      <4>3. CASE Ending
        <5>1. Waiting' = ToSet(todo) /\ todo = <<>>
          BY <4>3, EndingFrame DEF Waiting, AtWorkOn, Installing, TodoOK
        <5> QED
          BY <5>1 DEF ToSet
      <4>4. EnvStart \/ SkipDisabled \/ MergeFragment \/ UNCHANGED Vars => stale' = stale
        BY EnvFrame DEF SkipDisabled, MergeFragment, Vars
      <4>5. RunEnds => ~Going'
        BY EndFrame DEF Exit, Going
      <4> QED
        BY <1>2, <2>4, <4>1, <4>2, <4>3, <4>4, <4>5, NextCases
    <3>2. disk[target].hash = NoFile
      BY <3>1 DEF WriteDigest, IInv, TargetOK
    <3>3. ASSUME NEW d \in DOMAIN disk, disk[d].hash = h
          PROVE  FALSE
      BY <2>1, <2>2, <2>4, <3>1, <3>2, <3>3, NotAHash DEF CleanOK, Accounted
    <3>4. ASSUME NEW d \in DOMAIN disk', disk'[d].hash = h
          PROVE  FALSE
      <4>1. ~Marked(d)
        BY <3>1 DEF Marked, WriteHash, WriteDigest
      <4> QED
        BY <2>2, <3>3, <3>4, <4>1, KeptOrMarked
    <3> QED
      BY <3>4 DEF Unknown
  <2> QED
    BY <2>1, <2>3, <2>4 DEF CleanOK
<1> QED
  BY <1>1, <1>2

(* A local package that is not packed on every run has no directory yet    *)
(* when it is.                                                             *)
LEMMA LocalStep ==
  ASSUME IInv, TodoOK, PlaceOK, CleanOK, [Next]_vars, IsLocal(Plugin'), ~Repacked(HashOf(Plugin'))
  PROVE  /\ pc' = "fetching" => Unknown(Plugin)'
         /\ Installing' => \A d \in DOMAIN disk' \ {target'} : disk'[d].hash # HashOf(Plugin')
<1>1. CASE Chosen
  <2>1. /\ Plugin' = Plugin /\ disk' = disk /\ pc = "plugin" /\ Plugin \in Waiting /\ Going
        /\ Plugin \in Entries
    <3>1. todo # <<>> /\ ~Disabled(Plugin) /\ pc = "plugin" /\ todo' = todo /\ disk' = disk
      BY <1>1, ChosenFrame
    <3>2. Plugin \in Entries /\ Plugin \in ToSet(todo)
      BY <3>1, EntryAtHand, HeadTail DEF IInv, TypeOK, TodoOK, Going, Plugin
    <3> QED
      BY <3>1, <3>2 DEF Plugin, Waiting, AtWorkOn, Installing, Going
  <2>2. pc' = "fetching" => ~Known
    BY <1>1, <2>1, RepackedEntry DEF Chosen, SkipInstalled, CompareDigest, ForceDownload, Download,
       Decide
  <2>3. pc' = "fetching" => Unknown(Plugin)
    BY <2>1, <2>2 DEF CleanOK, Known
  <2> QED
    BY <1>1, <2>1, <2>3, ChosenFrame DEF Unknown, Installing
<1>2. CASE Replacing
  <2>1. Plugin' = Plugin /\ pc' # "fetching"
    BY <1>2, ReplacingFrame DEF Plugin, Replacing, Fetch, Clear, Extract, FinishExtract,
       WriteDigest, OpenHashFile, WriteHash
  <2>2. CASE Fetch
    BY <2>1, <2>2 DEF Fetch, CleanOK, Unknown, envVars
  <2>3. CASE ~Fetch
    <3>1. Installing
      BY <1>2, <2>3 DEF Replacing, Clear, Extract, FinishExtract, WriteDigest, OpenHashFile,
                        WriteHash, Installing
    <3>2. \A d \in DOMAIN disk \ {target} : disk[d].hash # HashOf(Plugin)
      BY <2>1, <3>1 DEF CleanOK
    <3>3. \A d \in DOMAIN disk' \ {target'} : d \in DOMAIN disk \ {target} /\ disk'[d] = disk[d]
      BY <1>2, <2>3, ReplacingDirs DEF Same, Blank, Ruined, Marked
    <3> QED
      BY <2>1, <3>2, <3>3
  <2> QED
    BY <2>1, <2>2, <2>3
<1>3. CASE EnvStart \/ UNCHANGED Vars
  BY <1>3, EnvFrame DEF Vars, CleanOK, Unknown, Plugin, Installing
<1>4. CASE Begin \/ RunEnds \/ SkipDisabled \/ MergeFragment \/ Ending
  BY <1>4, EndFrame, EndingFrame
     DEF Exit, Begin, SkipDisabled, AtPlugin, MergeFragment, Installing
<1> QED
  BY <1>1, <1>2, <1>3, <1>4, NextCases

LEMMA CleanStep ==
  ASSUME IInv, TodoOK, PlaceOK, CleanOK, [Next]_vars, RunEnds => Finish
  PROVE  CleanOK'
<1>1. AllHashed' /\ OneOfAHash'
  BY AllHashedStep, OneOfAHashStep DEF CleanOK
<1>2. Going' => \A d \in DOMAIN disk' : Accounted(d)'
  BY AccountedStep
<1>3. Going' => \A p \in Waiting' : HashOf(p) \in DOMAIN stale' \/ Repacked(HashOf(p)) \/ Unknown(p)'
  BY WaitingStep
<1>4. /\ pc' = "fetching" /\ IsLocal(Plugin') => Repacked(HashOf(Plugin')) \/ Unknown(Plugin)'
      /\ Installing' /\ IsLocal(Plugin') =>
           \/ Repacked(HashOf(Plugin'))
           \/ \A d \in DOMAIN disk' \ {target'} : disk'[d].hash # HashOf(Plugin')
  BY LocalStep
<1>5. ~Going' /\ settled' >= 1 => \A d \in DOMAIN disk' : Repacked(disk'[d].hash) \/ OfEnabled(d)'
  <2> SUFFICES ASSUME ~Going', settled' >= 1, NEW d \in DOMAIN disk'
               PROVE  Repacked(disk'[d].hash) \/ OfEnabled(d)'
    OBVIOUS
  <2>1. CASE Finish
    <3>1. /\ pc = "sweeping" /\ stale = <<>> /\ UNCHANGED <<file, disk>>
      BY <2>1 DEF Finish, envVars
    <3>2. disk[d].hash \in Hashes
      BY <3>1 DEF CleanOK, AllHashed
    <3>3. Repacked(disk[d].hash) \/ OfEnabled(d)
      BY <3>1, <3>2 DEF CleanOK, Accounted, Going
    <3> QED
      BY <3>1, <3>3 DEF OfEnabled
  <2>2. CASE UNCHANGED Vars
    BY <2>2 DEF CleanOK, Going, OfEnabled, Vars
  <2>3. ~EnvStart /\ ~(RunEnds /\ ~Finish)
    BY EnvFrame
  <2>4. Begin \/ SkipDisabled \/ Chosen \/ Replacing \/ MergeFragment \/ Ending => Going'
    BY ChosenFrame, ReplacingFrame, EndingFrame
       DEF Begin, SkipDisabled, AtPlugin, MergeFragment, Going, AtWorkOn, Installing
  <2> QED
    BY <2>1, <2>2, <2>3, <2>4, NextCases
<1> QED
  BY <1>1, <1>2, <1>3, <1>4, <1>5 DEF CleanOK

(* The sweep of main(): without aborted runs a successful one leaves no    *)
(* directory of a plugin that is disabled, removed or replaced.            *)
THEOREM SettledCleanAlways == Spec => []SettledClean
<1> DEFINE Inv == PlaceOK /\ (Unaborted => CleanOK)
<1>1. Init => Inv
  BY PlaceInit, CleanInit
<1>2. IInv /\ TodoOK /\ Inv /\ [Next]_vars => Inv'
  <2> SUFFICES ASSUME IInv, TodoOK, Inv, [Next]_vars
               PROVE  PlaceOK' /\ (Unaborted' => CleanOK')
    OBVIOUS
  <2>1. PlaceOK'
    BY PlaceStep
  <2>2. Unaborted' => CleanOK'
    BY UnabortedKept, CleanStep
  <2> QED
    BY <2>1, <2>2
<1>3. Inv => SettledClean
  BY DEF SettledClean, CleanOK, Unaborted, Going, OfEnabled
<1> QED
  BY <1>1, <1>2, <1>3, TodoAlways, PTL DEF Spec

-----------------------------------------------------------------------------
(* Images that are pulled on every run.                                    *)

Honest == mishaps \subseteq {"aborted"}

LEMMA HonestKept ==
  ASSUME [Next]_vars, Honest'
  PROVE  Honest
<1>1. EnvStart \/ Begin \/ SkipDisabled \/ MergeFragment \/ Ending \/ UNCHANGED Vars
        => UNCHANGED mishaps
  BY DEF EnvStart, EditConfig, Publish, NothingToInstall, InvalidFile, Begin, SkipDisabled,
         MergeFragment, Ending, OpenGlobalFile, WriteGlobalFile, Sweep, FinishSweep, Vars, history
<1>2. RunEnds => mishaps \subseteq mishaps'
  BY DEF RunEnds, Fail, Kill, RejectPackage, MergeConflict, Finish, Abort
<1>3. Replacing => mishaps \subseteq mishaps'
  BY DEF Replacing, Fetch, Clear, Extract, FinishExtract, WriteDigest, OpenHashFile, WriteHash,
         history
<1> QED
  BY <1>1, <1>2, <1>3, ChosenFrame, NextCases DEF Honest

LEMMA FreshInit == Init => FreshOK
BY DEF Init, FreshOK, Going, Installing

(* A step that is not about p leaves its directory as fresh as it was.     *)
LEMMA FreshKept ==
  ASSUME IInv, [Next]_vars, settled' # 0, NEW p \in Entries, Fresh(p),
         WriteHash => HashOf(Plugin) # HashOf(p)
  PROVE  Fresh(p)'
<1> SUFFICES ASSUME NEW d \in DOMAIN disk', disk'[d].hash = HashOf(p)
             PROVE  \/ disk'[d].content = published'[SourceOf[p["package"]]]
                    \/ d = target' /\ pc' \in {"clearing", "removing"}
  BY DEF Fresh
<1>1. HashOf(p) \in Hashes
  BY HashFields
<1>2. ~EnvStart /\ (RunEnds => Finish)
  BY EnvFrame, EndFrame
<1>3. CASE Replacing \/ Ending
  <2>1. published' = published
    BY <1>3, ReplacingFrame, EndingFrame
  <2>2. ~Blank(d) /\ ~Marked(d)
    BY <1>1, NotAHash DEF Blank, Marked
  <2>3. CASE Same(d)
    <3>1. CASE d = target /\ pc \in {"clearing", "removing"}
      <4>1. Extract \/ FinishSweep
        BY <1>3, <3>1 DEF Replacing, Fetch, Clear, Extract, FinishExtract, WriteDigest,
           OpenHashFile, WriteHash, Ending, OpenGlobalFile, WriteGlobalFile, Sweep
      <4>2. ~FinishSweep
        BY <3>1 DEF FinishSweep
      <4>3. disk'[d].hash = NoFile
        BY <3>1, <4>1, <4>2 DEF Extract, Put
      <4> QED
        BY <1>1, <4>3, NotAHash
    <3> QED
      BY <2>1, <2>3, <3>1 DEF Same, Fresh
  <2> QED
    BY <1>3, <2>2, <2>3, ReplacingDirs, EndingDirs DEF Ruined
<1>4. CASE UNCHANGED Vars
  BY <1>4 DEF Vars, Fresh
<1>5. CASE Begin \/ SkipDisabled \/ Chosen \/ MergeFragment \/ Finish
  <2>1. /\ pc \notin {"clearing", "removing"}
        /\ UNCHANGED <<published, disk>>
    BY <1>5, ChosenFrame
       DEF Begin, SkipDisabled, AtPlugin, MergeFragment, Finish, envVars
  <2> QED
    BY <2>1 DEF Fresh
<1> QED
  BY <1>2, <1>3, <1>4, <1>5, NextCases

(* CompareDigest: the digest beside the plugin is that of its content.     *)
LEMMA ComparedFresh ==
  ASSUME IInv, PlaceOK, Honest, CompareDigest, pc' = "merging", TodoOK
  PROVE  Fresh(Plugin)
<1> DEFINE h == HashOf(Plugin)
           e == stale[h]
<1>1. /\ pc = "plugin" /\ todo # <<>> /\ IsOci(Plugin) /\ h \in DOMAIN stale
      /\ disk[e].digest = published[Source]
  BY DEF CompareDigest, AtPlugin, Known, Decide
<1>2. Plugin \in Entries /\ published[Source] \in Versions /\ h \in Hashes /\ IsOci(h)
  BY <1>1, EntryAtHand, HashFields DEF IInv
<1> SUFFICES ASSUME NEW d \in DOMAIN disk, disk[d].hash = h
             PROVE  disk[d].content = published[Source]
  BY DEF Fresh, Source
<1>3. d = e
  BY <1>1, <1>2, OnePlace DEF PlaceOK
<1>4. disk[d].content \in {Partial, published[Source]}
  BY <1>1, <1>2, <1>3 DEF IInv, DigestHonest, Honest, Versions
<1>5. disk[d].content # Partial
  BY <1>1, <1>2, NotAHash DEF IInv, HashedComplete, Honest
<1> QED
  BY <1>4, <1>5

LEMMA MarkedFresh ==
  ASSUME IInv, TodoOK, PlaceOK, FreshOK, WriteHash, settled >= 1, IsOci(Plugin)
  PROVE  Fresh(Plugin)'
<1>1. /\ target \in DOMAIN disk /\ disk[target].content = fetched /\ Plugin \in Entries
      /\ UNCHANGED <<published, todo>> /\ disk[target] \in DirRecord
  BY AtWork DEF WriteHash, IInv, TargetOK, envVars, runVars, TypeOK, DirRecord
<1>2. fetched = published[Source]
  BY DEF FreshOK, WriteHash, Installing
<1>3. disk' = [disk EXCEPT ![target].hash = HashOf(Plugin)] /\ Plugin' = Plugin
  BY <1>1 DEF WriteHash, Plugin
<1> SUFFICES ASSUME NEW d \in DOMAIN disk', disk'[d].hash = HashOf(Plugin)
             PROVE  disk'[d].content = published[Source]
  BY <1>1, <1>3 DEF Fresh, Source
<1>4. CASE d = target
  BY <1>1, <1>2, <1>3, <1>4 DEF DirRecord
<1>5. CASE d # target
  <2>1. d \in DOMAIN disk /\ disk[d].hash = HashOf(Plugin)
    BY <1>3, <1>5
  <2>2. IsOci(HashOf(Plugin)) /\ d \in Places(HashOf(Plugin)) /\ target \in Places(HashOf(Plugin))
        /\ HashOf(Plugin) \in Hashes
    BY <1>1, <2>1, MarkedPlace, HashFields DEF PlaceOK
  <2> QED
    BY <1>5, <2>2, OnePlace
<1> QED
  BY <1>4, <1>5

LEMMA EnabledEntries ==
  ASSUME IInv
  PROVE  Enabled \subseteq Entries /\ \A p \in Enabled : p \in ToSet(AllPlugins(file))
BY KeyOK, EnabledListed DEF IInv

LEMMA FreshStep ==
  ASSUME IInv, TodoOK, PlaceOK, FreshOK, Honest, [Next]_vars
  PROVE  FreshOK'
<1> SUFFICES ASSUME settled' # 0
             PROVE  FreshOK'
  <2>1. CASE settled' = 0
    BY <2>1 DEF FreshOK
  <2> QED
    BY <2>1
<1> USE DEF Going
<1>1. ~EnvStart /\ (RunEnds => Finish) /\ published' = published /\ file' = file
  <2>1. ~EnvStart /\ (RunEnds => Finish)
    BY EnvFrame, EndFrame
  <2> QED
    BY <2>1, EndFrame, ChosenFrame, ReplacingFrame, EndingFrame, NextCases
       DEF Begin, SkipDisabled, MergeFragment, Vars, envVars
<1>2. settled \in 0 .. 2 /\ settled' \in 0 .. 2
  BY NextStep DEF IInv, TypeOK
<1>3. settled' = settled \/ Finish
  BY <1>1, ChosenFrame, ReplacingFrame, EndingFrame, NextCases
     DEF Begin, SkipDisabled, MergeFragment, Vars, history
<1>4. CASE Finish
  <2>1. /\ pc = "sweeping" /\ todo = <<>> /\ pc' = "idle" /\ copied' = <<>> /\ disk' = disk
        /\ settled' = Max2(settled)
    BY <1>4 DEF Finish, TodoOK, Exit
  <2>2. Handled = Enabled /\ (settled' = 2 => settled >= 1)
    BY <1>2, <2>1 DEF Handled, ToSet, Max2
  <2>3. settled' = 2 => \A p \in Enabled : ~Pulled(p) \/ Fresh(p)
    BY <2>1, <2>2 DEF FreshOK
  <2>4. \A p \in Enabled : Fresh(p) => Fresh(p)'
    BY <1>1, <2>1 DEF Fresh
  <2>5. Enabled' = Enabled
    BY <1>1 DEF Enabled
  <2> QED
    BY <2>1, <2>3, <2>4, <2>5 DEF FreshOK, Installing
<1>5. CASE UNCHANGED Vars
  BY <1>5 DEF Vars, FreshOK, Installing, Handled, Enabled, Fresh, Plugin, Source
<1>6. CASE Begin
  <2>1. Handled' = {} /\ pc' = "plugin" /\ copied' = copied /\ copied = <<>>
    BY <1>1, <1>6, EnabledListed DEF Begin, Handled, Enabled, TodoOK
  <2> QED
    BY <2>1 DEF FreshOK, Installing
<1>7. CASE ~Finish /\ ~Begin /\ ~UNCHANGED Vars
  <2>1. SkipDisabled \/ Chosen \/ Replacing \/ MergeFragment \/ Ending
    BY <1>1, <1>7, NextCases
  <2>2. settled' = settled /\ settled >= 1 /\ Going /\ Going'
    BY <1>2, <1>3, <1>7, <2>1, ChosenFrame, ReplacingFrame, EndingFrame
       DEF SkipDisabled, AtPlugin, MergeFragment, AtWorkOn, Installing
  <2>3. \A s \in DOMAIN copied' : copied'[s] = published'[s]
    <3>1. CASE Fetch
      BY <1>1, <2>2, <3>1 DEF Fetch, FreshOK, Put, Delivered
    <3>2. CASE ~Fetch
      <4>1. copied' = copied
        BY <2>1, <3>2, ChosenFrame, EndingFrame DEF SkipDisabled, Replacing, Clear, Extract,
           FinishExtract, WriteDigest, OpenHashFile, WriteHash, MergeFragment, runVars
      <4> QED
        BY <1>1, <2>2, <4>1 DEF FreshOK
    <3> QED
      BY <3>1, <3>2
  <2>4. ASSUME NEW p \in Handled', Pulled(p)
        PROVE  Fresh(p)'
    <3>1. p \in Entries /\ p \in Enabled /\ p \in ToSet(AllPlugins(file)) /\ p \notin ToSet(todo')
      BY <1>1, EnabledEntries DEF Handled, Enabled
    <3>2. file.kind = "plugins"
      BY <3>1, EnabledListed
    <3>3. WriteHash => HashOf(Plugin) # HashOf(p)
      <4> SUFFICES ASSUME WriteHash
                   PROVE  HashOf(Plugin) # HashOf(p)
        OBVIOUS
      <4>1. todo' = todo /\ Plugin \in ToSet(AllPlugins(file)) /\ Plugin \in ToSet(todo)
        BY PluginEnabled, HeadTail DEF WriteHash, AtWorkOn, Installing, runVars, IInv, TypeOK,
           TodoOK, Plugin
      <4> QED
        BY <3>1, <3>2, <4>1, KeyOK DEF IInv
    <3>4. CASE p \in Handled
      BY <2>2, <2>4, <3>1, <3>3, <3>4, FreshKept DEF FreshOK
    <3>5. CASE p \notin Handled
      <4>1. p \in ToSet(todo)
        BY <3>1, <3>5 DEF Handled
      <4>2. SkipDisabled \/ MergeFragment
        BY <2>1, <3>1, <4>1, ChosenFrame, ReplacingFrame, EndingFrame
      <4>3. p = Plugin /\ (SkipDisabled => Disabled(p))
        <5>1. todo # <<>> /\ todo' = Tail(todo) /\ (SkipDisabled => Disabled(Plugin))
          BY <4>2 DEF SkipDisabled, MergeFragment, AtPlugin, IInv, FetchOK
        <5>2. ToSet(todo) = {Plugin} \cup ToSet(todo')
          BY <2>2, <5>1, HeadTail DEF IInv, TypeOK, TodoOK, Plugin
        <5> QED
          BY <3>1, <4>1, <5>1, <5>2
      <4>4. MergeFragment
        BY <3>1, <4>2, <4>3, EnabledListed
      <4>5. Fresh(Plugin)
        BY <2>2, <2>4, <4>3, <4>4 DEF MergeFragment, FreshOK
      <4> QED
        BY <3>1, <3>3, <4>3, <4>5, FreshKept
    <3> QED
      BY <3>4, <3>5
  <2>5. Installing' /\ IsOci(Plugin') => fetched' = published'[Source']
    <3>1. CASE Fetch
      BY <1>1, <2>2, <3>1 DEF Fetch, FreshOK, Delivered, Plugin, Source
    <3>2. CASE Replacing /\ ~Fetch
      <4>1. Installing /\ UNCHANGED <<todo, fetched>>
        BY <3>2 DEF Replacing, Clear, Extract, FinishExtract, WriteDigest, OpenHashFile, WriteHash,
                    Installing, runVars
      <4> QED
        BY <1>1, <2>2, <4>1 DEF FreshOK, Plugin, Source
    <3>3. SkipDisabled \/ Chosen \/ MergeFragment \/ Ending => ~Installing'
      BY ChosenFrame, EndingFrame DEF SkipDisabled, AtPlugin, MergeFragment, Installing
    <3> QED
      BY <2>1, <3>1, <3>2, <3>3
  <2>6. pc' = "merging" /\ Pulled(Plugin') => Fresh(Plugin)'
    <3> SUFFICES ASSUME pc' = "merging", Pulled(Plugin')
                 PROVE  Fresh(Plugin)'
      OBVIOUS
    <3>1. CASE Chosen
      <4>1. Plugin' = Plugin /\ disk' = disk /\ pc = "plugin"
        BY <3>1, ChosenFrame DEF Plugin
      <4>2. CompareDigest
        BY <3>1, <4>1 DEF Chosen, SkipInstalled, ForceDownload, Download, Decide, Pulled
      <4>3. Fresh(Plugin)
        BY <4>2, ComparedFresh
      <4> QED
        BY <1>1, <4>1, <4>3 DEF Fresh
    <3>2. CASE WriteHash
      BY <2>2, <3>2, MarkedFresh DEF WriteHash, runVars, Pulled, Plugin
    <3>3. SkipDisabled \/ MergeFragment \/ Ending \/ (Replacing /\ ~WriteHash) => pc' # "merging"
      BY EndingFrame DEF SkipDisabled, AtPlugin, MergeFragment, Replacing, Fetch, Clear, Extract,
         FinishExtract, WriteDigest, OpenHashFile
    <3> QED
      BY <2>1, <3>1, <3>2, <3>3
  <2> QED
    BY <2>2, <2>3, <2>4, <2>5, <2>6 DEF FreshOK
<1> QED
  BY <1>4, <1>5, <1>6, <1>7

(* The digest comparison of pull policy Always: an image that is pulled on *)
(* every run is the published one after two successful runs since it was   *)
(* published, unless a tag moved or a directory was half deleted before.   *)
THEOREM SettledFreshAlways == Spec => []SettledFresh
<1> DEFINE Inv == PlaceOK /\ (Honest => FreshOK)
<1>1. Init => Inv
  BY PlaceInit, FreshInit
<1>2. IInv /\ TodoOK /\ Inv /\ [Next]_vars => Inv'
  <2> SUFFICES ASSUME IInv, TodoOK, Inv, [Next]_vars
               PROVE  PlaceOK' /\ (Honest' => FreshOK')
    OBVIOUS
  <2>1. PlaceOK'
    BY PlaceStep
  <2>2. Honest' => FreshOK'
    BY HonestKept, FreshStep
  <2> QED
    BY <2>1, <2>2
<1>3. Inv => SettledFresh
  BY DEF SettledFresh, FreshOK, Honest, Going, Pulled, Fresh, Enabled
<1> QED
  BY <1>1, <1>2, <1>3, TodoAlways, PTL DEF Spec

-----------------------------------------------------------------------------
(* What a second run with the same configuration leads to, when the        *)
(* enabled plugins have places of their own.                               *)

Spot(p) == {DirOf[<<p["package"], v>>] : v \in Versions}

LEMMA Spots ==
  ASSUME NEW p \in Entries
  PROVE  /\ Places(HashOf(p)) \subseteq Spot(p)
         /\ Version(p) \in Versions => Place(p) \in Spot(p)
<1>1. HashOf(p)["package"] = p["package"]
  BY EntriesAssumption DEF HashOf
<1> QED
  BY <1>1 DEF Places, Spot, Place

LEMMA Apart ==
  ASSUME OwnPlaces(file), NEW p \in Enabled, NEW q \in Enabled, p # q,
         NEW d \in Spot(p), NEW e \in Spot(q)
  PROVE  d # e
BY DEF OwnPlaces, Spot, Enabled

LEMMA ReplacingElsewhere ==
  ASSUME IInv, PlaceOK, TodoOK, Replacing, [Next]_vars
  PROVE  /\ Plugin' = Plugin /\ Plugin \in Enabled
         /\ target' \in Spot(Plugin)
         /\ \A d : d # target' => (d \in DOMAIN disk <=> d \in DOMAIN disk')
         /\ \A d \in DOMAIN disk : d # target' => disk'[d] = disk[d]
         /\ \A h \in DOMAIN stale' : h \in DOMAIN stale /\ stale'[h] = stale[h]
         /\ \A h \in DOMAIN stale : h \in DOMAIN stale' \/ stale[h] = target'
<1>1. Plugin' = Plugin /\ Plugin \in Enabled
  BY ReplacingFrame, PluginEnabled DEF Plugin
<1>2. target' \in Spot(Plugin)
  <2>1. CASE Installing'
    <3>1. target' = DirOf[<<Plugin["package"], fetched'>>] /\ fetched' \in Versions
      BY <1>1, <2>1, PlaceStep, NextStep DEF PlaceOK, IInv, FetchOK
    <3> QED
      BY <3>1 DEF Spot
  <2>2. CASE ~Installing'
    <3>1. WriteHash /\ target' = target
      BY <2>2 DEF Replacing, Fetch, Clear, Extract, FinishExtract, WriteDigest, OpenHashFile,
                  WriteHash, Installing, runVars
    <3>2. target = DirOf[<<Plugin["package"], fetched>>] /\ fetched \in Versions
      BY <3>1 DEF PlaceOK, IInv, FetchOK, WriteHash, Installing
    <3> QED
      BY <3>1, <3>2 DEF Spot
  <2> QED
    BY <2>1, <2>2
<1>3. /\ \A d : d # target' => (d \in DOMAIN disk <=> d \in DOMAIN disk')
      /\ \A d \in DOMAIN disk : d # target' => disk'[d] = disk[d]
  <2>1. WriteHash => target' = target
    BY DEF WriteHash, runVars
  <2>2. \A d \in DOMAIN disk' : d # target' => Same(d)
    BY <2>1, ReplacingDirs DEF Blank, Ruined, Marked
  <2> QED
    BY <2>2, ReplacingDirs DEF Same
<1>4. /\ \A h \in DOMAIN stale' : h \in DOMAIN stale /\ stale'[h] = stale[h]
      /\ \A h \in DOMAIN stale : h \in DOMAIN stale' \/ stale[h] = target'
  BY DEF Replacing, Fetch, Clear, Extract, FinishExtract, WriteDigest, OpenHashFile, WriteHash,
         runVars
<1> QED
  BY <1>1, <1>2, <1>3, <1>4

(* The replacement of one plugin's directory is nothing to the others.     *)
LEMMA OthersKept ==
  ASSUME IInv, PlaceOK, TodoOK, Replacing, [Next]_vars, OwnPlaces(file),
         NEW p \in Enabled, p # Plugin
  PROVE  /\ Secure(p) => Secure(p)'
         /\ Vacant(p) => Vacant(p)'
         /\ Doomed(p) => Doomed(p)'
         /\ Found(p) => Found(p)'
         /\ Listed(p)' => Listed(p)
<1>1. p \in Entries /\ HashOf(p) \in Hashes
  BY EnabledEntries, HashFields
<1>2. \A d \in Spot(p) : d # target'
  BY ReplacingElsewhere, Apart
<1>3. published' = published /\ pc # "removing"
  BY ReplacingFrame
<1>4. Secure(p) => Secure(p)'
  <2> SUFFICES ASSUME NEW d \in DOMAIN disk, Safe(d), disk[d].hash = HashOf(p)
               PROVE  Secure(p)'
    BY DEF Secure
  <2>1. d # target'
    BY <1>1, <1>2, Spots DEF PlaceOK
  <2>2. d \in DOMAIN disk' /\ disk'[d].hash = HashOf(p)
    BY <2>1, ReplacingElsewhere
  <2>3. Safe(d)'
    BY <2>1, <2>2, ReplacingElsewhere DEF Safe
  <2> QED
    BY <2>2, <2>3 DEF Secure
<1>5. Version(p)' = Version(p) /\ Place(p)' = Place(p)
  BY <1>3 DEF Version, Place
<1>6. Vacant(p) => Vacant(p)'
  BY <1>1, <1>2, <1>5, Spots, ReplacingElsewhere DEF Vacant
<1>7. Doomed(p) => Doomed(p)'
  BY <1>1, <1>2, <1>3, <1>5, Spots, ReplacingElsewhere DEF Doomed
<1>8. ASSUME Listed(p)
      PROVE  stale[HashOf(p)] \in Spot(p) /\ stale[HashOf(p)] \in DOMAIN disk
  BY <1>1, <1>8, Spots DEF PlaceOK, Listed, IInv, TypeOK, StaleOK
<1>9. Found(p) => Found(p)'
  BY <1>2, <1>8, ReplacingElsewhere DEF Found, Listed
<1>10. Listed(p)' => Listed(p)
  BY ReplacingElsewhere DEF Listed
<1> QED
  BY <1>4, <1>6, <1>7, <1>9, <1>10

LEMMA SettleInit == Init => SettleOK /\ QuietOK
BY DEF Init, SettleOK, Outlook, HandledOK, WaitingOK, AtHandOK, QuietOK, Going, Installing

(* Beginning and end of a run, and what happens around it.                 *)
LEMMA SettleIdle ==
  ASSUME ~Going', settled' = 0
  PROVE  SettleOK'
BY DEF SettleOK, Outlook, HandledOK, WaitingOK, AtHandOK, Going, Installing

LEMMA SettleEnv ==
  ASSUME IInv, TodoOK, SettleOK, EnvStart, Going
  PROVE  SettleOK'
<1>1. /\ UNCHANGED <<file, disk, pc, todo, stale, target, fetched>> /\ settled' = 0
      /\ \A s \in LocalSources : published'[s] = published[s]
  BY EnvFrame
<1>2. \A p \in Entries : Version(p)' = Version(p) /\ Place(p)' = Place(p)
  BY <1>1 DEF Version, Place, LocalSources
<1>3. \A p \in Entries : /\ Secure(p)' <=> Secure(p)
                         /\ Vacant(p)' <=> Vacant(p)
                         /\ Doomed(p)' <=> Doomed(p)
                         /\ Found(p)' <=> Found(p)
                         /\ Listed(p)' <=> Listed(p)
  BY <1>1, <1>2 DEF Secure, Safe, Vacant, Doomed, Found, Listed
<1>4. Enabled \subseteq Entries /\ Handled \subseteq Enabled
  BY EnabledEntries DEF Handled
<1>5. Handled' = Handled /\ Waiting' = Waiting /\ Enabled' = Enabled /\ Plugin' = Plugin
      /\ (Installing' <=> Installing)
  BY <1>1 DEF Handled, Waiting, Enabled, Plugin, AtWorkOn, Installing
<1>6. pc \in {"merging"} \/ Installing => Plugin \in Entries
  BY PluginEnabled DEF AtWorkOn
<1>7. HandledOK' /\ WaitingOK'
  BY <1>1, <1>3, <1>4, <1>5 DEF SettleOK, HandledOK, WaitingOK, Going
<1>8. AtHandOK'
  BY <1>1, <1>2, <1>3, <1>5, <1>6 DEF SettleOK, AtHandOK, Freed, Installing
<1> QED
  BY <1>1, <1>7, <1>8 DEF SettleOK, Outlook, Going

LEMMA SettleFinish ==
  ASSUME IInv, TodoOK, SettleOK, Finish
  PROVE  SettleOK'
<1>1. /\ pc = "sweeping" /\ todo = <<>> /\ stale = <<>> /\ pc' = "idle" /\ stale' = <<>>
      /\ UNCHANGED <<file, published, disk>> /\ settled' = Max2(settled)
  BY DEF Finish, TodoOK, Exit, envVars
<1>2. Handled = Enabled /\ Enabled' = Enabled
  BY <1>1 DEF Handled, Enabled, ToSet
<1>3. \A p \in Enabled : /\ ~Doomed(p)
                         /\ Secure(p) => Secure(p)'
                         /\ Vacant(p) => Vacant(p)'
  BY <1>1 DEF Doomed, Secure, Safe, Vacant, Version, Place
<1>4. settled' = 2 => settled >= 1
  BY <1>1 DEF Max2, IInv, TypeOK
<1>5. Outlook'
  BY <1>1, <1>2, <1>3, <1>4 DEF SettleOK, HandledOK, Outlook, Going
<1> QED
  BY <1>1, <1>5 DEF SettleOK, HandledOK, WaitingOK, AtHandOK, Going, Installing

LEMMA SettleBegin ==
  ASSUME IInv, TodoOK, SettleOK, Begin
  PROVE  SettleOK'
<1>1. /\ pc = "idle" /\ pc' = "plugin" /\ todo' = AllPlugins(file)
      /\ UNCHANGED <<file, published, disk, settled>>
  BY DEF Begin, envVars, history
<1>2. Handled' = {} /\ Enabled' = Enabled
  BY <1>1, EnabledListed DEF Handled, Enabled
<1>3. \A p \in Enabled : HashOf(p) \in Hashes
  BY EnabledEntries, HashFields
<1>4. ASSUME NEW p \in Enabled
      PROVE  /\ Listed(p)' => Found(p)'
             /\ Secure(p) => Found(p)'
             /\ Vacant(p) => Vacant(p)'
  <2>1. Listed(p)' => Found(p)'
    BY <1>1, ScanOK DEF Listed, Found
  <2>2. Secure(p) => Listed(p)'
    BY <1>3, NotAHash, ScanAll DEF Secure, Listed
  <2>3. Vacant(p) => Vacant(p)'
    BY <1>1 DEF Vacant, Version, Place
  <2> QED
    BY <2>1, <2>2, <2>3
<1>5. WaitingOK'
  BY <1>1, <1>2, <1>4 DEF WaitingOK, SettleOK, Outlook, Going
<1> QED
  BY <1>1, <1>2, <1>5 DEF SettleOK, Outlook, HandledOK, AtHandOK, Going, Installing

LEMMA SettleSkip ==
  ASSUME IInv, TodoOK, SettleOK, SkipDisabled
  PROVE  SettleOK'
<1>1. /\ todo # <<>> /\ todo' = Tail(todo) /\ pc = "plugin" /\ Disabled(Plugin)
      /\ UNCHANGED <<file, published, disk, pc, stale, settled, target>>
  BY DEF SkipDisabled, AtPlugin, envVars, history
<1>2. ToSet(todo) = {Plugin} \cup ToSet(todo') /\ Plugin \notin Enabled
  BY <1>1, HeadTail, EnabledListed DEF IInv, TypeOK, TodoOK, Plugin, Going
<1>3. Handled' = Handled /\ Enabled' = Enabled /\ Waiting' \subseteq Waiting
  BY <1>1, <1>2 DEF Handled, Enabled, Waiting, AtWorkOn, Installing
<1>4. \A p \in Enabled : /\ Secure(p)' <=> Secure(p)
                         /\ Vacant(p)' <=> Vacant(p)
                         /\ Doomed(p)' <=> Doomed(p)
                         /\ Found(p)' <=> Found(p)
                         /\ Listed(p)' <=> Listed(p)
  BY <1>1 DEF Secure, Safe, Vacant, Doomed, Version, Place, Found, Listed
<1>5. HandledOK' /\ WaitingOK'
  <2>1. Handled \subseteq Enabled
    BY DEF Handled
  <2> QED
    BY <1>1, <1>3, <1>4, <2>1 DEF SettleOK, HandledOK, WaitingOK, Going
<1> QED
  BY <1>1, <1>5 DEF SettleOK, Outlook, AtHandOK, Going, Installing

(* The choice takes the hash of the entry at hand off plugin_path_by_hash, *)
(* which saves its directory from the sweep.                               *)
LEMMA SettleChosen ==
  ASSUME IInv, TodoOK, PlaceOK, OwnPlaces(file), SettleOK, Chosen, [Next]_vars
  PROVE  SettleOK'
<1> DEFINE q == Plugin
<1>1. /\ pc = "plugin" /\ todo # <<>> /\ pc' \in {"merging", "fetching"} /\ ~Disabled(q)
      /\ stale' = stale \/ stale' = Pop(HashOf(q))
      /\ UNCHANGED <<file, published, disk, todo, target, fetched, settled>>
  BY ChosenFrame
<1>2. q \in Enabled /\ q \in Entries /\ HashOf(q) \in Hashes /\ Plugin' = q /\ Going
  BY <1>1, PluginEnabled, HashFields DEF Plugin, Going
<1>3. q \in Waiting
  BY <1>1, HeadTail DEF Waiting, AtWorkOn, Installing, IInv, TypeOK, TodoOK, Going, Plugin
<1>4. Handled' = Handled /\ Enabled' = Enabled /\ Waiting' \subseteq Waiting
  BY <1>1, <1>2, WaitingShrinks DEF Handled, Enabled, Begin, Going
<1>5. \A p \in Waiting' : HashOf(p) # HashOf(q)
  BY <1>1, WaitingShrinks DEF Begin, Going
<1>6. Known => stale' = Pop(HashOf(q))
  BY DEF Chosen, SkipInstalled, CompareDigest, ForceDownload, Download
<1>7. ASSUME NEW p \in Enabled
      PROVE  /\ Secure(p) => Secure(p)'
             /\ Vacant(p) => Vacant(p)'
             /\ p # q /\ Doomed(p) => Doomed(p)'
             /\ p \in Waiting' => (Listed(p)' <=> Listed(p)) /\ (Found(p) => Found(p)')
  <2>1. Secure(p) => Secure(p)'
    BY <1>1 DEF Secure, Safe, Pop
  <2>2. Version(p)' = Version(p) /\ Place(p)' = Place(p)
    BY <1>1 DEF Version, Place
  <2>3. Vacant(p) => Vacant(p)'
    BY <1>1, <2>2 DEF Vacant
  <2>4. ASSUME p # q, Doomed(p)
        PROVE  Doomed(p)'
    <3>1. PICK k \in DOMAIN stale : stale[k] = Place(p)
      BY <1>1, <2>4 DEF Doomed
    <3>2. Place(p) \in Spot(p) /\ p \in Entries
      BY <2>4, EnabledEntries, Spots DEF Doomed
    <3>3. k # HashOf(q)
      <4>1. k = HashOf(q) => stale[k] \in Spot(q)
        BY <1>2, Spots DEF PlaceOK
      <4> QED
        BY <1>2, <2>4, <3>1, <3>2, <4>1, Apart
    <3>4. k \in DOMAIN stale' /\ stale'[k] = Place(p)
      BY <1>1, <3>1, <3>3 DEF Pop
    <3> QED
      BY <2>2, <2>4, <3>4 DEF Doomed
  <2>5. p \in Waiting' => (Listed(p)' <=> Listed(p)) /\ (Found(p) => Found(p)')
    BY <1>1, <1>5 DEF Listed, Found, Pop
  <2> QED
    BY <2>1, <2>3, <2>4, <2>5
<1>8. Found(q) => Secure(q)'
  <2> SUFFICES ASSUME Found(q)
               PROVE  Secure(q)'
    OBVIOUS
  <2>1. PICK d \in DOMAIN disk : /\ HashOf(q) \in DOMAIN stale /\ d = stale[HashOf(q)]
                                /\ disk[d].hash = HashOf(q)
    BY DEF Found, Listed, IInv, TypeOK, StaleOK
  <2>2. \A k \in DOMAIN stale' : stale'[k] # d
    BY <1>6, <2>1 DEF Known, Pop, IInv, TypeOK, StaleOK
  <2>3. Safe(d)'
    BY <1>1, <2>1, <2>2 DEF Safe
  <2> QED
    BY <1>1, <1>2, <2>1, <2>3 DEF Secure
<1>9. HandledOK'
  <2>1. \A p \in Handled : p \in Enabled /\ p # q
    BY <1>1, HeadTail DEF Handled, IInv, TypeOK, TodoOK, Plugin, Going
  <2> QED
    BY <1>1, <1>2, <1>4, <1>7, <2>1 DEF SettleOK, HandledOK, Going
<1>10. WaitingOK'
  BY <1>1, <1>2, <1>4, <1>7 DEF SettleOK, WaitingOK, Going
<1>11. pc' = "fetching" /\ settled' >= 1 => Secure(q)' \/ Vacant(q)'
  BY <1>1, <1>2, <1>3, <1>7, <1>8 DEF SettleOK, WaitingOK
<1>12. pc' = "merging" => Secure(q)'
  <2>1. pc' = "merging" => Known
    BY DEF Chosen, SkipInstalled, CompareDigest, ForceDownload, Download, Decide
  <2> QED
    BY <1>2, <1>3, <1>8, <2>1 DEF SettleOK, WaitingOK, Known, Listed
<1>13. AtHandOK'
  <2>1. /\ (Secure(Plugin))' <=> Secure(q)'
        /\ (Vacant(Plugin))' <=> Vacant(q)'
    BY <1>2 DEF Secure, Vacant, Version, Place
  <2> QED
    BY <1>1, <1>11, <1>12, <2>1 DEF AtHandOK, Installing
<1> QED
  BY <1>1, <1>9, <1>10, <1>13 DEF SettleOK, Outlook, Going

LEMMA ReplacingAtHand ==
  ASSUME IInv, TodoOK, PlaceOK, SettleOK, Replacing, [Next]_vars
  PROVE  AtHandOK'
<1> DEFINE q == Plugin
<1>1. Plugin' = q /\ q \in Enabled /\ q \in Entries
  BY ReplacingElsewhere, EnabledEntries
<1>2. UNCHANGED <<published, settled>> /\ pc' # "fetching" /\ Version(Plugin)' = Version(q)
  <2>1. UNCHANGED <<published, settled>> /\ pc' # "fetching"
    BY ReplacingFrame DEF Replacing, Fetch, Clear, Extract, FinishExtract, WriteDigest,
       OpenHashFile, WriteHash
  <2> QED
    BY <1>1, <2>1 DEF Version
<1>3. CASE Fetch
  <2>1. /\ pc = "fetching" /\ pc' = "replacing" /\ Verified /\ fetched' = Delivered
        /\ target' = DirOf[<<q["package"], Delivered>>] /\ UNCHANGED <<disk, stale>>
    BY <1>3 DEF Fetch, envVars
  <2>2. ~IsOci(q) => fetched' = Version(q)
    BY <2>1 DEF Verified, Delivered, Version, Source
  <2>3. ASSUME settled >= 1, ~IsOci(q)
        PROVE  SecureElsewhere(Plugin)' \/ Freed'
    <3>1. CASE Vacant(q)
      <4>1. target' \notin DOMAIN disk
        BY <2>1, <2>2, <2>3, <3>1 DEF Vacant, Place
      <4> QED
        BY <2>1, <4>1 DEF Freed, IInv, TypeOK, StaleOK
    <3>2. CASE Secure(q)
      <4>1. PICK d \in DOMAIN disk : Safe(d) /\ disk[d].hash = HashOf(q)
        BY <3>2 DEF Secure
      <4>2. Safe(d)'
        BY <2>1, <4>1 DEF Safe
      <4>3. CASE d = target'
        BY <2>1, <4>1, <4>3 DEF Safe, Freed
      <4>4. CASE d # target'
        BY <1>1, <2>1, <4>1, <4>2, <4>4 DEF SecureElsewhere
      <4> QED
        BY <4>3, <4>4
    <3> QED
      BY <2>1, <2>3, <3>1, <3>2 DEF SettleOK, AtHandOK
  <2> QED
    BY <1>1, <1>2, <2>1, <2>2, <2>3 DEF AtHandOK, Installing
<1>4. CASE ~Fetch
  <2>1. Installing /\ UNCHANGED <<target, fetched>>
    BY <1>4 DEF Replacing, Clear, Extract, FinishExtract, WriteDigest, OpenHashFile, WriteHash,
                Installing, runVars
  <2>2. SecureElsewhere(q) => SecureElsewhere(Plugin)'
    <3> SUFFICES ASSUME NEW d \in DOMAIN disk \ {target}, Safe(d), disk[d].hash = HashOf(q)
                 PROVE  SecureElsewhere(Plugin)'
      BY DEF SecureElsewhere
    <3>1. d \in DOMAIN disk' \ {target'} /\ disk'[d].hash = HashOf(q)
      BY <2>1, ReplacingElsewhere
    <3>2. Safe(d)'
      BY <2>1, <3>1, ReplacingElsewhere DEF Safe
    <3> QED
      BY <1>1, <3>1, <3>2 DEF SecureElsewhere
  <2>3. Freed => Freed'
    BY <2>1, ReplacingElsewhere DEF Freed
  <2>4. ~IsOci(q) => fetched' = Version(q)
    BY <2>1 DEF SettleOK, AtHandOK
  <2>5. settled >= 1 => SecureElsewhere(Plugin)' \/ Freed' \/ IsOci(q)
    BY <2>1, <2>2, <2>3 DEF SettleOK, AtHandOK
  <2>6. pc' \in {"hashing", "writing"} /\ IsOci(q) => Freed'
    <3>1. WriteDigest => Freed'
      BY <2>1 DEF WriteDigest, Freed
    <3>2. CASE ~WriteDigest /\ pc' \in {"hashing", "writing"} /\ IsOci(q)
      <4>1. pc \in {"hashing", "writing"}
        BY <1>4, <3>2 DEF Replacing, Clear, Extract, FinishExtract, OpenHashFile, WriteHash
      <4> QED
        BY <2>3, <3>2, <4>1 DEF SettleOK, AtHandOK
    <3> QED
      BY <3>1, <3>2
  <2>7. pc' = "merging" => Secure(Plugin)' \/ (settled = 0 /\ Doomed(Plugin)')
    <3> SUFFICES ASSUME pc' = "merging"
                 PROVE  Secure(Plugin)' \/ (settled = 0 /\ Doomed(Plugin)')
      OBVIOUS
    <3>1. WriteHash /\ stale' = stale /\ pc = "writing" /\ target' = target
      BY <1>4 DEF Replacing, Clear, Extract, FinishExtract, WriteDigest, OpenHashFile, WriteHash,
                  runVars
    <3>2. target \in DOMAIN disk /\ disk[target] \in DirRecord
      BY <3>1 DEF IInv, TargetOK, TypeOK, DirRecord
    <3>3. target \in DOMAIN disk' /\ disk'[target].hash = HashOf(q)
      BY <3>1, <3>2 DEF WriteHash, DirRecord
    <3>4. CASE Freed
      <4>1. Safe(target)'
        BY <3>1, <3>3, <3>4 DEF Safe, Freed
      <4> QED
        BY <1>1, <3>1, <3>3, <4>1 DEF Secure
    <3>5. CASE SecureElsewhere(q)
      BY <2>2, <3>5 DEF SecureElsewhere, Secure
    <3>6. CASE ~Freed /\ ~SecureElsewhere(q)
      <4>1. ~IsOci(q) /\ settled = 0
        BY <2>1, <3>1, <3>6 DEF SettleOK, AtHandOK, IInv, TypeOK
      <4>2. Version(q) = fetched /\ fetched \in Versions /\ target = Place(q)
        BY <2>1, <4>1 DEF SettleOK, AtHandOK, PlaceOK, Place, IInv, FetchOK
      <4>3. PICK k \in DOMAIN stale : stale[k] = target
        BY <3>6 DEF Freed
      <4>4. Doomed(Plugin)'
        BY <1>1, <1>2, <3>1, <4>1, <4>2, <4>3 DEF Doomed, Place
      <4> QED
        BY <4>1, <4>4
    <3> QED
      BY <3>4, <3>5, <3>6
  <2> QED
    BY <1>1, <1>2, <2>4, <2>5, <2>6, <2>7 DEF AtHandOK
<1> QED
  BY <1>3, <1>4

LEMMA SettleReplacing ==
  ASSUME IInv, TodoOK, PlaceOK, OwnPlaces(file), SettleOK, Replacing, [Next]_vars
  PROVE  SettleOK'
<1>1. /\ Going /\ Going' /\ AtWorkOn /\ UNCHANGED <<file, todo, settled>>
      /\ Plugin \in ToSet(todo) /\ Plugin \notin Waiting
  <2>1. Going /\ Going' /\ AtWorkOn /\ AtWorkOn' /\ UNCHANGED <<file, todo, settled>>
    BY ReplacingFrame DEF AtWorkOn, Installing, Going
  <2>2. todo # <<>>
    BY <2>1, PluginEnabled
  <2> QED
    BY <2>1, <2>2, HeadTail DEF Waiting, IInv, TypeOK, TodoOK, Plugin
<1>2. Handled' = Handled /\ Enabled' = Enabled /\ Waiting' = Waiting
  BY <1>1, ReplacingFrame DEF Handled, Enabled, Waiting
<1>3. HandledOK'
  <2>1. \A p \in Handled : p \in Enabled /\ p # Plugin
    BY <1>1 DEF Handled
  <2> QED
    BY <1>1, <1>2, <2>1, OthersKept DEF SettleOK, HandledOK
<1>4. WaitingOK'
  BY <1>1, <1>2, OthersKept DEF SettleOK, WaitingOK
<1> QED
  BY <1>1, <1>3, <1>4, ReplacingAtHand DEF SettleOK, Outlook

LEMMA SettleMerge ==
  ASSUME IInv, TodoOK, SettleOK, MergeFragment
  PROVE  SettleOK'
<1>1. /\ todo' = Tail(todo) /\ pc = "merging" /\ pc' = "plugin"
      /\ UNCHANGED <<file, published, disk, stale, settled>>
  BY DEF MergeFragment, envVars, history
<1>2. todo # <<>> /\ Plugin \in Enabled
  BY <1>1, PluginEnabled DEF AtWorkOn
<1>3. ToSet(todo) = {Plugin} \cup ToSet(todo')
  BY <1>1, <1>2, HeadTail DEF IInv, TypeOK, TodoOK, Plugin, Going
<1>4. Enabled' = Enabled /\ Waiting' = Waiting
  BY <1>1 DEF Enabled, Waiting, AtWorkOn, Installing
<1>5. Handled' \subseteq Handled \cup {Plugin} /\ Handled \subseteq Enabled
  BY <1>3, <1>4 DEF Handled
<1>6. \A p \in Enabled : /\ Secure(p) => Secure(p)'
                         /\ Vacant(p) => Vacant(p)'
                         /\ Doomed(p) => Doomed(p)'
                         /\ Found(p)' <=> Found(p)
                         /\ Listed(p)' <=> Listed(p)
  BY <1>1 DEF Secure, Safe, Vacant, Doomed, Version, Place, Found, Listed
<1>7. HandledOK'
  BY <1>1, <1>2, <1>5, <1>6 DEF SettleOK, HandledOK, AtHandOK, Going
<1>8. WaitingOK'
  BY <1>1, <1>4, <1>6 DEF SettleOK, WaitingOK, Going
<1> QED
  BY <1>1, <1>7, <1>8 DEF SettleOK, Outlook, AtHandOK, Going, Installing

(* The sweep: what it takes was listed, and what was listed is no longer   *)
(* there when it is through.                                               *)
LEMMA SettleEnding ==
  ASSUME IInv, TodoOK, SettleOK, Ending
  PROVE  SettleOK'
<1>1. /\ Going /\ Going' /\ ~Installing' /\ pc' \notin {"fetching", "merging"}
      /\ todo = <<>> /\ UNCHANGED <<file, published, todo, settled>>
  BY EndingFrame DEF Going, Installing, TodoOK
<1>2. Handled' = Handled /\ Enabled' = Enabled /\ Waiting' = {} /\ Handled \subseteq Enabled
  BY <1>1 DEF Handled, Enabled, Waiting, AtWorkOn, ToSet
<1>3. \A p \in Enabled : Version(p)' = Version(p) /\ Place(p)' = Place(p)
  BY <1>1 DEF Version, Place
<1>4. ASSUME NEW p \in Enabled
      PROVE  /\ Secure(p) => Secure(p)'
             /\ Vacant(p) => Vacant(p)'
             /\ Doomed(p) => Doomed(p)' \/ Vacant(p)'
  <2>1. CASE OpenGlobalFile \/ WriteGlobalFile
    BY <1>3, <2>1 DEF OpenGlobalFile, WriteGlobalFile, runVars, Secure, Safe, Vacant, Doomed
  <2>2. ASSUME NEW h \in DOMAIN stale, Sweep(h)
        PROVE  /\ Secure(p) => Secure(p)'
               /\ Vacant(p) => Vacant(p)'
               /\ Doomed(p) => Doomed(p)'
    <3>1. /\ pc = "sweeping" /\ pc' = "removing" /\ target' = stale[h] /\ stale' = Pop(h)
          /\ DOMAIN disk' = DOMAIN disk
          /\ \A d \in DOMAIN disk : d # stale[h] => disk'[d] = disk[d]
      BY <2>2 DEF Sweep
    <3>2. Secure(p) => Secure(p)'
      BY <3>1 DEF Secure, Safe, Pop
    <3>3. Doomed(p) => Doomed(p)'
      BY <1>3, <3>1 DEF Doomed, Pop
    <3> QED
      BY <1>3, <3>1, <3>2, <3>3 DEF Vacant
  <2>3. CASE FinishSweep
    <3>1. /\ pc = "removing" /\ pc' = "sweeping" /\ stale' = stale
          /\ disk' = [d \in DOMAIN disk \ {target} |-> disk[d]]
      BY <2>3 DEF FinishSweep
    <3>2. Secure(p) => Secure(p)'
      BY <3>1 DEF Secure, Safe
    <3> QED
      BY <1>3, <3>1, <3>2 DEF Vacant, Doomed
  <2> QED
    BY <2>1, <2>2, <2>3 DEF Ending
<1>5. HandledOK'
  BY <1>1, <1>2, <1>4 DEF SettleOK, HandledOK
<1>6. WaitingOK'
  BY <1>2 DEF WaitingOK
<1>7. AtHandOK'
  BY <1>1 DEF AtHandOK, Installing
<1> QED
  BY <1>1, <1>5, <1>6, <1>7 DEF SettleOK, Outlook

LEMMA SettleStep ==
  ASSUME IInv, TodoOK, PlaceOK, OwnPlaces(file) => SettleOK, [Next]_vars, OwnPlaces(file')
  PROVE  SettleOK'
<1>1. CASE ~Going' /\ settled' = 0
  BY <1>1, SettleIdle
<1>2. CASE Going' \/ settled' # 0
  <2>1. UNCHANGED file
    BY <1>2, EnvFrame, EndFrame, ChosenFrame, ReplacingFrame, EndingFrame, NextCases
       DEF Begin, SkipDisabled, MergeFragment, Vars, envVars, Going
  <2>2. OwnPlaces(file) /\ SettleOK
    BY <2>1
  <2>3. EnvStart => Going
    BY <1>2, EnvFrame DEF Going
  <2>4. RunEnds => Finish
    BY <1>2, EndFrame DEF Exit, Going
  <2>5. UNCHANGED Vars => SettleOK'
    BY <2>2 DEF Vars, SettleOK, Outlook, HandledOK, WaitingOK, AtHandOK, Going, Installing,
       Handled, Waiting, Enabled, AtWorkOn, Secure, SecureElsewhere, Safe, Vacant, Doomed,
       Version, Place, Found, Listed, Freed, Plugin
  <2> QED
    BY <2>2, <2>3, <2>4, <2>5, NextCases, SettleEnv, SettleFinish, SettleBegin, SettleSkip,
       SettleChosen, SettleReplacing, SettleMerge, SettleEnding
<1> QED
  BY <1>1, <1>2

(* After a second successful run with the same configuration every enabled *)
(* plugin is there, whatever came before it, unless two of them take turns *)
(* in one directory or an rmtree was killed halfway.                       *)
THEOREM SettledInstallsAlways == Spec => []SettledInstalls
<1> DEFINE Inv == PlaceOK /\ (OwnPlaces(file) => SettleOK)
<1>1. Init => Inv
  BY PlaceInit, SettleInit
<1>2. IInv /\ TodoOK /\ Inv /\ [Next]_vars => Inv'
  <2> SUFFICES ASSUME IInv, TodoOK, Inv, [Next]_vars
               PROVE  PlaceOK' /\ (OwnPlaces(file') => SettleOK')
    OBVIOUS
  <2> QED
    BY PlaceStep, SettleStep
<1>3. IInv /\ Inv => SettledInstalls
  <2> SUFFICES ASSUME IInv, SettleOK, pc = "idle", settled = 2, "rmtree_killed" \notin mishaps,
                      NEW p \in EnabledOf(file)
               PROVE  Installed(p)
    BY DEF SettledInstalls
  <2>1. PICK d \in DOMAIN disk : disk[d].hash = HashOf(p)
    BY DEF SettleOK, Outlook, Going, Enabled, Secure
  <2>2. HashOf(p) \in Hashes
    BY EnabledEntries, HashFields DEF Enabled
  <2>3. disk[d].content # Partial
    BY <2>1, <2>2, NotAHash DEF IInv, HashedComplete
  <2> QED
    BY <2>1, <2>3 DEF Installed
<1> QED
  BY <1>1, <1>2, <1>3, TodoAlways, PTL DEF Spec

-----------------------------------------------------------------------------
(* Nothing is downloaded twice.                                            *)

LEMMA QuietChosen ==
  ASSUME IInv, TodoOK, QuietOK, settled = 2, Unforced, Chosen
  PROVE  SkipInstalled
<1>1. /\ pc = "plugin" /\ todo # <<>> /\ ~Disabled(Plugin)
  BY ChosenFrame
<1>2. Plugin \in Enabled /\ Plugin \in Waiting /\ Going
  BY <1>1, PluginEnabled, HeadTail DEF Waiting, AtWorkOn, Installing, IInv, TypeOK, TodoOK, Going,
     Plugin
<1>3. Known /\ ~Forced(Plugin)
  BY <1>2 DEF QuietOK, Found, Listed, Known, Unforced
<1> QED
  BY <1>3 DEF Chosen, CompareDigest, ForceDownload, Download

(* What is swept is not of an enabled plugin.                              *)
LEMMA QuietSweep ==
  ASSUME IInv, TodoOK, PlaceOK, QuietOK, settled = 2, Unforced, NEW h \in DOMAIN stale, Sweep(h)
  PROVE  /\ disk[stale[h]].hash = h
         /\ \A p \in Enabled : HashOf(p) # h
<1>1. todo = <<>>
  BY DEF Sweep, TodoOK
<1>2. Handled = Enabled
  BY <1>1 DEF Handled, ToSet
<1> QED
  BY <1>2 DEF QuietOK, PlaceOK

LEMMA QuietStep ==
  ASSUME IInv, TodoOK, PlaceOK, SettleOK, QuietOK, [Next]_vars, settled' = 2, Unforced', file' = file
  PROVE  QuietOK'
<1>1. Unforced /\ Enabled' = Enabled /\ \A p \in Enabled : p \in Entries /\ HashOf(p) \in Hashes
  BY EnabledEntries, HashFields DEF Unforced, Enabled
<1>2. ~EnvStart /\ (RunEnds => Finish)
  BY EnvFrame, EndFrame
<1>3. CASE Finish
  BY <1>3 DEF Finish, Exit, QuietOK, Going, Installing
<1>4. CASE ~Finish
  <2>1. settled = 2
    BY <1>2, <1>4, ChosenFrame, ReplacingFrame, EndingFrame, NextCases
       DEF Begin, SkipDisabled, MergeFragment, Vars, history
  <2>2. CASE Begin
    <3>1. /\ pc = "idle" /\ pc' = "plugin" /\ disk' = disk
      BY <2>2 DEF Begin
    <3>2. \A h \in DOMAIN stale' : disk'[stale'[h]].hash = h
      BY <2>2, <3>1, ScanOK
    <3>3. \A p \in Enabled : HashOf(p) \in DOMAIN stale'
      BY <1>1, <2>1, <2>2, <3>1, ScanAll, NotAHash DEF SettleOK, Outlook, Going, Secure
    <3> QED
      BY <1>1, <3>1, <3>2, <3>3 DEF QuietOK, Found, Listed, Installing
  <2>3. CASE UNCHANGED Vars
    BY <2>1, <2>3, <1>1 DEF Vars, QuietOK, Installing, Going, Waiting, AtWorkOn, Enabled, Found,
       Listed, OfEnabled
  <2>4. CASE SkipDisabled \/ MergeFragment
    <3>1. /\ pc \in {"plugin", "merging"} /\ pc' = "plugin" /\ UNCHANGED <<disk, stale>> /\ Going
      BY <2>4 DEF SkipDisabled, AtPlugin, MergeFragment, Going
    <3>2. Waiting' \subseteq Waiting
      BY <2>4, <3>1, WaitingShrinks DEF Begin, Going
    <3> QED
      BY <1>1, <2>1, <3>1, <3>2 DEF QuietOK, Installing, Found, Listed
  <2>5. CASE Chosen
    <3>1. SkipInstalled
      BY <1>1, <2>1, <2>5, QuietChosen
    <3>2. pc' = "merging" /\ disk' = disk /\ stale' = Pop(HashOf(Plugin)) /\ pc = "plugin"
      BY <3>1 DEF SkipInstalled, Decide, AtPlugin
    <3>3. Waiting' \subseteq Waiting /\ (\A p \in Waiting' : HashOf(p) # HashOf(Plugin)) /\ Going
      BY <2>5, <3>2, WaitingShrinks DEF Begin, Going
    <3> QED
      BY <1>1, <2>1, <3>2, <3>3 DEF QuietOK, Installing, Found, Listed, Pop
  <2>6. ~Replacing
    BY <1>1, <2>1 DEF QuietOK, Replacing, Fetch, Clear, Extract, FinishExtract, WriteDigest,
                      OpenHashFile, WriteHash, Installing
  <2>7. CASE Ending
    <3>1. Waiting' = {} /\ ~Installing' /\ pc' # "fetching"
      BY <2>7, EndingFrame DEF Waiting, AtWorkOn, Installing, TodoOK, ToSet
    <3>2. CASE OpenGlobalFile \/ WriteGlobalFile
      BY <1>1, <2>1, <3>1, <3>2 DEF OpenGlobalFile, WriteGlobalFile, QuietOK, runVars
    <3>3. ASSUME NEW h \in DOMAIN stale, Sweep(h)
          PROVE  QuietOK'
      <4>1. /\ target' = stale[h] /\ stale' = Pop(h)
            /\ disk'[stale[h]].hash \in {h, NoFile}
            /\ \A d \in DOMAIN disk : d # stale[h] => disk'[d] = disk[d]
        <5>1. PICK r \in Ruins(disk[stale[h]]) : disk' = [disk EXCEPT ![stale[h]] = r]
          BY <3>3 DEF Sweep
        <5>2. stale[h] \in DOMAIN disk /\ disk[stale[h]].hash = h
          BY <1>1, <2>1, <3>3, QuietSweep DEF IInv, TypeOK, StaleOK
        <5> QED
          BY <3>3, <5>1, <5>2 DEF Sweep, Ruins
      <4>2. \A k \in DOMAIN stale' : disk'[stale'[k]].hash = k
        BY <1>1, <2>1, <4>1 DEF QuietOK, Pop, IInv, TypeOK, StaleOK
      <4>3. ~OfEnabled(target)'
        BY <1>1, <2>1, <3>3, <4>1, QuietSweep, NotAHash DEF OfEnabled, Enabled
      <4> QED
        BY <3>1, <4>2, <4>3 DEF QuietOK
    <3>4. CASE FinishSweep
      <4>1. /\ pc' = "sweeping" /\ stale' = stale /\ pc = "removing"
            /\ disk' = [d \in DOMAIN disk \ {target} |-> disk[d]]
        BY <3>4 DEF FinishSweep
      <4>2. \A k \in DOMAIN stale : stale[k] # target /\ stale[k] \in DOMAIN disk
        BY <4>1 DEF IInv, TargetOK, TypeOK, StaleOK
      <4> QED
        BY <1>1, <2>1, <3>1, <4>1, <4>2 DEF QuietOK
    <3> QED
      BY <2>7, <3>2, <3>3, <3>4 DEF Ending
  <2> QED
    BY <1>2, <1>4, <2>2, <2>3, <2>4, <2>5, <2>6, <2>7, NextCases
<1> QED
  BY <1>3, <1>4

LEMMA QuietDirs ==
  ASSUME IInv, TodoOK, PlaceOK, QuietOK, [Next]_vars, settled = 2, Unforced
  PROVE  /\ DOMAIN disk' \subseteq DOMAIN disk
         /\ \A d \in DOMAIN disk : OfEnabled(d) => d \in DOMAIN disk' /\ disk'[d] = disk[d]
<1>1. ~Replacing
  BY DEF QuietOK, Replacing, Fetch, Clear, Extract, FinishExtract, WriteDigest, OpenHashFile,
         WriteHash, Installing
<1>2. CASE OpenGlobalFile \/ WriteGlobalFile \/ disk' = disk
  BY <1>2 DEF OpenGlobalFile, WriteGlobalFile
<1>3. ASSUME NEW h \in DOMAIN stale, Sweep(h)
      PROVE  /\ DOMAIN disk' \subseteq DOMAIN disk
             /\ \A d \in DOMAIN disk : OfEnabled(d) => d \in DOMAIN disk' /\ disk'[d] = disk[d]
  BY <1>3, QuietSweep DEF Sweep, OfEnabled, Enabled
<1>4. CASE FinishSweep
  BY <1>4 DEF FinishSweep, QuietOK
<1> QED
  BY <1>1, <1>2, <1>3, <1>4, OtherDirs DEF Ending

(* Plugins are downloaded and extracted only once: from the second         *)
(* successful run on a run makes no directory and leaves those of the      *)
(* enabled plugins alone, if none of these is pulled every time.           *)
THEOREM OnlyOnceAlways == Spec => OnlyOnce
<1> DEFINE Inv == PlaceOK /\ (OwnPlaces(file) => SettleOK /\ QuietOK)
<1>1. Init => Inv
  BY PlaceInit, SettleInit
<1>2. IInv /\ TodoOK /\ Inv /\ [Next]_vars => Inv'
  <2> SUFFICES ASSUME IInv, TodoOK, Inv, [Next]_vars
               PROVE  PlaceOK' /\ (OwnPlaces(file') => SettleOK' /\ QuietOK')
    OBVIOUS
  <2>1. PlaceOK' /\ (OwnPlaces(file') => SettleOK')
    BY PlaceStep, SettleStep
  <2>2. settled' = 2 => file' = file
    BY EnvFrame, EndFrame, ChosenFrame, ReplacingFrame, EndingFrame, NextCases
       DEF Begin, SkipDisabled, MergeFragment, Vars, envVars
  <2>3. OwnPlaces(file') => QuietOK'
    <3>1. CASE settled' = 2 /\ Unforced'
      BY <2>2, <3>1, QuietStep
    <3>2. CASE ~(settled' = 2 /\ Unforced')
      BY <3>2 DEF QuietOK
    <3> QED
      BY <3>1, <3>2
  <2> QED
    BY <2>1, <2>3
<1>3. IInv /\ TodoOK /\ Inv /\ [Next]_vars =>
        [settled = 2 /\ OwnPlaces(file) /\ (\A p \in EnabledOf(file) : ~Forced(p)) =>
           /\ DOMAIN disk' \subseteq DOMAIN disk
           /\ \A d \in DOMAIN disk : OfEnabled(d) => d \in DOMAIN disk' /\ disk'[d] = disk[d]]_vars
  BY QuietDirs DEF Unforced, Enabled
<1> QED
  BY <1>1, <1>2, <1>3, TodoAlways, PTL DEF Spec, OnlyOnce
=============================================================================
