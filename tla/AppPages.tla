------------------------------ MODULE AppPages ------------------------------
(***************************************************************************)
(* Parts of the app, one of which is looked at: the sidebar, an entity's   *)
(* page, the table of plugins, the learning paths, and the shell that is   *)
(* around all pages. They share nothing but the registry, which does not   *)
(* change: the others rest where they begin.                               *)
(***************************************************************************)
EXTENDS SidebarMenu, EntityPage, DynamicPluginsTable, LearningPaths, AppShell

VARIABLE viewing    \* what is looked at

pageVars == <<viewing, vars, entityVars, tableVars, learningVars, shellVars>>

PagesInit ==
  /\ viewing \in {"sidebar", "entity", "plugins", "learning", "shell"}
  /\ Init /\ (viewing # "sidebar" =>
       ~showAdministration /\ frontend = CHOOSE f \in Frontends : TRUE)
  /\ EntityInit /\ (viewing # "entity" =>
       /\ entity = CHOOSE e \in Entities : TRUE
       /\ overrides = CHOOSE s \in TabSets : TRUE
       /\ mountPoints = CHOOSE m \in MountPoints : TRUE)
  /\ TableInit /\ (viewing # "plugins" => loaded = CHOOSE l \in LoadedLists : TRUE)
  /\ LearningInit
  /\ shell \in IF viewing = "shell" THEN Shells ELSE {CHOOSE s \in Shells : TRUE}
  /\ location \in IF viewing = "shell" THEN Paths(shell) ELSE {"/catalog"}
  /\ ShellInit

Only(page) ==
  /\ viewing = page /\ UNCHANGED viewing
  /\ page # "sidebar" => UNCHANGED vars
  /\ page # "entity" => UNCHANGED entityVars
  /\ page # "plugins" => UNCHANGED tableVars
  /\ page # "learning" => UNCHANGED learningVars
  /\ page # "shell" => UNCHANGED shellVars

PagesNext ==
  \/ Next /\ Only("sidebar")
  \/ EntityNext /\ Only("entity")
  \/ TableNext /\ Only("plugins")
  \/ LearningNext /\ Only("learning")
  \/ ShellNext /\ Only("shell")

(* The requests of the learning paths end, and effects are run.            *)
PagesSpec ==
  /\ PagesInit /\ [][PagesNext]_pageVars
  /\ WF_pageVars(LearningNext /\ Only("learning"))

-----------------------------------------------------------------------------
(* The page of learning paths shows the paths of the proxy, those of the   *)
(* file or an error in the end, whichever requests fail; except when the   *)
(* proxy answers null, which is no error and no value.                     *)
LearningEnds ==
  viewing = "learning" ~> (api = "nothing" \/ LearningPathCards \in {"api", "file", "error"})
=============================================================================
