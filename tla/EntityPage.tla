----------------------------- MODULE EntityPage -----------------------------
(***************************************************************************)
(* The page of a catalog entity: which tabs it has and in which order, and *)
(* which cards are on them, from the defaults, the plugins' overrides and  *)
(* mount points and their conditions; and the items that plugins add to    *)
(* its context menu.                                                       *)
(***************************************************************************)
EXTENDS Integers, Sequences, SequencesExt, FiniteSets, FiniteSetsExt, StableSort

CONSTANTS
  Entities,     \* the entities one may look at: kind, type, annotations, marks
  TabSets,      \* the plugins' overrides, each a sequence of tabs, a path at most once
  MountPoints,  \* the registries' mount points: name -> sequence of cards
  MenuItems     \* the indices of the elements at entity.context.menu

\* Entities have a mark for each warning they call for, and for links.
ASSUME EntitiesAssumption ==
  \A e \in Entities : DOMAIN e = {"kind", "type", "annotations", "marks"}
ASSUME TabSetsAssumption ==
  \A s \in TabSets :
    /\ s \in Seq([path : {t.path : t \in ToSet(s)}, mountPoint : {t.mountPoint : t \in ToSet(s)},
                   priority : Int])
    /\ \A i, j \in DOMAIN s : s[i].path = s[j].path => i = j
\* A card has the quantifier and the tests of its condition.
ASSUME MountPointsAssumption ==
  \A m \in MountPoints : \A p \in DOMAIN m : \A c \in ToSet(m[p]) :
    "if" \in DOMAIN c /\ c.if.tests \in Seq(ToSet(c.if.tests))

VARIABLES
  entity, overrides, mountPoints,
  openStates,   \* the state of the menu's elements, as set last
  rendered,     \* as of the last render, which the handlers close over
  wanted,       \* history: what the clicks amount to
  touched, lost \* history: elements changed since that render; two of them in one

entityVars == <<entity, overrides, mountPoints, openStates, rendered, wanted, touched, lost>>

Tab(path, mountPoint) == [path |-> path, mountPoint |-> mountPoint, priority |-> 0]

DefaultTabs == <<
  Tab("/", "entity.page.overview"), Tab("/topology", "entity.page.topology"),
  Tab("/issues", "entity.page.issues"), Tab("/pr", "entity.page.pull-requests"),
  Tab("/ci", "entity.page.ci"), Tab("/cd", "entity.page.cd"),
  Tab("/kubernetes", "entity.page.kubernetes"),
  Tab("/image-registry", "entity.page.image-registry"),
  Tab("/monitoring", "entity.page.monitoring"), Tab("/lighthouse", "entity.page.lighthouse"),
  Tab("/api", "entity.page.api"), Tab("/dependencies", "entity.page.dependencies"),
  Tab("/docs", "entity.page.docs"), Tab("/definition", "entity.page.definition"),
  Tab("/system", "entity.page.diagram") >>

-----------------------------------------------------------------------------
(* mergeTabs: an override takes the place of the tab of its path, the      *)
(* others follow; no priority is one of 0, a negative one takes the tab    *)
(* away; the sort is stable.                                               *)
MergedTabs(extra) ==
  LET overriding(t) == {i \in DOMAIN extra : extra[i].path = t.path}
      merged(t) == IF overriding(t) = {} THEN t ELSE extra[CHOOSE i \in overriding(t) : TRUE]
      all == [i \in DOMAIN DefaultTabs |-> merged(DefaultTabs[i])] \o extra
      new(i) == \A j \in DOMAIN DefaultTabs : DefaultTabs[j].path # all[i].path
      places == {i \in DOMAIN all : all[i].priority >= 0 /\ (i \in DOMAIN DefaultTabs \/ new(i))}
      before == {p \in places \X places :
                   \/ all[p[1]].priority > all[p[2]].priority
                   \/ all[p[1]].priority = all[p[2]].priority /\ p[1] < p[2]}
  IN  Taken(all, Arranged(places, before))

(* The rule a tab of the defaults has, whatever overrides it.              *)
TabRules(path, e) ==
  CASE path = "/api" -> e.type = "service" /\ e.kind = "component"
    [] path = "/dependencies" -> e.kind = "component"
    [] path = "/definition" -> e.kind = "api"
    [] path = "/system" -> e.kind = "system"

HasRule(path) == path \in {"/api", "/dependencies", "/definition", "/system"}

TabChildren == {"/", "/api", "/dependencies", "/definition", "/system"}

(* What those children show: the overview has warnings, the about card     *)
(* with the links, and cards of the entity's kind.                         *)
OverviewHead(e) ==
  {"about"} \cup (e.marks \cap {"orphan", "relationWarnings", "processingErrors", "links"})

OverviewCards(e) ==
  CASE e.kind = "domain" -> {"graph", "systems"}
    [] e.kind = "group" -> {"groupProfile", "ownership", "members"}
    [] e.kind = "user" -> {"userProfile", "ownership"}
    [] e.kind = "api" -> {"graph", "providers", "consumers"}
    [] OTHER -> {}

OverviewParts(e) ==
  CASE e.kind = "system" -> {"graph", "components", "apis", "resources"}
    [] e.kind = "resource" -> {"graph"}
    [] OTHER -> {}

ApiTabContent(e) ==
  IF e.type = "service" /\ e.kind = "component" THEN {"providedApis", "consumedApis"} ELSE {}

DependenciesTabContent(e) ==
  IF e.kind = "component"
  THEN {"graph", "subcomponents", "dependsOn", "providedApis", "consumedApis"} ELSE {}

DefinitionTabContent(e) == IF e.kind = "api" THEN {"definition"} ELSE {}

DiagramTabContent(e) == IF e.kind = "system" THEN {"diagram"} ELSE {}

StaticContent(path, e) ==
  CASE path = "/" -> OverviewHead(e) \cup OverviewCards(e) \cup OverviewParts(e)
    [] path = "/api" -> ApiTabContent(e)
    [] path = "/dependencies" -> DependenciesTabContent(e)
    [] path = "/definition" -> DefinitionTabContent(e)
    [] path = "/system" -> DiagramTabContent(e)
    [] OTHER -> {}

-----------------------------------------------------------------------------
(* Conditions: "yes", "no", or a plugin's function that "throws".          *)

YesIf(b) == IF b THEN "yes" ELSE "no"

(* conditionsArrayMapper: a function is known by what it says of a kind,   *)
(* and may look up an API, which only a card's test gives it; one that was *)
(* not found is an object without a test.                                  *)
Outcome(test, e, context) ==
  CASE test.is = "kind" -> YesIf(e.kind \in test.of)
    [] test.is = "type" -> YesIf(e.type \in test.of)
    [] test.is = "annotation" -> YesIf(test.of \in e.annotations)
    [] test.is = "function" ->
         IF test.looksUpApi /\ ~context THEN "throws"
         ELSE IF e.kind \in DOMAIN test.of THEN test.of[e.kind] ELSE "no"
    [] OTHER -> "no"

FirstOtherThan(skipped, outcomes) ==
  LET others == {i \in DOMAIN outcomes : outcomes[i] # skipped}
  IN IF others = {} THEN skipped ELSE outcomes[Min(others)]

(* configIfToCallable: every and some stop at the first that decides, a    *)
(* filter asks them all.                                                   *)
ConfigIf(condition, e, context) ==
  LET outcomes == [i \in DOMAIN condition.tests |-> Outcome(condition.tests[i], e, context)]
  IN CASE condition.quantifier = "allOf" -> FirstOtherThan("yes", outcomes)
       [] condition.quantifier = "anyOf" -> FirstOtherThan("no", outcomes)
       [] condition.quantifier = "oneOf" ->
            IF "throws" \in ToSet(outcomes) THEN "throws"
            ELSE YesIf(Cardinality({i \in DOMAIN outcomes : outcomes[i] = "yes"}) = 1)
       [] OTHER -> "yes"

(* errorWrappedCondition *)
Satisfied(condition, e, context) == ConfigIf(condition, e, context) = "yes"

CardsAt(mountPoint) ==
  IF mountPoint \in DOMAIN mountPoints THEN mountPoints[mountPoint] ELSE <<>>

VisibleCards(mountPoint, e) == {c \in ToSet(CardsAt(mountPoint)) : Satisfied(c.if, e, TRUE)}

\* Mutant: a tab that has cards is shown, whatever their conditions.
TabShownWithCards(tab, e) ==
  \/ IF HasRule(tab.path) THEN TabRules(tab.path, e) ELSE tab.path \in TabChildren
  \/ CardsAt(tab.mountPoint) # <<>>

(* dynamicEntityTab: by the tab's rule, or its children if it has none, or *)
(* one of the cards, whose conditions get no context here.                 *)
TabShown(tab, e) ==
  \/ IF HasRule(tab.path) THEN TabRules(tab.path, e) ELSE tab.path \in TabChildren
  \/ \E c \in ToSet(CardsAt(tab.mountPoint)) : Satisfied(c.if, e, FALSE)

(* The places of the tabs that are shown.                                  *)
ShownTabs(e) ==
  LET tabs == MergedTabs(overrides)
  IN {i \in DOMAIN tabs : TabShown(tabs[i], e)}

-----------------------------------------------------------------------------
Closed == [i \in MenuItems |-> FALSE]

EntityInit ==
  /\ entity \in Entities /\ overrides \in TabSets /\ mountPoints \in MountPoints
  /\ openStates = Closed /\ rendered = Closed
  /\ wanted = Closed /\ touched = {} /\ lost = FALSE

\* Mutant: the other elements are closed.
ChangeValueAtAlone(values, i, value) == [j \in MenuItems |-> IF j = i THEN value ELSE FALSE]

ChangeValueAt(values, i, value) == [values EXCEPT ![i] = value]

(* onClick of a menu item and onClose of its component: the array is made  *)
(* from the one of the last render.                                        *)
SetOpenState(i, value) ==
  /\ rendered[i] # value /\ i \notin touched
  /\ openStates' = ChangeValueAt(rendered, i, value)
  /\ wanted' = [wanted EXCEPT ![i] = value]
  /\ lost' = (lost \/ touched # {})
  /\ touched' = touched \cup {i}
  /\ UNCHANGED <<entity, overrides, mountPoints, rendered>>

RenderMenu ==
  /\ touched # {}
  /\ rendered' = openStates
  /\ touched' = {}
  /\ UNCHANGED <<entity, overrides, mountPoints, openStates, wanted, lost>>

(* The entity was changed in the catalog, and is loaded again.             *)
RefreshEntity ==
  /\ entity' \in Entities \ {entity}
  /\ UNCHANGED <<overrides, mountPoints, openStates, rendered, wanted, touched, lost>>

EntityNext == (\E i \in MenuItems, v \in BOOLEAN : SetOpenState(i, v)) \/ RenderMenu \/ RefreshEntity

-----------------------------------------------------------------------------
\* A condition that is met only when it can look up an API.
NeedsApi(card) == \E i \in DOMAIN card.if.tests :
                    card.if.tests[i].is = "function" /\ card.if.tests[i].looksUpApi

(* The rules of tabs and the conditions of cards agree, though they are    *)
(* evaluated apart: no tab is shown with nothing on it; every card whose   *)
(* condition is met, and looks up no API, is on a shown tab if its mount   *)
(* point has a tab, whatever the other cards' conditions throw; and the    *)
(* tabs are in the order of their priorities.                              *)
CardsShown ==
  LET tabs == MergedTabs(overrides)
      shown == ShownTabs(entity)
  IN /\ \A i \in shown :
          StaticContent(tabs[i].path, entity) # {} \/ VisibleCards(tabs[i].mountPoint, entity) # {}
     /\ \A m \in DOMAIN mountPoints :
          (\E c \in VisibleCards(m, entity) : ~NeedsApi(c)) =>
            \/ \E i \in shown : tabs[i].mountPoint = m
            \/ \A i \in DOMAIN tabs : tabs[i].mountPoint # m
     /\ \A i, j \in shown : i < j => tabs[i].priority >= tabs[j].priority

(* Every click and every close shows, until two of them fall between two   *)
(* renders.                                                                *)
MenuKept == ~lost => openStates = wanted
=============================================================================
