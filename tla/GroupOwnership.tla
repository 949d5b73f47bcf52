--------------------------- MODULE GroupOwnership ---------------------------
(***************************************************************************)
(* TransitiveGroupOwnershipResolver of packages/backend: one sign-in       *)
(* collects the groups of a user, asking the catalog for one group after   *)
(* another. Each request is an await, so the catalog changes between two   *)
(* of them; the relations of groups may have cycles and name entities that *)
(* are not there.                                                          *)
(*                                                                         *)
(* The lists the code loops over are sets here, taken in any order.        *)
(***************************************************************************)
EXTENDS Naturals, Sequences, FiniteSets

CONSTANTS
  Refs,           \* the entity refs that occur as targets of relations
  GroupRefs,      \* those that start with group:
  User,           \* the ref of the user who signs in
  Relations,      \* the sets of targets that the user's memberOf relations may have
  Catalogs        \* the contents of the catalog, see below

(* A catalog is a function from the group entities that exist to the       *)
(* targets of their childOf relations.                                     *)
ASSUME RefsAssumption == IsFiniteSet(Refs) /\ GroupRefs \subseteq Refs /\ User \notin Refs
ASSUME RelationsAssumption == Relations \subseteq SUBSET Refs
ASSUME CatalogsAssumption ==
  \A c \in Catalogs : DOMAIN c \subseteq Refs /\ c \in [DOMAIN c -> SUBSET Refs]

VARIABLES
  transitive,       \* includeTransitiveGroupOwnership
  memberOf,         \* the targets of the user's memberOf relations
  catalog,          \* what the catalog holds now
  pc,               \* "start", "looping", "requesting", "answered", "rejected"
  stack,            \* the calls of resolveParentGroups, the innermost last
  processedGroups,  \* the set they share
  current,          \* the group being asked for
  answer,           \* ownershipEntityRefs
  always, ever      \* history: the childOf relations there throughout, at some time

vars == <<transitive, memberOf, catalog, pc, stack, processedGroups, current, answer,
          always, ever>>

Edges(c) == {e \in Refs \X Refs : e[1] \in DOMAIN c /\ e[2] \in c[e[1]]}

Frame(refs) == [groupRefs |-> refs, found |-> {}]

\* Mutant: every memberOf target counts.
MembershipUnfiltered == memberOf

\* membershipRefs: of the memberOf relations those whose target is a group
Membership == memberOf \cap GroupRefs

Init ==
  /\ transitive \in BOOLEAN
  /\ memberOf \in Relations
  /\ catalog \in Catalogs
  /\ pc = "start"
  /\ stack = <<>> /\ processedGroups = {} /\ current = User
  /\ answer = {}
  /\ always = Edges(catalog) /\ ever = Edges(catalog)

-----------------------------------------------------------------------------
(* The catalog is edited or refreshed while the sign-in waits for it.      *)
ChangeCatalog ==
  /\ catalog' \in Catalogs \ {catalog}
  /\ always' = always \cap Edges(catalog')
  /\ ever' = ever \cup Edges(catalog')
  /\ UNCHANGED <<transitive, memberOf, pc, stack, processedGroups, current, answer>>

(* resolveOwnershipEntityRefs without the option: the direct groups.       *)
AnswerDirect ==
  /\ pc = "start" /\ ~transitive
  /\ pc' = "answered"
  /\ answer' = {User} \cup Membership
  /\ UNCHANGED <<transitive, memberOf, catalog, stack, processedGroups, current, always, ever>>

ResolveParentGroups ==
  /\ pc = "start" /\ transitive
  /\ pc' = "looping"
  /\ stack' = <<Frame(Membership)>>
  /\ always' = Edges(catalog) /\ ever' = Edges(catalog)
  /\ UNCHANGED <<transitive, memberOf, catalog, processedGroups, current, answer>>

-----------------------------------------------------------------------------
(* The loop of the innermost call.                                         *)

Depth == Len(stack)

Top == stack[Depth]

\* Mutant: the skipped group stays where it is.
SkipProcessedStays(g) ==
  /\ pc = "looping"
  /\ g \in Top.groupRefs /\ g \in processedGroups
  /\ UNCHANGED vars

SkipProcessed(g) ==
  /\ pc = "looping"
  /\ g \in Top.groupRefs /\ g \in processedGroups
  /\ stack' = [stack EXCEPT ![Depth].groupRefs = @ \ {g}]
  /\ UNCHANGED <<transitive, memberOf, catalog, pc, processedGroups, current, answer,
                 always, ever>>

\* Mutant: a group is not remembered before its parents are asked for.
VisitUnmarked(g) ==
  /\ pc = "looping"
  /\ g \in Top.groupRefs /\ g \notin processedGroups
  /\ pc' = "requesting"
  /\ current' = g
  /\ UNCHANGED processedGroups
  /\ stack' = [stack EXCEPT ![Depth] = [groupRefs |-> @.groupRefs \ {g},
                                        found |-> @.found \cup {g}]]
  /\ UNCHANGED <<transitive, memberOf, catalog, answer, always, ever>>

Visit(g) ==
  /\ pc = "looping"
  /\ g \in Top.groupRefs /\ g \notin processedGroups
  /\ pc' = "requesting"
  /\ current' = g
  /\ processedGroups' = processedGroups \cup {g}
  /\ stack' = [stack EXCEPT ![Depth] = [groupRefs |-> @.groupRefs \ {g},
                                        found |-> @.found \cup {g}]]
  /\ UNCHANGED <<transitive, memberOf, catalog, answer, always, ever>>

(* The reply of getEntitiesByRefs: no such group, on with the loop.        *)
NoSuchGroup ==
  /\ pc = "requesting"
  /\ current \notin DOMAIN catalog
  /\ pc' = "looping"
  /\ UNCHANGED <<transitive, memberOf, catalog, stack, processedGroups, current, answer,
                 always, ever>>

(* The reply is a group: resolveParentGroups calls itself with its parents *)
Descend ==
  /\ pc = "requesting"
  /\ current \in DOMAIN catalog
  /\ pc' = "looping"
  /\ stack' = Append(stack, Frame(catalog[current]))
  /\ UNCHANGED <<transitive, memberOf, catalog, processedGroups, current, answer,
                 always, ever>>

\* Mutant: what the inner call found is dropped.
ReturnDropped ==
  /\ pc = "looping" /\ Top.groupRefs = {} /\ Depth > 1
  /\ stack' = [i \in 1 .. Depth - 1 |-> stack[i]]
  /\ UNCHANGED <<transitive, memberOf, catalog, pc, processedGroups, current, answer,
                 always, ever>>

(* An inner call returns and its groups join those of the outer one.       *)
Return ==
  /\ pc = "looping" /\ Top.groupRefs = {} /\ Depth > 1
  /\ stack' = [i \in 1 .. Depth - 1 |->
                 IF i = Depth - 1
                 THEN [stack[i] EXCEPT !.found = @ \cup Top.found]
                 ELSE stack[i]]
  /\ UNCHANGED <<transitive, memberOf, catalog, pc, processedGroups, current, answer,
                 always, ever>>

Answer ==
  /\ pc = "looping" /\ Top.groupRefs = {} /\ Depth = 1
  /\ pc' = "answered"
  /\ stack' = <<>>
  /\ answer' = {User} \cup Top.found
  /\ UNCHANGED <<transitive, memberOf, catalog, processedGroups, current, always, ever>>

(* A token or a request fails, and with it the whole sign-in.              *)
Reject ==
  /\ pc = "requesting"
  /\ pc' = "rejected"
  /\ stack' = <<>>
  /\ UNCHANGED <<transitive, memberOf, catalog, processedGroups, current, answer,
                 always, ever>>

Resolve ==
  \/ AnswerDirect \/ ResolveParentGroups
  \/ \E g \in Refs : SkipProcessed(g) \/ Visit(g)
  \/ NoSuchGroup \/ Descend \/ Return \/ Answer \/ Reject

Next == Resolve \/ ChangeCatalog

Spec == Init /\ [][Next]_vars

-----------------------------------------------------------------------------
Running == pc \in {"looping", "requesting"}

TypeOK ==
  /\ transitive \in BOOLEAN /\ memberOf \in Relations /\ catalog \in Catalogs
  /\ pc \in {"start", "looping", "requesting", "answered", "rejected"}
  /\ stack \in Seq([groupRefs : SUBSET Refs, found : SUBSET Refs])
  /\ Running <=> stack # <<>>
  /\ processedGroups \subseteq Refs
  /\ current \in Refs \cup {User}
  /\ answer \subseteq Refs \cup {User}
  /\ always \subseteq ever /\ ever \subseteq Refs \X Refs

Closed(S, relations) == \A e \in relations : e[1] \in S => e[2] \in S

(* docs/auth.md: the parents of the user's groups are included. The answer *)
(* holds the direct groups, and every parent that was in the catalog for   *)
(* the whole resolution, through cycles and shared parents alike.          *)
Complete ==
  pc = "answered" /\ transitive =>
    memberOf \cap GroupRefs \subseteq answer /\ Closed(answer, always)

(* Nothing else is in it: each ref of the answer is a direct group or is   *)
(* reached from one over relations that the catalog had at some time; any  *)
(* set that holds the former and is closed under the latter contains it.   *)
Justified ==
  pc = "answered" =>
    \A S \in SUBSET Refs :
      memberOf \cap GroupRefs \subseteq S /\ (transitive => Closed(S, ever))
        => answer \subseteq S \cup {User}

(* However the relations run in circles and change, the calls nest no      *)
(* deeper than there are groups.                                           *)
DepthBounded == Depth <= Cardinality(Refs) + 1
=============================================================================
