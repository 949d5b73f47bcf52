------------------------------ MODULE AppShell ------------------------------
(***************************************************************************)
(* AppBase: what is around the pages of the app. Plugins mount providers,  *)
(* which wrap the pages; each has an error boundary. Boundaries are        *)
(* React's, and external: the innermost one around an error takes it, puts *)
(* its fallback in place of its children, mounting anew what is in it, and *)
(* keeps the fallback for good; an error in the fallback goes to the next  *)
(* one; and one that no boundary takes leaves a blank page. Listeners and  *)
(* headers are beside the providers, each in a boundary of its own: an     *)
(* error of theirs concerns nothing else, and they are left out.           *)
(***************************************************************************)
EXTENDS Naturals, FiniteSets, Sequences, SequencesExt

CONSTANT Shells   \* what the plugins mount, see below

(* Providers have an id and the ids of the providers whose contexts they   *)
(* need, as a page has; a route also says whether its page is an           *)
(* extension, which has a boundary of its own.                             *)
ASSUME ShellsAssumption ==
  \A s \in Shells :
    /\ DOMAIN s = {"providers", "routes"}
    /\ s.providers \in Seq(ToSet(s.providers))
    /\ \A q \in ToSet(s.providers) : {"id", "needs"} \subseteq DOMAIN q
    /\ \A i, j \in DOMAIN s.providers : s.providers[i].id = s.providers[j].id => i = j

VARIABLES
  shell,      \* the mount points and routes of the registry
  location,   \* the page that is open
  out,        \* the providers whose boundary shows its fallback, by their depth
  blank,      \* nothing is shown any more
  threw,      \* history: the providers with an error of their own
  pageThrew,  \* history: a page that is no extension had one
  starved     \* history: such a page needed a provider that is not there

shellVars == <<shell, location, out, blank, threw, pageThrew, starved>>

Route(p, extension) == [path |-> p, needs |-> {}, extension |-> extension]

StaticRoutes == <<
  Route("/catalog", TRUE), Route("/catalog/:namespace/:kind/:name", TRUE), Route("/create", TRUE),
  Route("/api-docs", TRUE), Route("/catalog-import", TRUE), Route("/search", TRUE),
  Route("/settings", TRUE), Route("/catalog-graph", TRUE), Route("/learning-paths", FALSE) >>

Routes(s) == StaticRoutes \o s.routes

Paths(s) == {r.path : r \in ToSet(Routes(s))}

(* FlatRoutes takes the first route of a path.                             *)
PageAt(s, p) == SelectSeq(Routes(s), LAMBDA r : r.path = p)[1]

-----------------------------------------------------------------------------
(* ApplicationProvider                                                     *)

\* Mutant: reduce in place of reduceRight.
NestedReversed(s) == Reverse(s.providers)

(* The first provider is the outermost.                                    *)
Nested(s) == s.providers

Depths(s) == DOMAIN Nested(s)

\* The contexts there are at a depth, when the providers in o are out.
Contexts(s, o, depth) == {Nested(s)[i].id : i \in {j \in Depths(s) \ o : j < depth}}

(* Nothing throws for want of a context.                                   *)
Stands(s, o, p) ==
  /\ \A i \in Depths(s) \ o : Nested(s)[i].needs \subseteq Contexts(s, o, i)
  /\ PageAt(s, p).extension \/ PageAt(s, p).needs \subseteq Contexts(s, o, Len(Nested(s)) + 1)

(* What is mounted anew has no fallback at first; each error puts one in   *)
(* place, and those within it are anew again: as in counting, with the     *)
(* innermost for the lowest digit.                                         *)
Sooner(o, u) == \E d \in u \ o : \A e \in 1 .. d - 1 : e \in o <=> e \in u

Earliest(sets) == CHOOSE o \in sets : \A u \in sets \ {o} : Sooner(o, u)

\* How it may stand when the outer boundaries down to a depth are as given.
Within(s, outer, depth, p) ==
  {o \in SUBSET Depths(s) : o \cap (1 .. depth) = outer /\ Stands(s, o, p)}

CaughtAt(s, o, depth, p) == Within(s, (o \cap (1 .. depth - 1)) \cup {depth}, depth, p)

(* An error at a depth: the boundaries from there outwards, until it       *)
(* stands with the fallback of one, which renders its children still.      *)
Catch(s, o, depth, p) ==
  LET catching == {i \in 1 .. depth : CaughtAt(s, o, i, p) # {}}
  IN IF catching = {} THEN blank' = TRUE /\ UNCHANGED out
     ELSE /\ out' = Earliest(CaughtAt(s, o, CHOOSE i \in catching : \A j \in catching : j <= i, p))
          /\ UNCHANGED blank

(* The providers that work if those in t have an error: no provider of     *)
(* such a set does, and each needs others of the set that are around it.   *)
Working(s, t, set) ==
  \A i \in Depths(s) :
    s.providers[i].id \in set =>
      /\ s.providers[i].id \notin t
      /\ s.providers[i].needs \subseteq set \cap {s.providers[j].id : j \in 1 .. i - 1}

Unaffected(s, t) ==
  UNION {set \in SUBSET {q.id : q \in ToSet(s.providers)} : Working(s, t, set)}

Starving(s, p, t) == ~PageAt(s, p).extension /\ ~(PageAt(s, p).needs \subseteq Unaffected(s, t))

-----------------------------------------------------------------------------
ShellInit ==
  /\ shell \in Shells /\ location \in Paths(shell)
  /\ LET stands == Within(shell, {}, 0, location)
     IN /\ blank = (stands = {})
        /\ out = IF stands = {} THEN {} ELSE Earliest(stands)
  /\ threw = {} /\ pageThrew = FALSE /\ starved = Starving(shell, location, {})

Navigate(p) ==
  /\ ~blank /\ p # location /\ location' = p
  /\ IF Stands(shell, out, p) THEN UNCHANGED <<out, blank>>
     ELSE Catch(shell, out, Len(Nested(shell)), p)
  /\ starved' = (starved \/ Starving(shell, p, threw))
  /\ UNCHANGED <<shell, threw, pageThrew>>

ProviderThrows(i) ==
  /\ ~blank /\ i \notin out
  /\ Catch(shell, out, i, location)
  /\ threw' = threw \cup {Nested(shell)[i].id}
  /\ starved' = (starved \/ Starving(shell, location, threw'))
  /\ UNCHANGED <<shell, location, pageThrew>>

(* An error in a page without a boundary is taken by the providers'.       *)
PageThrows ==
  /\ ~blank /\ ~PageAt(shell, location).extension
  /\ Catch(shell, out, Len(Nested(shell)), location)
  /\ pageThrew' = TRUE
  /\ UNCHANGED <<shell, location, threw, starved>>

ShellNext ==
  \/ \E p \in Paths(shell) : Navigate(p)
  \/ \E i \in Depths(shell) : ProviderThrows(i)
  \/ PageThrows

-----------------------------------------------------------------------------
(* ApplicationProvider.test.tsx, "should return the children when provider *)
(* throws an error": a provider with an error costs the page itself and    *)
(* those within it that need it. All others stay, whichever pages are      *)
(* opened, and the page is shown, unless a page without a boundary throws  *)
(* or needs what is not there; the blame for those falls on the providers  *)
(* around it.                                                              *)
ShellHolds ==
  ~pageThrew /\ ~starved =>
    /\ ~blank
    /\ \A i \in Depths(shell) : Nested(shell)[i].id \in Unaffected(shell, threw) => i \notin out
=============================================================================
