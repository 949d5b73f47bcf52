--------------------------- MODULE AppPages_proofs ---------------------------
(***************************************************************************)
(* What the pages of the app show: clicks in the context menu, what is     *)
(* left of the shell when providers throw, the tabs and cards of an        *)
(* entity, the sidebar, and the table of plugins.                          *)
(***************************************************************************)
EXTENDS AppPages, TLAPS, NaturalsInduction, WellFoundedInduction, FiniteSetTheorems,
        SequenceTheorems

-----------------------------------------------------------------------------
(* The context menu of an entity's page.                                   *)

(* Until a click is lost the states are those that were asked for, and the *)
(* handlers work on them unless one was changed since the last render.     *)
MenuInv ==
  /\ {openStates, rendered, wanted} \subseteq [MenuItems -> BOOLEAN]
  /\ touched \subseteq MenuItems
  /\ MenuKept
  /\ ~lost /\ touched = {} => rendered = wanted

LEMMA MenuStep == ASSUME MenuInv, EntityNext PROVE MenuInv'
<1>1. ASSUME NEW i \in MenuItems, NEW v \in BOOLEAN, SetOpenState(i, v)
      PROVE  MenuInv'
  <2>1. {openStates, rendered, wanted}' \subseteq [MenuItems -> BOOLEAN] /\ touched' \subseteq MenuItems
    BY <1>1 DEF MenuInv, SetOpenState, ChangeValueAt
  <2>2. touched' # {}
    BY <1>1 DEF SetOpenState
  <2>3. ~lost' => openStates' = wanted'
    BY <1>1 DEF MenuInv, SetOpenState, ChangeValueAt
  <2> QED
    BY <2>1, <2>2, <2>3 DEF MenuInv, MenuKept
<1>2. CASE RenderMenu \/ RefreshEntity
  BY <1>2 DEF MenuInv, MenuKept, RenderMenu, RefreshEntity
<1> QED
  BY <1>1, <1>2 DEF EntityNext

(* ContextMenuAwareEntityLayout: every click and every close shows, until  *)
(* two of them fall between two renders.                                   *)
THEOREM MenuKeptAlways == PagesSpec => []MenuKept
<1>1. PagesInit => MenuInv
  BY DEF PagesInit, EntityInit, Closed, MenuInv, MenuKept
<1>2. MenuInv /\ [PagesNext]_pageVars => MenuInv'
  <2> SUFFICES ASSUME MenuInv, [PagesNext]_pageVars
               PROVE  MenuInv'
    OBVIOUS
  <2>1. EntityNext \/ UNCHANGED entityVars
    BY DEF PagesNext, Only, pageVars
  <2>2. CASE UNCHANGED entityVars
    BY <2>2 DEF entityVars, MenuInv, MenuKept
  <2> QED
    BY <2>1, <2>2, MenuStep
<1>3. MenuInv => MenuKept
  BY DEF MenuInv
<1> QED
  BY <1>1, <1>2, <1>3, PTL DEF PagesSpec

-----------------------------------------------------------------------------
(* The shell.                                                              *)

\* A set of places has a first one.
LEMMA FirstPlace ==
  ASSUME NEW S \in SUBSET Nat, S # {}
  PROVE  \E i \in S : \A j \in S : i <= j
<1>1. PICK i \in S : \A j \in S : <<j, i>> \notin OpToRel(<, Nat)
  BY NatLessThanWellFounded, WFMin
<1>2. \A j \in S : ~(j < i)
  BY <1>1 DEF OpToRel
<1> QED
  BY <1>2

Agree(o, u, k) == \A e \in 1 .. k : e \in o <=> e \in u

(* There is an earliest of any sets of depths.                             *)
LEMMA EarliestExists ==
  ASSUME NEW n \in Nat, NEW sets \in SUBSET SUBSET (1 .. n), sets # {}
  PROVE  /\ Earliest(sets) \in sets
         /\ \A u \in sets \ {Earliest(sets)} : Sooner(Earliest(sets), u)
<1> DEFINE First(k) == \E o \in sets : \A u \in sets : Agree(o, u, k) \/ Sooner(o, u)
           Bad == {k \in 0 .. n : ~First(k)}
<1>1. First(0)
  BY DEF Agree
<1>2. ASSUME NEW m \in 1 .. n, First(m - 1)
      PROVE  First(m)
  <2>1. PICK o \in sets : \A u \in sets : Agree(o, u, m - 1) \/ Sooner(o, u)
    BY <1>2
  <2>2. CASE \E v \in sets : Agree(o, v, m - 1) /\ m \notin v
    <3>1. PICK v \in sets : Agree(o, v, m - 1) /\ m \notin v
      BY <2>2
    <3>2. ASSUME NEW u \in sets
          PROVE  Agree(v, u, m) \/ Sooner(v, u)
      <4>1. CASE Agree(o, u, m - 1)
        <5>1. Agree(v, u, m - 1)
          BY <3>1, <4>1 DEF Agree
        <5>2. CASE m \in u
          BY <3>1, <5>1, <5>2 DEF Agree, Sooner
        <5>3. CASE m \notin u
          BY <3>1, <5>1, <5>3 DEF Agree
        <5> QED
          BY <5>2, <5>3
      <4>2. CASE ~Agree(o, u, m - 1) /\ Sooner(o, u)
        <5>1. PICK d \in u \ o : Agree(o, u, d - 1)
          BY <4>2 DEF Sooner, Agree
        <5>2. d \in 1 .. n
          OBVIOUS
        <5>3. d <= m - 1
          BY <4>2, <5>1, <5>2 DEF Agree
        <5>4. d \notin v /\ Agree(v, u, d - 1)
          BY <3>1, <5>1, <5>2, <5>3 DEF Agree
        <5> QED
          BY <5>4 DEF Sooner, Agree
      <4> QED
        BY <2>1, <4>1, <4>2
    <3> QED
      BY <3>2
  <2>3. CASE \A v \in sets : Agree(o, v, m - 1) => m \in v
    <3>1. ASSUME NEW u \in sets, Agree(o, u, m - 1)
          PROVE  Agree(o, u, m)
      BY <2>3, <3>1 DEF Agree
    <3> QED
      BY <2>1, <3>1
  <2> QED
    BY <2>2, <2>3
<1>3. Bad = {}
  <2> SUFFICES ASSUME Bad # {}
               PROVE  FALSE
    OBVIOUS
  <2>0. Bad \in SUBSET Nat
    OBVIOUS
  <2>1. PICK m \in Bad : \A k \in Bad : m <= k
    BY <2>0, FirstPlace
  <2>2. m \in 1 .. n
    BY <1>1, <2>1
  <2>3. m - 1 \notin Bad /\ m - 1 \in 0 .. n
    BY <2>1, <2>2
  <2> QED
    BY <1>2, <2>2, <2>3
<1>4. PICK o \in sets : \A u \in sets : Agree(o, u, n) \/ Sooner(o, u)
  BY <1>3
<1>5. ASSUME NEW u \in sets, Agree(o, u, n)
      PROVE  u = o
  BY <1>5 DEF Agree
<1>6. \A u \in sets \ {o} : Sooner(o, u)
  BY <1>4, <1>5
<1> QED
  BY <1>6 DEF Earliest

-----------------------------------------------------------------------------
LEMMA ShellFacts ==
  ASSUME NEW s \in Shells
  PROVE  /\ Len(s.providers) \in Nat
         /\ Depths(s) = 1 .. Len(s.providers)
         /\ \A i, j \in Depths(s) : s.providers[i].id = s.providers[j].id => i = j
BY ShellsAssumption DEF Depths, Nested

LEMMA UnaffectedFacts ==
  ASSUME NEW s \in Shells, NEW t
  PROVE  /\ Unaffected(s, t) \subseteq {s.providers[i].id : i \in Depths(s)}
         /\ Working(s, t, Unaffected(s, t))
<1>1. Unaffected(s, t) \subseteq {s.providers[i].id : i \in Depths(s)}
  BY DEF Unaffected, ToSet, Depths, Nested
<1>2. ASSUME NEW i \in Depths(s), s.providers[i].id \in Unaffected(s, t)
      PROVE  /\ s.providers[i].id \notin t
             /\ s.providers[i].needs \subseteq
                  Unaffected(s, t) \cap {s.providers[j].id : j \in 1 .. i - 1}
  <2>1. PICK set \in SUBSET {q.id : q \in ToSet(s.providers)} :
               s.providers[i].id \in set /\ Working(s, t, set)
    BY <1>2 DEF Unaffected
  <2>2. set \subseteq Unaffected(s, t)
    BY <2>1 DEF Unaffected
  <2> QED
    BY <2>1, <2>2 DEF Working
<1> QED
  BY <1>1, <1>2 DEF Working

\* The more providers have an error, the fewer are unaffected.
LEMMA FewerUnaffected ==
  ASSUME NEW s \in Shells, NEW t, NEW u, t \subseteq u
  PROVE  Unaffected(s, u) \subseteq Unaffected(s, t)
<1>1. \A set : Working(s, u, set) => Working(s, t, set)
  BY DEF Working
<1> QED
  BY <1>1 DEF Unaffected

Spared(s, t) == {i \in Depths(s) : s.providers[i].id \in Unaffected(s, t)}

(* The providers down to a depth stand.                                    *)
StandsTo(s, o, depth) ==
  \A i \in (1 .. depth) \ o : s.providers[i].needs \subseteq Contexts(s, o, i)

(* It stands when it does down to a depth, and within that no provider is  *)
(* in its place but those that are spared.                                 *)
LEMMA Candidate ==
  ASSUME NEW s \in Shells, NEW t, NEW p, ~Starving(s, p, t),
         NEW k \in 0 .. Len(s.providers), NEW o, StandsTo(s, o, k),
         o \cap (1 .. k) \cap Spared(s, t) = {}
  PROVE  LET c == (o \cap (1 .. k)) \cup ((k + 1 .. Len(s.providers)) \ Spared(s, t))
         IN  /\ c \subseteq Depths(s) /\ c \cap Spared(s, t) = {}
             /\ \A d \in 1 .. k : c \cap (1 .. d) = o \cap (1 .. d)
             /\ Stands(s, c, p)
<1> DEFINE n == Len(s.providers)
           c == (o \cap (1 .. k)) \cup ((k + 1 .. n) \ Spared(s, t))
<1>1. n \in Nat /\ Depths(s) = 1 .. n
  BY ShellFacts
<1>2. c \subseteq Depths(s) /\ c \cap Spared(s, t) = {}
  BY <1>1 DEF Spared
<1>3. \A d \in 1 .. k : c \cap (1 .. d) = o \cap (1 .. d)
  BY <1>1
<1>4. \A i \in 1 .. n : (i \in c <=> IF i <= k THEN i \in o ELSE i \notin Spared(s, t))
  BY <1>1
<1> HIDE DEF c, n
<1>5. ASSUME NEW i \in 1 .. n, i \notin c
      PROVE  s.providers[i].needs \subseteq Contexts(s, c, i)
  <2>1. CASE i <= k
    <3>1. s.providers[i].needs \subseteq Contexts(s, o, i)
      BY <1>1, <1>4, <1>5, <2>1 DEF StandsTo, n
    <3>2. \A j \in 1 .. n : j < i => (j \in c <=> j \in o)
      BY <1>1, <1>4, <2>1 DEF n
    <3>3. {j \in Depths(s) \ o : j < i} = {j \in Depths(s) \ c : j < i}
      BY <1>1, <3>2
    <3> QED
      BY <3>1, <3>3 DEF Contexts
  <2>2. CASE ~(i <= k)
    <3>1. i \in Spared(s, t)
      BY <1>4, <1>5, <2>2
    <3>2. s.providers[i].needs \subseteq
            Unaffected(s, t) \cap {s.providers[j].id : j \in 1 .. i - 1}
      BY <3>1, UnaffectedFacts DEF Spared, Working
    <3>3. ASSUME NEW x \in s.providers[i].needs
          PROVE  x \in Contexts(s, c, i)
      <4>1. PICK j \in 1 .. i - 1 : x = s.providers[j].id /\ x \in Unaffected(s, t)
        BY <3>2
      <4>2. j \in Spared(s, t) /\ j < i
        BY <1>1, <4>1 DEF Spared
      <4>3. j \in Depths(s) \ c
        BY <1>2, <4>2 DEF Spared
      <4> QED
        BY <4>1, <4>2, <4>3 DEF Contexts, Nested
    <3> QED
      BY <3>3
  <2> QED
    BY <2>1, <2>2
<1>6. Unaffected(s, t) \subseteq Contexts(s, c, n + 1)
  <2> SUFFICES ASSUME NEW x \in Unaffected(s, t)
               PROVE  x \in Contexts(s, c, n + 1)
    OBVIOUS
  <2>1. PICK j \in Depths(s) : x = s.providers[j].id
    BY UnaffectedFacts
  <2>2. j \in Depths(s) \ c /\ j < n + 1
    BY <1>1, <1>2, <2>1 DEF Spared
  <2> QED
    BY <2>1, <2>2 DEF Contexts, Nested
<1>7. Stands(s, c, p)
  BY <1>1, <1>5, <1>6 DEF Stands, Starving, Nested, n
<1> QED
  BY <1>2, <1>3, <1>7 DEF c, n

(* However it comes to stand within a boundary, no provider is out that    *)
(* could be spared.                                                        *)
LEMMA EarliestSpares ==
  ASSUME NEW s \in Shells, NEW t, NEW p, ~Starving(s, p, t),
         NEW depth \in 0 .. Len(s.providers), NEW outer \in SUBSET (1 .. depth),
         StandsTo(s, outer, depth), outer \cap Spared(s, t) = {}
  PROVE  LET within == Within(s, outer, depth, p)
         IN  /\ within # {}
             /\ Earliest(within) \in SUBSET Depths(s) /\ Stands(s, Earliest(within), p)
             /\ Earliest(within) \cap Spared(s, t) = {}
<1> DEFINE n == Len(s.providers)
           within == Within(s, outer, depth, p)
           o == Earliest(within)
<1>1. n \in Nat /\ Depths(s) = 1 .. n /\ depth \in 0 .. n
  BY ShellFacts
<1> HIDE DEF n
<1>2. within # {}
  <2> DEFINE c == (outer \cap (1 .. depth)) \cup ((depth + 1 .. n) \ Spared(s, t))
  <2>0. outer \cap (1 .. depth) \cap Spared(s, t) = {}
    OBVIOUS
  <2>1. c \subseteq Depths(s) /\ Stands(s, c, p)
    BY <2>0, Candidate DEF n
  <2>2. c \cap (1 .. depth) = outer
    <3>1. \A x \in 1 .. depth : x \in c <=> x \in outer
      BY <1>1
    <3> QED
      BY <3>1
  <2> QED
    BY <2>1, <2>2 DEF Within
<1>3. within \in SUBSET SUBSET (1 .. n)
  BY <1>1 DEF Within
<1>4. o \in within /\ \A u \in within \ {o} : Sooner(o, u)
  <2> HIDE DEF within
  <2> QED
    BY <1>1, <1>2, <1>3, EarliestExists
<1>5. o \in SUBSET (1 .. n) /\ o \cap (1 .. depth) = outer /\ Stands(s, o, p)
  BY <1>1, <1>4 DEF Within
<1> HIDE DEF o
<1>6. o \cap Spared(s, t) = {}
  <2> SUFFICES ASSUME o \cap Spared(s, t) # {}
               PROVE  FALSE
    OBVIOUS
  <2>1. o \cap Spared(s, t) \in SUBSET Nat
    <3>1. \A x \in o : x \in Nat
      BY <1>1, <1>5
    <3> QED
      BY <3>1
  <2>2. PICK j \in o \cap Spared(s, t) : \A i \in o \cap Spared(s, t) : j <= i
    BY <2>1, FirstPlace
  <2>3. j \in 1 .. n /\ depth < j
    BY <1>1, <1>5, <2>2
  <2>14. PICK k \in 0 .. n : k = j - 1
    BY <1>1, <2>3
  <2> DEFINE c == (o \cap (1 .. k)) \cup ((k + 1 .. n) \ Spared(s, t))
  <2>4. o \cap (1 .. k) \cap Spared(s, t) = {}
    BY <1>1, <1>5, <2>2, <2>3, <2>14
  <2>5. StandsTo(s, o, k)
    BY <1>1, <1>5, <2>3, <2>14 DEF Stands, StandsTo, Nested
  <2>6. /\ c \subseteq Depths(s) /\ Stands(s, c, p) /\ c \cap Spared(s, t) = {}
        /\ \A d \in 1 .. k : c \cap (1 .. d) = o \cap (1 .. d)
    BY <2>4, <2>5, Candidate DEF n
  <2>7. c \cap (1 .. depth) = outer
    BY <1>1, <1>5, <2>3, <2>14
  <2>8. c \in within /\ j \notin c
    BY <2>2, <2>6, <2>7, <2>14 DEF Within
  <2>9. PICK d \in c \ o : \A e \in 1 .. d - 1 : e \in o <=> e \in c
    BY <1>4, <2>2, <2>8 DEF Sooner
  <2>10. d \in 1 .. n
    BY <1>1, <2>6
  <2>11. d < j \/ j < d
    BY <2>2, <2>3, <2>9, <2>10
  <2>12. ~(d < j)
    BY <2>3, <2>9, <2>10, <2>14
  <2>13. ~(j < d)
    BY <2>2, <2>3, <2>8, <2>9, <2>10
  <2> QED
    BY <2>11, <2>12, <2>13
<1> QED
  BY <1>1, <1>2, <1>5, <1>6 DEF o, n

(* Unless a page without a boundary has thrown or lacked a context: the    *)
(* shell stands, and no provider is out that could be spared.              *)
ShellInv ==
  /\ shell \in Shells
  /\ ~pageThrew /\ ~starved =>
       /\ ~blank /\ out \subseteq Depths(shell) /\ Stands(shell, out, location)
       /\ out \cap Spared(shell, threw) = {}
       /\ ~Starving(shell, location, threw)

LEMMA ShellInitInv == ShellInit => ShellInv
<1> SUFFICES ASSUME ShellInit, ~starved
             PROVE  ShellInv
  BY DEF ShellInit, ShellInv
<1>1. shell \in Shells /\ threw = {} /\ ~Starving(shell, location, {})
  BY DEF ShellInit
<1>2. Len(shell.providers) \in Nat
  BY <1>1, ShellFacts
<1>3. 0 \in 0 .. Len(shell.providers) /\ {} \in SUBSET (1 .. 0) /\ StandsTo(shell, {}, 0)
  BY <1>2 DEF StandsTo
<1>4. LET within == Within(shell, {}, 0, location)
      IN  /\ within # {}
          /\ Earliest(within) \in SUBSET Depths(shell) /\ Stands(shell, Earliest(within), location)
          /\ Earliest(within) \cap Spared(shell, {}) = {}
  BY <1>1, <1>3, EarliestSpares
<1> QED
  BY <1>1, <1>4 DEF ShellInit, ShellInv

LEMMA NavigateStep == ASSUME ShellInv, NEW p, Navigate(p) PROVE ShellInv'
<1> SUFFICES ASSUME ~pageThrew', ~starved'
             PROVE  ShellInv'
  BY DEF ShellInv, Navigate
<1>1. ~pageThrew /\ ~starved /\ ~Starving(shell, p, threw)
  BY DEF Navigate
<1>2. /\ shell \in Shells /\ ~blank /\ out \subseteq Depths(shell) /\ Stands(shell, out, location)
      /\ out \cap Spared(shell, threw) = {}
  BY <1>1 DEF ShellInv
<1>3. Unaffected(shell, threw) \subseteq Contexts(shell, out, Len(Nested(shell)) + 1)
  <2> SUFFICES ASSUME NEW x \in Unaffected(shell, threw)
               PROVE  x \in Contexts(shell, out, Len(Nested(shell)) + 1)
    OBVIOUS
  <2>1. PICK j \in Depths(shell) : x = shell.providers[j].id
    BY <1>2, UnaffectedFacts
  <2>2. j \in Depths(shell) \ out /\ j < Len(Nested(shell)) + 1
    BY <1>2, <2>1, ShellFacts DEF Spared, Nested
  <2> QED
    BY <2>1, <2>2 DEF Contexts, Nested
<1>4. Stands(shell, out, p)
  BY <1>1, <1>2, <1>3 DEF Stands, Starving
<1> QED
  BY <1>1, <1>2, <1>4 DEF Navigate, ShellInv, Spared

LEMMA ProviderThrowsStep ==
  ASSUME ShellInv, NEW i \in Depths(shell), ProviderThrows(i)
  PROVE  ShellInv'
<1> SUFFICES ASSUME ~pageThrew', ~starved'
             PROVE  ShellInv'
  BY DEF ShellInv, ProviderThrows
<1> DEFINE t == threw \cup {shell.providers[i].id}
           outer == (out \cap (1 .. i - 1)) \cup {i}
           within == Within(shell, outer, i, location)
<1>1. ~pageThrew /\ ~starved /\ threw' = t /\ ~Starving(shell, location, t)
  BY DEF ProviderThrows, Nested
<1>2. /\ shell \in Shells /\ ~blank /\ out \subseteq Depths(shell) /\ Stands(shell, out, location)
      /\ out \cap Spared(shell, threw) = {}
  BY <1>1 DEF ShellInv
<1>3. Depths(shell) = 1 .. Len(shell.providers) /\ Len(shell.providers) \in Nat
  BY <1>2, ShellFacts
<1>4. outer \cap Spared(shell, t) = {}
  <2>1. i \notin Spared(shell, t)
    BY <1>2, UnaffectedFacts DEF Spared, Working
  <2>2. Spared(shell, t) \subseteq Spared(shell, threw)
    BY <1>2, FewerUnaffected DEF Spared
  <2> QED
    BY <1>2, <2>1, <2>2
<1>5. StandsTo(shell, outer, i)
  <2> SUFFICES ASSUME NEW l \in 1 .. i, l \notin outer
               PROVE  shell.providers[l].needs \subseteq Contexts(shell, outer, l)
    BY DEF StandsTo
  <2>1. l \in Depths(shell) \ out /\ l < i
    BY <1>3
  <2>2. shell.providers[l].needs \subseteq Contexts(shell, out, l)
    BY <1>2, <2>1 DEF Stands, Nested
  <2>3. {j \in Depths(shell) \ out : j < l} = {j \in Depths(shell) \ outer : j < l}
    <3>1. \A j \in 1 .. Len(shell.providers) : j < l => (j \in out <=> j \in outer)
      BY <1>3, <2>1
    <3> QED
      BY <1>3, <3>1
  <2> QED
    BY <2>2, <2>3 DEF Contexts
<1>6. outer \in SUBSET (1 .. i) /\ i \in 0 .. Len(shell.providers)
  <2>1. \A x \in outer : x \in 1 .. i
    BY <1>2, <1>3
  <2> QED
    BY <1>3, <2>1
<1>7. /\ within # {}
      /\ Earliest(within) \in SUBSET Depths(shell) /\ Stands(shell, Earliest(within), location)
      /\ Earliest(within) \cap Spared(shell, t) = {}
  <2> HIDE DEF t, outer
  <2> QED
    BY <1>1, <1>2, <1>4, <1>5, <1>6, EarliestSpares
<1>8. blank' = blank /\ out' = Earliest(within)
  <2> DEFINE catching == {d \in 1 .. i : CaughtAt(shell, out, d, location) # {}}
  <2>1. CaughtAt(shell, out, i, location) = within
    BY DEF CaughtAt
  <2>2. i \in catching /\ \A d \in catching : d <= i
    <3>1. i \in 1 .. i /\ \A d \in 1 .. i : d <= i
      BY <1>3
    <3>2. CaughtAt(shell, out, i, location) # {}
      BY <1>7, <2>1
    <3> QED
      BY <3>1, <3>2
  <2>3. (CHOOSE d \in catching : \A e \in catching : e <= d) = i
    <3>1. \A d \in catching : (\A e \in catching : e <= d) => d = i
      BY <1>3, <2>2
    <3> HIDE DEF catching
    <3> QED
      BY <2>2, <3>1
  <2>4. catching # {}
    BY <2>2
  <2> QED
    BY <2>1, <2>3, <2>4 DEF ProviderThrows, Catch
<1> QED
  BY <1>1, <1>2, <1>7, <1>8 DEF ShellInv, ProviderThrows, Spared

LEMMA ShellStep == ASSUME ShellInv, ShellNext PROVE ShellInv'
<1>1. CASE PageThrows
  BY <1>1 DEF PageThrows, ShellInv
<1> QED
  BY <1>1, NavigateStep, ProviderThrowsStep DEF ShellNext

(* ApplicationProvider: a provider with an error costs itself and those    *)
(* within it that need it, and the page is shown, for any number of        *)
(* providers, of errors and of pages that are opened.                      *)
THEOREM ShellHoldsAlways == PagesSpec => []ShellHolds
<1>1. PagesInit => ShellInv
  BY ShellInitInv DEF PagesInit
<1>2. ShellInv /\ [PagesNext]_pageVars => ShellInv'
  <2> SUFFICES ASSUME ShellInv, [PagesNext]_pageVars
               PROVE  ShellInv'
    OBVIOUS
  <2>1. ShellNext \/ UNCHANGED shellVars
    BY DEF PagesNext, Only, pageVars
  <2>2. CASE UNCHANGED shellVars
    BY <2>2 DEF shellVars, ShellInv, Spared
  <2> QED
    BY <2>1, <2>2, ShellStep
<1>3. ShellInv => ShellHolds
  BY DEF ShellInv, ShellHolds, Spared, Nested
<1> QED
  BY <1>1, <1>2, <1>3, PTL DEF PagesSpec

-----------------------------------------------------------------------------
(* Filtered and sorted arrays.                                             *)

Orders(before, places) ==
  /\ \A x \in places : <<x, x>> \notin before
  /\ \A x, y \in places : x # y => <<x, y>> \in before \/ <<y, x>> \in before
  /\ \A x, y, z \in places : <<x, y>> \in before /\ <<y, z>> \in before => <<x, z>> \in before

(* Arranged holds each of the places once, in the order asked for.         *)
LEMMA ArrangedFacts ==
  ASSUME NEW places, IsFiniteSet(places), NEW before, Orders(before, places)
  PROVE  LET a == Arranged(places, before)
         IN  /\ DOMAIN a = 1 .. Cardinality(places) /\ Cardinality(places) \in Nat
             /\ \A k \in DOMAIN a : a[k] \in places
             /\ \A x \in places : \E k \in DOMAIN a : a[k] = x
             /\ \A k, l \in DOMAIN a : k < l => <<a[k], a[l]>> \in before
             /\ \A k, l \in DOMAIN a : a[k] = a[l] => k = l
<1> DEFINE n == Cardinality(places)
           Below(x) == {y \in places : <<y, x>> \in before}
           rank == [x \in places |-> Cardinality(Below(x))]
           a == Arranged(places, before)
<1>1. n \in Nat
  BY FS_CardinalityType
<1>2. \A x \in places : Below(x) \in SUBSET places /\ IsFiniteSet(Below(x)) /\ Cardinality(Below(x)) \in Nat
  <2> SUFFICES ASSUME NEW x \in places
               PROVE  Below(x) \in SUBSET places /\ IsFiniteSet(Below(x)) /\ Cardinality(Below(x)) \in Nat
    OBVIOUS
  <2>1. Below(x) \in SUBSET places
    OBVIOUS
  <2> HIDE DEF Below
  <2> QED
    BY <2>1, FS_Subset, FS_CardinalityType
<1>3. ASSUME NEW x \in places, NEW y \in places, <<x, y>> \in before
      PROVE  rank[x] < rank[y]
  <2>1. Below(x) \subseteq Below(y) /\ x \in Below(y) /\ x \notin Below(x)
    BY <1>3 DEF Orders
  <2> HIDE DEF Below
  <2>2. Cardinality(Below(x)) <= Cardinality(Below(y)) /\ Cardinality(Below(x)) # Cardinality(Below(y))
    BY <1>2, <2>1, FS_Subset
  <2> QED
    BY <1>2, <2>2
<1>4. ASSUME NEW x \in places
      PROVE  rank[x] \in 0 .. n - 1
  <2>1. Below(x) # places
    BY DEF Orders
  <2> HIDE DEF Below
  <2>2. Cardinality(Below(x)) <= n /\ Cardinality(Below(x)) # n
    BY <1>2, <2>1, FS_Subset
  <2> QED
    BY <1>1, <1>2, <2>2
<1>5. ASSUME NEW x \in places, NEW y \in places, rank[x] = rank[y]
      PROVE  x = y
  <2>1. rank[x] \in Nat /\ rank[y] \in Nat
    BY <1>1, <1>4
  <2>2. x = y \/ <<x, y>> \in before \/ <<y, x>> \in before
    BY DEF Orders
  <2> HIDE DEF rank
  <2> QED
    BY <1>3, <1>5, <2>1, <2>2
<1> HIDE DEF rank
<1>6. rank \in Injection(places, 0 .. n - 1)
  <2>1. rank \in [places -> 0 .. n - 1]
    BY <1>4 DEF rank
  <2> QED
    BY <1>5, <2>1 DEF Injection, IsInjective
<1>7. IsFiniteSet(0 .. n - 1) /\ Cardinality(0 .. n - 1) = n
  BY <1>1, FS_Interval
<1>8. rank \in Surjection(places, 0 .. n - 1)
  <2> HIDE DEF n
  <2> QED
    BY <1>6, <1>7, FS_Injection DEF n
<1>9. ASSUME NEW k \in 1 .. n
      PROVE  a[k] \in places /\ rank[a[k]] = k - 1
  <2>1. \E x \in places : rank[x] = k - 1
    BY <1>1, <1>8 DEF Surjection
  <2>2. a[k] = CHOOSE i \in places : Cardinality(Below(i)) = k - 1
    BY DEF Arranged
  <2>3. \A i \in places : rank[i] = Cardinality(Below(i))
    BY DEF rank
  <2> HIDE DEF Below, a
  <2> QED
    BY <2>1, <2>2, <2>3
<1>10. DOMAIN a = 1 .. n
  BY DEF Arranged
<1> HIDE DEF a, n, Below
<1>11. ASSUME NEW x \in places
       PROVE  \E k \in 1 .. n : a[k] = x
  <2>1. rank[x] \in 0 .. n - 1
    BY <1>4
  <2>2. PICK k \in 1 .. n : k = rank[x] + 1
    BY <1>1, <2>1
  <2>3. a[k] \in places /\ rank[a[k]] = rank[x]
    BY <1>1, <1>9, <2>1, <2>2
  <2> QED
    BY <1>5, <2>3
<1>12. ASSUME NEW k \in 1 .. n, NEW l \in 1 .. n
       PROVE  (k < l => <<a[k], a[l]>> \in before) /\ (a[k] = a[l] => k = l)
  <2>1. a[k] \in places /\ a[l] \in places /\ rank[a[k]] = k - 1 /\ rank[a[l]] = l - 1
    BY <1>9
  <2>2. a[k] = a[l] => k = l
    BY <1>1, <2>1
  <2>3. a[k] = a[l] \/ <<a[k], a[l]>> \in before \/ <<a[l], a[k]>> \in before
    BY <2>1 DEF Orders
  <2>4. <<a[l], a[k]>> \in before => ~(k < l)
    BY <1>1, <1>3, <2>1
  <2>5. k < l => k # l
    BY <1>1
  <2> QED
    BY <2>2, <2>3, <2>4, <2>5
<1> QED
  BY <1>1, <1>9, <1>10, <1>11, <1>12 DEF a, n

\* The places of a sequence.
LEMMA FinitePlaces ==
  ASSUME NEW n \in Nat, NEW places \in SUBSET (1 .. n)
  PROVE  IsFiniteSet(places)
<1>1. IsFiniteSet(1 .. n)
  BY FS_Interval
<1> QED
  BY <1>1, FS_Subset

(* filter keeps the order.                                                 *)
LEMMA PickedFacts ==
  ASSUME NEW list, NEW n \in Nat, NEW places \in SUBSET (1 .. n)
  PROVE  LET a == Arranged(places, Ascending(places))
         IN  /\ DOMAIN a = 1 .. Cardinality(places) /\ Cardinality(places) \in Nat
             /\ DOMAIN Picked(list, places) = DOMAIN a
             /\ \A k \in DOMAIN a : a[k] \in places /\ Picked(list, places)[k] = list[a[k]]
             /\ \A x \in places : \E k \in DOMAIN a : a[k] = x
             /\ \A k, l \in DOMAIN a : k < l => a[k] < a[l]
<1> DEFINE before == Ascending(places)
           a == Arranged(places, before)
<1>1. \A x, y \in places : <<x, y>> \in before <=> x < y
  BY DEF Ascending
<1>2. Orders(before, places)
  <2> HIDE DEF before
  <2> QED
    BY <1>1 DEF Orders
<1>3. /\ DOMAIN a = 1 .. Cardinality(places) /\ Cardinality(places) \in Nat
      /\ \A k \in DOMAIN a : a[k] \in places
      /\ \A x \in places : \E k \in DOMAIN a : a[k] = x
      /\ \A k, l \in DOMAIN a : k < l => <<a[k], a[l]>> \in before
  <2>1. IsFiniteSet(places)
    BY FinitePlaces
  <2> HIDE DEF before
  <2> QED
    BY <1>2, <2>1, ArrangedFacts
<1>4. Picked(list, places) = [k \in DOMAIN a |-> list[a[k]]]
  BY DEF Picked, Taken
<1> HIDE DEF a, before
<1> QED
  BY <1>1, <1>3, <1>4 DEF a, before

-----------------------------------------------------------------------------
(* The tabs and cards of an entity's page.                                 *)

LEMMA MergedOrder ==
  ASSUME NEW extra \in TabSets
  PROVE  LET tabs == MergedTabs(extra)
         IN  \A i, j \in DOMAIN tabs : i < j => tabs[i].priority >= tabs[j].priority
<1> DEFINE overriding(t) == {i \in DOMAIN extra : extra[i].path = t.path}
           merged(t) == IF overriding(t) = {} THEN t ELSE extra[CHOOSE i \in overriding(t) : TRUE]
           defaults == [i \in DOMAIN DefaultTabs |-> merged(DefaultTabs[i])]
           all == defaults \o extra
           new(i) == \A j \in DOMAIN DefaultTabs : DefaultTabs[j].path # all[i].path
           places == {i \in DOMAIN all : all[i].priority >= 0 /\ (i \in DOMAIN DefaultTabs \/ new(i))}
           before == {p \in places \X places :
                        \/ all[p[1]].priority > all[p[2]].priority
                        \/ all[p[1]].priority = all[p[2]].priority /\ p[1] < p[2]}
           a == Arranged(places, before)
<1>1. MergedTabs(extra) = Taken(all, a)
  BY DEF MergedTabs
<1>2. DOMAIN DefaultTabs = 1 .. 15 /\ \A i \in 1 .. 15 : DefaultTabs[i].priority = 0
  BY DEF DefaultTabs, Tab
<1>3. /\ Len(extra) \in Nat /\ DOMAIN extra = 1 .. Len(extra)
      /\ \A i \in 1 .. Len(extra) : extra[i].priority \in Int
  <2> DEFINE R == [path : {t.path : t \in ToSet(extra)}, mountPoint : {t.mountPoint : t \in ToSet(extra)},
                    priority : Int]
  <2>1. extra \in Seq(R)
    BY TabSetsAssumption
  <2>2. \A t \in R : t.priority \in Int
    OBVIOUS
  <2> HIDE DEF R
  <2> QED
    BY <2>1, <2>2
<1>4. \A i \in 1 .. 15 : defaults[i].priority \in Int
  <2> SUFFICES ASSUME NEW i \in 1 .. 15
               PROVE  merged(DefaultTabs[i]).priority \in Int
    BY <1>2
  <2> DEFINE over == overriding(DefaultTabs[i])
  <2>1. CASE over = {}
    BY <1>2, <2>1
  <2>2. CASE over # {}
    <3>1. (CHOOSE j \in over : TRUE) \in over /\ over \subseteq 1 .. Len(extra)
      BY <1>3, <2>2
    <3>2. merged(DefaultTabs[i]) = extra[CHOOSE j \in over : TRUE]
      BY <2>2
    <3> HIDE DEF over, merged
    <3> QED
      BY <1>3, <3>1, <3>2
  <2> QED
    BY <2>1, <2>2
<1>5. DOMAIN defaults = 1 .. 15
  BY <1>2
<1> HIDE DEF defaults
<1> DEFINE T == {defaults[i] : i \in 1 .. 15} \cup {extra[i] : i \in 1 .. Len(extra)}
<1>6. defaults \in Seq(T) /\ Len(defaults) = 15 /\ extra \in Seq(T)
  <2>1. defaults = [i \in 1 .. 15 |-> defaults[i]]
    BY <1>5 DEF defaults
  <2>2. extra = [i \in 1 .. Len(extra) |-> extra[i]]
    <3>1. extra \in Seq([path : {t.path : t \in ToSet(extra)}, mountPoint : {t.mountPoint : t \in ToSet(extra)},
                         priority : Int])
      BY TabSetsAssumption
    <3> QED
      BY <3>1
  <2>3. \A i \in 1 .. 15 : defaults[i] \in T
    OBVIOUS
  <2>4. \A i \in 1 .. Len(extra) : extra[i] \in T
    OBVIOUS
  <2> HIDE DEF T
  <2>5. defaults \in Seq(T)
    BY <2>1, <2>3
  <2>6. extra \in Seq(T)
    BY <1>3, <2>2, <2>4
  <2> QED
    BY <1>5, <2>5, <2>6
<1> HIDE DEF T
<1>7. /\ DOMAIN all = 1 .. 15 + Len(extra)
      /\ \A i \in DOMAIN all : all[i] = IF i <= 15 THEN defaults[i] ELSE extra[i - 15]
  <2>1. /\ Len(all) = 15 + Len(extra) /\ all \in Seq(T)
        /\ \A i \in 1 .. 15 + Len(extra) : all[i] = IF i <= 15 THEN defaults[i] ELSE extra[i - 15]
    <3>1. /\ defaults \o extra \in Seq(T)
          /\ Len(defaults \o extra) = Len(defaults) + Len(extra)
          /\ \A i \in 1 .. Len(defaults) + Len(extra) :
               (defaults \o extra)[i] = IF i <= Len(defaults) THEN defaults[i] ELSE extra[i - Len(defaults)]
      BY <1>6, ConcatProperties, Zenon
    <3> QED
      BY <1>6, <3>1, Zenon
  <2> HIDE DEF all
  <2> QED
    BY <1>3, <2>1
<1>8. \A i \in DOMAIN all : all[i].priority \in Int
  <2> HIDE DEF all
  <2> SUFFICES ASSUME NEW i \in DOMAIN all
               PROVE  all[i].priority \in Int
    OBVIOUS
  <2>1. CASE i <= 15
    <3>1. i \in 1 .. 15
      BY <1>3, <1>7, <2>1
    <3> QED
      BY <1>4, <1>7, <2>1, <3>1
  <2>2. CASE ~(i <= 15)
    <3>1. i - 15 \in 1 .. Len(extra)
      BY <1>3, <1>7, <2>2
    <3> QED
      BY <1>3, <1>7, <2>2, <3>1
  <2> QED
    BY <2>1, <2>2
<1> HIDE DEF all
<1>9. places \in SUBSET (1 .. 15 + Len(extra))
  BY <1>7
<1>10. \A x, y \in places :
         <<x, y>> \in before <=> \/ all[x].priority > all[y].priority
                                 \/ all[x].priority = all[y].priority /\ x < y
  OBVIOUS
<1>11. \A x \in places : all[x].priority \in Int /\ x \in Int
  BY <1>7, <1>8
<1> HIDE DEF places, before
<1>12. Orders(before, places)
  BY <1>10, <1>11 DEF Orders
<1>13. IsFiniteSet(places)
  BY <1>3, <1>9, FinitePlaces, 15 + Len(extra) \in Nat
<1>14. \A k, l \in DOMAIN a : k < l => a[k] \in places /\ a[l] \in places /\ <<a[k], a[l]>> \in before
  BY <1>12, <1>13, ArrangedFacts
<1>15. /\ DOMAIN Taken(all, a) = DOMAIN a
       /\ \A k \in DOMAIN a : Taken(all, a)[k] = all[a[k]]
  BY DEF Taken
<1>16. \A k, l \in DOMAIN a : k < l => all[a[k]].priority >= all[a[l]].priority
  <2> HIDE DEF a
  <2> SUFFICES ASSUME NEW k \in DOMAIN a, NEW l \in DOMAIN a, k < l
               PROVE  all[a[k]].priority >= all[a[l]].priority
    OBVIOUS
  <2>1. a[k] \in places /\ a[l] \in places /\ <<a[k], a[l]>> \in before
    BY <1>14
  <2>2. all[a[k]].priority \in Int /\ all[a[l]].priority \in Int
    BY <1>11, <2>1
  <2>3. all[a[k]].priority > all[a[l]].priority \/ all[a[k]].priority = all[a[l]].priority
    BY <1>10, <2>1
  <2> QED
    BY <2>2, <2>3
<1> HIDE DEF a
<1> QED
  BY <1>1, <1>15, <1>16

(* A condition that is met without an API is met with one.                 *)
LEMMA MetWithContext ==
  ASSUME NEW condition, NEW e, condition.tests \in Seq(ToSet(condition.tests)),
         Satisfied(condition, e, FALSE)
  PROVE  Satisfied(condition, e, TRUE)
<1> DEFINE n == Len(condition.tests)
           without == [i \in DOMAIN condition.tests |-> Outcome(condition.tests[i], e, FALSE)]
           with == [i \in DOMAIN condition.tests |-> Outcome(condition.tests[i], e, TRUE)]
<1>1. DOMAIN condition.tests = 1 .. n /\ n \in Nat
  OBVIOUS
<1>2. DOMAIN with = 1 .. n /\ DOMAIN without = 1 .. n
  BY <1>1
<1>3. \A i \in 1 .. n : without[i] # "throws" => with[i] = without[i]
  BY <1>1 DEF Outcome
<1>4. ConfigIf(condition, e, FALSE) = "yes"
  BY DEF Satisfied
<1> HIDE DEF without, with, n
<1>5. CASE condition.quantifier = "allOf"
  <2>1. FirstOtherThan("yes", without) = "yes"
    BY <1>4, <1>5 DEF ConfigIf, without
  <2>2. \A i \in 1 .. n : without[i] = "yes"
    <3> SUFFICES ASSUME {i \in 1 .. n : without[i] # "yes"} # {}
                 PROVE  FALSE
      OBVIOUS
    <3> DEFINE others == {i \in 1 .. n : without[i] # "yes"}
    <3>1. PICK m \in others : \A j \in others : m <= j
      <4>1. others \in SUBSET Nat /\ others # {}
        BY <1>1
      <4> HIDE DEF others
      <4> QED
        BY <4>1, FirstPlace
    <3>2. Min(others) = m
      BY <1>1, <3>1 DEF Min
    <3>3. without[m] = "yes"
      BY <1>2, <2>1, <3>1, <3>2 DEF FirstOtherThan
    <3> QED
      BY <3>1, <3>3
  <2>3. {i \in 1 .. n : with[i] # "yes"} = {}
    BY <1>3, <2>2
  <2>4. FirstOtherThan("yes", with) = "yes"
    BY <1>2, <2>3 DEF FirstOtherThan
  <2> QED
    BY <1>5, <2>4 DEF Satisfied, ConfigIf, with
<1>6. CASE condition.quantifier = "anyOf"
  <2>1. FirstOtherThan("no", without) = "yes"
    BY <1>4, <1>6 DEF ConfigIf, without
  <2> DEFINE others == {i \in 1 .. n : without[i] # "no"}
             more == {i \in 1 .. n : with[i] # "no"}
  <2>2. others # {}
    BY <1>2, <2>1 DEF FirstOtherThan
  <2>3. others \in SUBSET Nat
    BY <1>1
  <2>4. PICK m \in others : \A j \in others : m <= j
    <3> HIDE DEF others
    <3> QED
      BY <2>2, <2>3, FirstPlace
  <2>5. Min(others) = m
    BY <1>1, <2>4 DEF Min
  <2>6. without[m] = "yes" /\ with[m] = "yes"
    BY <1>2, <1>3, <2>1, <2>2, <2>5 DEF FirstOtherThan
  <2>7. m \in more /\ \A j \in more : m <= j
    BY <1>1, <1>3, <2>4, <2>6
  <2>8. Min(more) = m
    BY <1>1, <2>7 DEF Min
  <2>9. FirstOtherThan("no", with) = "yes"
    BY <1>2, <2>6, <2>7, <2>8 DEF FirstOtherThan
  <2> QED
    BY <1>6, <2>9 DEF Satisfied, ConfigIf, with
<1>7. CASE condition.quantifier = "oneOf"
  <2>1. /\ "throws" \notin ToSet(without)
        /\ Cardinality({i \in DOMAIN without : without[i] = "yes"}) = 1
    BY <1>4, <1>7 DEF ConfigIf, YesIf, without
  <2>2. \A i \in 1 .. n : without[i] # "throws"
    BY <1>2, <2>1 DEF ToSet
  <2>3. with = without
    BY <1>3, <2>2, <1>1 DEF with, without
  <2> QED
    BY <1>7, <2>1, <2>3 DEF Satisfied, ConfigIf, YesIf, with
<1>8. CASE condition.quantifier \notin {"allOf", "anyOf", "oneOf"}
  BY <1>8 DEF Satisfied, ConfigIf
<1> QED
  BY <1>5, <1>6, <1>7, <1>8

(* One that looks up no API is met with a context or without.              *)
LEMMA MetWithoutContext ==
  ASSUME NEW card, NEW e, ~NeedsApi(card), Satisfied(card.if, e, TRUE)
  PROVE  Satisfied(card.if, e, FALSE)
<1>1. \A i \in DOMAIN card.if.tests :
        Outcome(card.if.tests[i], e, FALSE) = Outcome(card.if.tests[i], e, TRUE)
  BY DEF NeedsApi, Outcome
<1>2. [i \in DOMAIN card.if.tests |-> Outcome(card.if.tests[i], e, FALSE)]
        = [i \in DOMAIN card.if.tests |-> Outcome(card.if.tests[i], e, TRUE)]
  BY <1>1
<1>3. ConfigIf(card.if, e, FALSE) = ConfigIf(card.if, e, TRUE)
  BY <1>2 DEF ConfigIf
<1> QED
  BY <1>3 DEF Satisfied

LEMMA RuledContent ==
  ASSUME NEW path, NEW e,
         IF HasRule(path) THEN TabRules(path, e) ELSE path \in TabChildren
  PROVE  StaticContent(path, e) # {}
<1>1. CASE path = "/"
  <2>1. "about" \in OverviewHead(e)
    BY DEF OverviewHead
  <2> QED
    BY <1>1, <2>1 DEF StaticContent
<1>2. CASE path \in {"/api", "/dependencies", "/definition", "/system"}
  BY <1>2 DEF HasRule, TabRules, StaticContent, ApiTabContent, DependenciesTabContent,
              DefinitionTabContent, DiagramTabContent
<1> QED
  BY <1>1, <1>2 DEF HasRule, TabChildren

PageInv == overrides \in TabSets /\ mountPoints \in MountPoints

LEMMA PageShowsCards == PageInv => CardsShown
<1> SUFFICES ASSUME PageInv
             PROVE  CardsShown
  OBVIOUS
<1> DEFINE tabs == MergedTabs(overrides)
           visible == ShownTabs(entity)
<1>1. visible = {i \in DOMAIN tabs : TabShown(tabs[i], entity)}
  BY DEF ShownTabs
<1> HIDE DEF tabs, visible
<1>2. ASSUME NEW i \in visible
      PROVE  StaticContent(tabs[i].path, entity) # {} \/ VisibleCards(tabs[i].mountPoint, entity) # {}
  <2>1. CASE IF HasRule(tabs[i].path) THEN TabRules(tabs[i].path, entity)
                                      ELSE tabs[i].path \in TabChildren
    BY <2>1, RuledContent
  <2>2. CASE \E c \in ToSet(CardsAt(tabs[i].mountPoint)) : Satisfied(c.if, entity, FALSE)
    <3>1. PICK c \in ToSet(CardsAt(tabs[i].mountPoint)) : Satisfied(c.if, entity, FALSE)
      BY <2>2
    <3>2. tabs[i].mountPoint \in DOMAIN mountPoints
      BY <3>1 DEF CardsAt, ToSet
    <3>3. c.if.tests \in Seq(ToSet(c.if.tests))
      BY <3>1, <3>2, MountPointsAssumption DEF PageInv, CardsAt
    <3>4. Satisfied(c.if, entity, TRUE)
      BY <3>1, <3>3, MetWithContext
    <3> QED
      BY <3>1, <3>4 DEF VisibleCards
  <2> QED
    BY <1>1, <1>2, <2>1, <2>2 DEF TabShown
<1>3. ASSUME NEW m \in DOMAIN mountPoints, NEW c \in VisibleCards(m, entity), ~NeedsApi(c),
             NEW i \in DOMAIN tabs, tabs[i].mountPoint = m
      PROVE  i \in visible
  <2>1. c \in ToSet(CardsAt(m)) /\ Satisfied(c.if, entity, FALSE)
    BY <1>3, MetWithoutContext DEF VisibleCards
  <2> QED
    BY <1>1, <1>3, <2>1 DEF TabShown
<1>4. \A i, j \in visible : i < j => tabs[i].priority >= tabs[j].priority
  BY <1>1, MergedOrder DEF PageInv, tabs
<1> QED
  BY <1>2, <1>3, <1>4 DEF CardsShown, tabs, visible

(* mergeTabs, dynamicEntityTab and the conditions of tabs and cards: no    *)
(* tab is empty, and no card is without its tab but for one whose          *)
(* condition looks up an API, for every configuration, entity and change   *)
(* of it.                                                                  *)
THEOREM CardsShownAlways == PagesSpec => []CardsShown
<1>1. PagesInit => PageInv
  BY DEF PagesInit, EntityInit, PageInv
<1>2. PageInv /\ [PagesNext]_pageVars => PageInv'
  BY DEF PagesNext, Only, pageVars, entityVars, EntityNext, SetOpenState, RenderMenu, RefreshEntity, PageInv
<1> QED
  BY <1>1, <1>2, PageShowsCards, PTL DEF PagesSpec

-----------------------------------------------------------------------------
(* The sidebar.                                                            *)

\* The items of a configuration.
LEMMA ItemFacts ==
  ASSUME NEW f \in Frontends
  PROVE  /\ Len(Items(f)) \in Nat /\ DOMAIN Items(f) = 1 .. Len(Items(f))
         /\ \A i \in 1 .. Len(Items(f)) :
              /\ "name" \in DOMAIN Items(f)[i] /\ Items(f)[i].name # ""
              /\ "priority" \in DOMAIN Items(f)[i] => Items(f)[i].priority \in Int
<1>1. Items(f) \in Seq(ToSet(Items(f)))
  BY ItemsAssumption
<1>2. \A i \in DOMAIN Items(f) : Items(f)[i] \in ToSet(Items(f))
  BY DEF ToSet
<1>3. \A i \in DOMAIN Items(f) :
        /\ "name" \in DOMAIN Items(f)[i] /\ Items(f)[i].name # ""
        /\ "priority" \in DOMAIN Items(f)[i] => Items(f)[i].priority \in Int
  BY <1>2, ItemsAssumption
<1>4. Len(Items(f)) \in Nat /\ DOMAIN Items(f) = 1 .. Len(Items(f))
  <2> DEFINE s == Items(f)
  <2>1. s \in Seq(ToSet(s))
    BY <1>1
  <2> HIDE DEF s
  <2> QED
    BY <2>1
<1> QED
  BY <1>3, <1>4, Zenon

LEMMA LastPlace ==
  ASSUME NEW n \in Nat, NEW S \in SUBSET (1 .. n), S # {}
  PROVE  \E i \in S : \A j \in S : j <= i
<1> DEFINE Distances == {n - i : i \in S}
<1>1. Distances \in SUBSET Nat /\ Distances # {}
  <2>1. \A i \in S : n - i \in Nat
    <3> HIDE DEF Distances
    <3> QED
      OBVIOUS
  <2>2. PICK i \in S : TRUE
    OBVIOUS
  <2>3. n - i \in Distances
    BY <2>2, Zenon
  <2>4. \A d \in Distances : d \in Nat
    BY <2>1, Zenon
  <2> QED
    BY <2>3, <2>4, Zenon
<1>2. PICK d \in Distances : \A e \in Distances : d <= e
  <2> HIDE DEF Distances
  <2> QED
    BY <1>1, FirstPlace
<1>3. PICK i \in S : d = n - i
  BY <1>2
<1>4. ASSUME NEW j \in S
      PROVE  j <= i
  <2>1. n - i <= n - j
    BY <1>2, <1>3
  <2> QED
    BY <2>1
<1> QED
  BY <1>4

(* The array of items after each of them was overlaid.                     *)
Overlaid(items, map, n) ==
  map = [k \in 0 .. n |-> IF k = 0 THEN <<>> ELSE Overlay(map[k - 1], items[k])]

LEMMA ItemMapFacts ==
  ASSUME NEW f \in Frontends
  PROVE  \E map : Overlaid(Items(f), map, Len(Items(f))) /\ ItemMap(f) = map[Len(Items(f))]
<1> DEFINE items == Items(f)
           N == Len(items)
           Bad == {n \in 0 .. N : ~\E map : Overlaid(items, map, n)}
<1>1. N \in Nat
  BY ItemFacts
<1>2. \E map : Overlaid(items, map, 0)
  <2> DEFINE map == [k \in 0 .. 0 |-> <<>>]
  <2>1. map = [k \in 0 .. 0 |-> IF k = 0 THEN <<>> ELSE Overlay(map[k - 1], items[k])]
    OBVIOUS
  <2> HIDE DEF map
  <2> QED
    BY <2>1 DEF Overlaid
<1>3. ASSUME NEW n \in 1 .. N, NEW map, Overlaid(items, map, n - 1)
      PROVE  \E more : Overlaid(items, more, n)
  <2> DEFINE more == [k \in 0 .. n |-> IF k = n THEN Overlay(map[n - 1], items[n]) ELSE map[k]]
  <2>1. \A k \in 0 .. n - 1 : map[k] = IF k = 0 THEN <<>> ELSE Overlay(map[k - 1], items[k])
    BY <1>3 DEF Overlaid
  <2>2. ASSUME NEW k \in 0 .. n
        PROVE  more[k] = IF k = 0 THEN <<>> ELSE Overlay(more[k - 1], items[k])
    <3>1. CASE k = n
      <4>1. more[k] = Overlay(map[n - 1], items[n]) /\ more[k - 1] = map[n - 1] /\ k # 0
        BY <1>1, <3>1
      <4> HIDE DEF more
      <4> QED
        BY <3>1, <4>1
    <3>2. CASE k # n
      <4>1. k \in 0 .. n - 1 /\ more[k] = map[k] /\ (k # 0 => more[k - 1] = map[k - 1])
        BY <1>1, <3>2
      <4> HIDE DEF more
      <4> QED
        BY <2>1, <4>1
    <3> QED
      BY <3>1, <3>2
  <2>3. more = [k \in 0 .. n |-> more[k]]
    OBVIOUS
  <2> HIDE DEF more
  <2>4. more = [k \in 0 .. n |-> IF k = 0 THEN <<>> ELSE Overlay(more[k - 1], items[k])]
    BY <2>2, <2>3
  <2> QED
    BY <2>4 DEF Overlaid
<1>4. \E map : Overlaid(items, map, N)
  <2> SUFFICES ASSUME Bad # {}
               PROVE  FALSE
    BY <1>1
  <2>1. Bad \in SUBSET Nat
    BY <1>1
  <2>2. PICK m \in Bad : \A j \in Bad : m <= j
    <3> HIDE DEF Bad
    <3> QED
      BY <2>1, FirstPlace
  <2>3. m \in 1 .. N
    BY <1>1, <1>2, <2>2
  <2>4. m - 1 \notin Bad /\ m - 1 \in 0 .. N
    BY <1>1, <2>2, <2>3
  <2> QED
    BY <1>3, <2>2, <2>3, <2>4
<1> DEFINE map == CHOOSE g : g = [n \in 0 .. N |-> IF n = 0 THEN <<>> ELSE Overlay(g[n - 1], items[n])]
<1>5. map = [n \in 0 .. N |-> IF n = 0 THEN <<>> ELSE Overlay(map[n - 1], items[n])]
  BY <1>4 DEF Overlaid
<1>6. ItemMap(f) = map[N]
  BY DEF ItemMap
<1> HIDE DEF map
<1> QED
  BY <1>5, <1>6 DEF Overlaid

(* What the array has become of the first n items: each name is there      *)
(* once, in the order of its first mention, and each of its fields is as   *)
(* it was mentioned last.                                                  *)
Mentions(items, n, name, field) ==
  {j \in 1 .. n : items[j].name = name /\ field \in DOMAIN items[j]}

MentionedBefore(items, n, x, y) ==
  \E p \in 1 .. n : items[p].name = x /\ \A q \in 1 .. p : items[q].name # y

FieldsFrom(item, items, n) ==
  \A field :
    /\ field \in DOMAIN item <=> Mentions(items, n, item.name, field) # {}
    /\ \A j \in Mentions(items, n, item.name, field) :
         (\A k \in Mentions(items, n, item.name, field) : k <= j) => item[field] = items[j][field]

MergedFrom(list, items, n) ==
  /\ list \in Seq(ToSet(list))
  /\ \A j \in 1 .. n : \E i \in DOMAIN list : list[i].name = items[j].name
  /\ \A i, k \in DOMAIN list : list[i].name = list[k].name => i = k
  /\ \A i, k \in DOMAIN list : i < k => MentionedBefore(items, n, list[i].name, list[k].name)
  /\ \A i \in DOMAIN list : FieldsFrom(list[i], items, n) /\ "name" \in DOMAIN list[i]

LEMMA FieldsUntouched ==
  ASSUME NEW items, NEW n \in Nat, NEW item, FieldsFrom(item, items, n), items[n + 1].name # item.name
  PROVE  FieldsFrom(item, items, n + 1)
<1>1. \A field : Mentions(items, n + 1, item.name, field) = Mentions(items, n, item.name, field)
  BY DEF Mentions
<1> QED
  BY <1>1 DEF FieldsFrom

LEMMA FieldsNew ==
  ASSUME NEW items, NEW n \in Nat, "name" \in DOMAIN items[n + 1],
         \A j \in 1 .. n : items[j].name # items[n + 1].name
  PROVE  FieldsFrom(items[n + 1], items, n + 1)
<1>1. ASSUME NEW field
      PROVE  Mentions(items, n + 1, items[n + 1].name, field)
               = IF field \in DOMAIN items[n + 1] THEN {n + 1} ELSE {}
  <2>1. \A j \in 1 .. n + 1 : j = n + 1 \/ j \in 1 .. n
    OBVIOUS
  <2> QED
    BY <2>1 DEF Mentions
<1> QED
  BY <1>1 DEF FieldsFrom

LEMMA FieldsSpread ==
  ASSUME NEW items, NEW n \in Nat, NEW old, FieldsFrom(old, items, n), "name" \in DOMAIN items[n + 1],
         items[n + 1].name = old.name
  PROVE  LET item == Spread(old, items[n + 1])
         IN  item.name = old.name /\ "name" \in DOMAIN item /\ FieldsFrom(item, items, n + 1)
<1> DEFINE item == Spread(old, items[n + 1])
<1>1. item.name = old.name /\ "name" \in DOMAIN item
  BY DEF Spread
<1>2. ASSUME NEW field
      PROVE  /\ field \in DOMAIN item <=> Mentions(items, n + 1, item.name, field) # {}
             /\ \A j \in Mentions(items, n + 1, item.name, field) :
                  (\A k \in Mentions(items, n + 1, item.name, field) : k <= j)
                    => item[field] = items[j][field]
  <2> DEFINE before == Mentions(items, n, old.name, field)
             now == Mentions(items, n + 1, old.name, field)
  <2>1. /\ field \in DOMAIN item <=> field \in DOMAIN items[n + 1] \/ field \in DOMAIN old
        /\ field \in DOMAIN items[n + 1] => item[field] = items[n + 1][field]
        /\ field \notin DOMAIN items[n + 1] /\ field \in DOMAIN old => item[field] = old[field]
    BY DEF Spread
  <2>2. now = before \cup (IF field \in DOMAIN items[n + 1] THEN {n + 1} ELSE {})
    <3>1. \A j \in 1 .. n + 1 : j = n + 1 \/ j \in 1 .. n
      OBVIOUS
    <3> QED
      BY <3>1 DEF Mentions
  <2>3. before \subseteq 1 .. n
    BY DEF Mentions
  <2>4. /\ field \in DOMAIN old <=> before # {}
        /\ \A j \in before : (\A k \in before : k <= j) => old[field] = items[j][field]
    BY DEF FieldsFrom
  <2> HIDE DEF item, before, now
  <2>5. CASE field \in DOMAIN items[n + 1]
    <3>1. n + 1 \in now /\ \A j \in now : (\A k \in now : k <= j) => j = n + 1
      <4>1. now = before \cup {n + 1}
        BY <2>2, <2>5
      <4>2. \A j \in now : j \in Int /\ j <= n + 1
        BY <2>3, <4>1
      <4> QED
        BY <4>1, <4>2
    <3>2. field \in DOMAIN item /\ item[field] = items[n + 1][field] /\ now # {}
      BY <2>1, <2>5, <3>1
    <3> QED
      BY <1>1, <3>1, <3>2 DEF now
  <2>6. CASE field \notin DOMAIN items[n + 1]
    BY <1>1, <2>1, <2>2, <2>4, <2>6 DEF now
  <2> QED
    BY <2>5, <2>6
<1> QED
  BY <1>1, <1>2 DEF FieldsFrom

LEMMA OverlayStep ==
  ASSUME NEW items, NEW n \in Nat, NEW list, MergedFrom(list, items, n), "name" \in DOMAIN items[n + 1]
  PROVE  MergedFrom(Overlay(list, items[n + 1]), items, n + 1)
<1> DEFINE new == items[n + 1]
           after == Overlay(list, new)
           L == Len(list)
<1>1. list \in Seq(ToSet(list)) /\ L \in Nat /\ DOMAIN list = 1 .. L
  BY DEF MergedFrom
<1>2. \A j \in 1 .. n + 1 : j = n + 1 \/ j \in 1 .. n
  OBVIOUS
<1>3. CASE \A i \in DOMAIN list : list[i].name # new.name
  <2>1. after = Append(list, new)
    BY <1>3 DEF Overlay
  <2>2. \A j \in 1 .. n : items[j].name # new.name
    BY <1>3 DEF MergedFrom
  <2> DEFINE T == ToSet(list) \cup {new}
  <2>3. list \in Seq(T) /\ new \in T
    <3>1. list = [i \in 1 .. L |-> list[i]] /\ (\A i \in 1 .. L : list[i] \in T) /\ new \in T
      BY <1>1 DEF ToSet
    <3> HIDE DEF T, new
    <3> QED
      BY <1>1, <3>1
  <2>4. /\ after \in Seq(T) /\ DOMAIN after = 1 .. L + 1
        /\ \A i \in 1 .. L : after[i] = list[i]
        /\ after[L + 1] = new
    <3> HIDE DEF T, after, new
    <3> QED
      BY <1>1, <2>1, <2>3
  <2> HIDE DEF after, new
  <2>5. \A i \in DOMAIN after : i = L + 1 \/ i \in 1 .. L
    BY <1>1, <2>4
  <2>6. after \in Seq(ToSet(after))
    <3>1. after = [i \in 1 .. L + 1 |-> after[i]] /\ \A i \in 1 .. L + 1 : after[i] \in ToSet(after)
      BY <2>4 DEF ToSet
    <3> QED
      BY <1>1, <3>1
  <2>7. \A j \in 1 .. n + 1 : \E i \in DOMAIN after : after[i].name = items[j].name
    <3>1. \A j \in 1 .. n : \E i \in DOMAIN list : list[i].name = items[j].name
      BY DEF MergedFrom
    <3>2. \A i \in DOMAIN list : i \in DOMAIN after /\ after[i] = list[i]
      BY <1>1, <2>4
    <3>3. L + 1 \in DOMAIN after
      BY <1>1, <2>4
    <3> QED
      BY <1>2, <2>4, <3>1, <3>2, <3>3 DEF new
  <2>8. \A i, k \in DOMAIN after : after[i].name = after[k].name => i = k
    BY <1>1, <1>3, <2>4, <2>5 DEF MergedFrom
  <2>9. ASSUME NEW i \in DOMAIN after, NEW k \in DOMAIN after, i < k
        PROVE  MentionedBefore(items, n + 1, after[i].name, after[k].name)
    <3>1. i \in 1 .. L /\ after[i] = list[i]
      BY <1>1, <2>4, <2>5, <2>9
    <3>2. CASE k \in 1 .. L
      BY <1>1, <2>4, <2>9, <3>1, <3>2 DEF MergedFrom, MentionedBefore
    <3>3. CASE k = L + 1
      <4>1. \E p \in 1 .. n : items[p].name = list[i].name
        <5>1. FieldsFrom(list[i], items, n) /\ "name" \in DOMAIN list[i]
          BY <1>1, <3>1 DEF MergedFrom
        <5>2. Mentions(items, n, list[i].name, "name") # {}
          BY <5>1 DEF FieldsFrom
        <5> QED
          BY <5>2 DEF Mentions
      <4> QED
        BY <2>2, <2>4, <3>1, <3>3, <4>1 DEF MentionedBefore
    <3> QED
      BY <2>5, <3>2, <3>3
  <2>10. ASSUME NEW i \in DOMAIN after
         PROVE  FieldsFrom(after[i], items, n + 1) /\ "name" \in DOMAIN after[i]
    <3>1. CASE i \in 1 .. L
      <4>1. FieldsFrom(list[i], items, n) /\ "name" \in DOMAIN list[i] /\ items[n + 1].name # list[i].name
        BY <1>1, <1>3, <3>1 DEF MergedFrom, new
      <4> QED
        BY <2>4, <3>1, <4>1, FieldsUntouched
    <3>2. CASE i = L + 1
      BY <2>2, <2>4, <3>2, FieldsNew DEF new
    <3> QED
      BY <2>5, <3>1, <3>2
  <2> QED
    BY <2>6, <2>7, <2>8, <2>9, <2>10 DEF MergedFrom, after, new
<1>4. CASE ~ \A i \in DOMAIN list : list[i].name # new.name
  <2>1. after = [i \in DOMAIN list |-> IF list[i].name = new.name THEN Spread(list[i], new) ELSE list[i]]
    BY <1>4 DEF Overlay
  <2>2. DOMAIN after = 1 .. L
    BY <1>1, <2>1
  <2>3. ASSUME NEW i \in 1 .. L
        PROVE  /\ after[i].name = list[i].name /\ "name" \in DOMAIN after[i]
               /\ FieldsFrom(after[i], items, n + 1)
    <3>1. FieldsFrom(list[i], items, n) /\ "name" \in DOMAIN list[i]
      BY <1>1 DEF MergedFrom
    <3>2. CASE list[i].name = new.name
      <4>1. after[i] = Spread(list[i], new)
        BY <1>1, <2>1, <3>2
      <4> HIDE DEF after
      <4> QED
        BY <3>1, <3>2, <4>1, FieldsSpread
    <3>3. CASE list[i].name # new.name
      <4>1. after[i] = list[i]
        BY <1>1, <2>1, <3>3
      <4> HIDE DEF after
      <4> QED
        BY <3>1, <3>3, <4>1, FieldsUntouched
    <3> QED
      BY <3>2, <3>3
  <2> HIDE DEF after, new
  <2>4. after \in Seq(ToSet(after))
    <3>1. after = [i \in 1 .. L |-> after[i]] /\ \A i \in 1 .. L : after[i] \in ToSet(after)
      BY <2>1, <2>2 DEF ToSet
    <3> QED
      BY <1>1, <3>1
  <2>5. \A j \in 1 .. n + 1 : \E i \in DOMAIN after : after[i].name = items[j].name
    <3>1. \A j \in 1 .. n : \E i \in 1 .. L : list[i].name = items[j].name
      BY <1>1 DEF MergedFrom
    <3>2. \E i \in 1 .. L : list[i].name = new.name
      BY <1>1, <1>4
    <3> QED
      BY <1>2, <2>2, <2>3, <3>1, <3>2 DEF new
  <2>6. \A i, k \in DOMAIN after : after[i].name = after[k].name => i = k
    BY <1>1, <2>2, <2>3 DEF MergedFrom
  <2>7. \A i, k \in DOMAIN after : i < k => MentionedBefore(items, n + 1, after[i].name, after[k].name)
    <3>1. \A i, k \in 1 .. L : i < k => MentionedBefore(items, n, list[i].name, list[k].name)
      BY <1>1 DEF MergedFrom
    <3> QED
      BY <2>2, <2>3, <3>1 DEF MentionedBefore
  <2> QED
    BY <2>2, <2>3, <2>4, <2>5, <2>6, <2>7 DEF MergedFrom, after, new
<1> QED
  BY <1>3, <1>4

LEMMA ItemMapMerged ==
  ASSUME NEW f \in Frontends
  PROVE  MergedFrom(ItemMap(f), Items(f), Len(Items(f)))
<1> DEFINE items == Items(f)
           N == Len(items)
<1>1. /\ N \in Nat /\ \A i \in 1 .. N : "name" \in DOMAIN items[i]
  BY ItemFacts
<1>2. PICK map : Overlaid(items, map, N) /\ ItemMap(f) = map[N]
  BY ItemMapFacts
<1> HIDE DEF items, N
<1> DEFINE Bad == {n \in 0 .. N : ~MergedFrom(map[n], items, n)}
<1>3. MergedFrom(map[0], items, 0)
  <2>1. map[0] = <<>>
    BY <1>1, <1>2 DEF Overlaid
  <2>2. <<>> \in Seq(ToSet(<<>>)) /\ DOMAIN <<>> = {}
    OBVIOUS
  <2> QED
    BY <2>1, <2>2 DEF MergedFrom
<1>4. ASSUME NEW n \in 1 .. N, MergedFrom(map[n - 1], items, n - 1)
      PROVE  MergedFrom(map[n], items, n)
  <2>1. map[n] = Overlay(map[n - 1], items[n])
    BY <1>1, <1>2 DEF Overlaid
  <2>2. n - 1 \in Nat /\ (n - 1) + 1 = n
    BY <1>1
  <2> QED
    BY <1>1, <1>4, <2>1, <2>2, OverlayStep
<1>5. MergedFrom(map[N], items, N)
  <2> SUFFICES ASSUME Bad # {}
               PROVE  FALSE
    BY <1>1
  <2>1. Bad \in SUBSET Nat
    BY <1>1
  <2>2. PICK m \in Bad : \A j \in Bad : m <= j
    <3> HIDE DEF Bad
    <3> QED
      BY <2>1, FirstPlace
  <2>3. m \in 1 .. N
    BY <1>1, <1>3, <2>2
  <2>4. m - 1 \notin Bad /\ m - 1 \in 0 .. N
    BY <1>1, <2>2, <2>3
  <2> QED
    BY <1>4, <2>2, <2>3, <2>4
<1> QED
  BY <1>2, <1>5 DEF items, N

\* The reference finds the same fields.
LEMMA FieldsEffective ==
  ASSUME frontend \in Frontends, NEW i \in DOMAIN ItemMap(frontend), NEW field, NEW default
  PROVE  Field(ItemMap(frontend)[i], field, default)
           = Effective(ItemMap(frontend)[i].name, field, default)
<1> DEFINE items == Items(frontend)
           N == Len(items)
           item == ItemMap(frontend)[i]
           mentions == {j \in DOMAIN items : items[j].name = item.name /\ field \in DOMAIN items[j]}
           last == CHOOSE j \in mentions : \A k \in mentions : k <= j
<1>1. N \in Nat /\ DOMAIN items = 1 .. N
  BY ItemFacts
<1>2. FieldsFrom(item, items, N)
  BY ItemMapMerged DEF MergedFrom
<1>3. mentions = Mentions(items, N, item.name, field)
  BY <1>1 DEF Mentions
<1>4. Effective(item.name, field, default) = IF mentions = {} THEN default ELSE items[last][field]
  BY DEF Effective
<1>5. mentions \in SUBSET (1 .. N)
  BY <1>1
<1> HIDE DEF mentions, item, items, N
<1>6. CASE mentions = {}
  BY <1>2, <1>3, <1>4, <1>6 DEF FieldsFrom, Field, item
<1>7. CASE mentions # {}
  <2>1. last \in mentions /\ \A k \in mentions : k <= last
    BY <1>1, <1>5, <1>7, LastPlace
  <2> HIDE DEF last
  <2>2. field \in DOMAIN item /\ item[field] = items[last][field]
    BY <1>2, <1>3, <1>7, <2>1 DEF FieldsFrom
  <2> QED
    BY <1>4, <1>7, <2>2 DEF Field, item
<1> QED
  BY <1>6, <1>7

LEMMA FirstMentions ==
  ASSUME frontend \in Frontends, NEW n \in NamesOf(frontend)
  PROVE  /\ FirstMention(n) \in 1 .. Len(Items(frontend))
         /\ Items(frontend)[FirstMention(n)].name = n
         /\ \A j \in 1 .. FirstMention(n) - 1 : Items(frontend)[j].name # n
<1> DEFINE items == Items(frontend)
           places == {i \in DOMAIN items : items[i].name = n}
<1>1. Len(items) \in Nat /\ DOMAIN items = 1 .. Len(items)
  BY ItemFacts
<1>2. places # {}
  BY DEF NamesOf, MapSeq, Name, ToSet
<1>3. PICK i \in places : \A j \in places : i <= j
  <2>1. places \in SUBSET Nat
    BY <1>1
  <2> HIDE DEF places
  <2> QED
    BY <1>2, <2>1, FirstPlace
<1>4. i \in DOMAIN items /\ items[i].name = n /\ \A j \in 1 .. i - 1 : items[j].name # n
  BY <1>1, <1>3
<1> QED
  BY <1>1, <1>4 DEF FirstMention

KeptNames ==
  {n \in NamesOf(frontend) : Effective(n, "enabled", TRUE) # FALSE /\ Effective(n, "title", "") # ""}

KeptBelow(parent) == {n \in KeptNames : Effective(n, "parent", "") = parent}

ComesFirst(m, n) ==
  \/ Effective(m, "priority", 0) > Effective(n, "priority", 0)
  \/ /\ Effective(m, "priority", 0) = Effective(n, "priority", 0)
     /\ FirstMention(m) < FirstMention(n)

(* The same, as values that change with the configuration only.            *)
Precedes == {p \in NamesOf(frontend) \X NamesOf(frontend) : ComesFirst(p[1], p[2])}

ChildNames == [parent \in NamesOf(frontend) \cup {""} |-> KeptBelow(parent)]

(* A list of these names, in this order.                                   *)
Listed(list, names, order) ==
  /\ \E n \in Nat : DOMAIN list = 1 .. n
  /\ ToSet(list) = names
  /\ IsInjective(list)
  /\ \A i, j \in DOMAIN list : i < j => <<list[i], list[j]>> \in order

LEMMA MapNames ==
  ASSUME frontend \in Frontends
  PROVE  LET map == ItemMap(frontend)
         IN  /\ \E n \in Nat : DOMAIN map = 1 .. n
             /\ \A n : n \in NamesOf(frontend) <=> \E i \in DOMAIN map : map[i].name = n
             /\ \A i, k \in DOMAIN map : map[i].name = map[k].name => i = k
             /\ \A i, k \in DOMAIN map : i < k => FirstMention(map[i].name) < FirstMention(map[k].name)
             /\ \A i \in DOMAIN map : Priority(map[i]) \in Int
<1> DEFINE items == Items(frontend)
           N == Len(items)
           map == ItemMap(frontend)
<1>1. MergedFrom(map, items, N)
  BY ItemMapMerged
<1>2. N \in Nat /\ DOMAIN items = 1 .. N
  BY ItemFacts
<1>3. NamesOf(frontend) = {items[j].name : j \in 1 .. N}
  BY <1>2 DEF NamesOf, MapSeq, Name, ToSet
<1>4. \A i \in 1 .. N : "priority" \in DOMAIN items[i] => items[i].priority \in Int
  BY ItemFacts
<1> HIDE DEF map, items, N
<1>5. \E n \in Nat : DOMAIN map = 1 .. n
  <2>1. map \in Seq(ToSet(map))
    BY <1>1 DEF MergedFrom
  <2> QED
    BY <2>1
<1>6. ASSUME NEW i \in DOMAIN map
      PROVE  map[i].name \in NamesOf(frontend)
  <2>1. FieldsFrom(map[i], items, N) /\ "name" \in DOMAIN map[i]
    BY <1>1 DEF MergedFrom
  <2>2. Mentions(items, N, map[i].name, "name") # {}
    BY <2>1 DEF FieldsFrom
  <2> QED
    BY <1>3, <2>2 DEF Mentions
<1>7. \A n \in NamesOf(frontend) : \E i \in DOMAIN map : map[i].name = n
  BY <1>1, <1>3 DEF MergedFrom
<1>8. ASSUME NEW i \in DOMAIN map, NEW k \in DOMAIN map, i < k
      PROVE  FirstMention(map[i].name) < FirstMention(map[k].name)
  <2> DEFINE x == map[i].name
             y == map[k].name
  <2>1. PICK p \in 1 .. N : items[p].name = x /\ \A q \in 1 .. p : items[q].name # y
    BY <1>1, <1>8 DEF MergedFrom, MentionedBefore
  <2>2. x \in NamesOf(frontend) /\ y \in NamesOf(frontend)
    BY <1>6
  <2> HIDE DEF x, y
  <2>3. /\ FirstMention(x) \in 1 .. N /\ \A j \in 1 .. FirstMention(x) - 1 : items[j].name # x
        /\ FirstMention(y) \in 1 .. N /\ items[FirstMention(y)].name = y
    BY <2>2, FirstMentions DEF items, N
  <2>4. ~(p < FirstMention(x))
    BY <1>2, <2>1, <2>3
  <2>5. ~(FirstMention(y) <= p)
    BY <1>2, <2>1, <2>3
  <2> QED
    BY <1>2, <2>3, <2>4, <2>5 DEF x, y
<1>9. ASSUME NEW i \in DOMAIN map
      PROVE  Priority(map[i]) \in Int
  <2> DEFINE mentions == Mentions(items, N, map[i].name, "priority")
  <2>1. /\ "priority" \in DOMAIN map[i] <=> mentions # {}
        /\ \A j \in mentions : (\A k \in mentions : k <= j) => map[i]["priority"] = items[j]["priority"]
    BY <1>1 DEF MergedFrom, FieldsFrom
  <2>2. mentions \in SUBSET (1 .. N) /\ \A j \in mentions : items[j].priority \in Int
    BY <1>4 DEF Mentions
  <2> HIDE DEF mentions
  <2>3. CASE mentions = {}
    BY <2>1, <2>3 DEF Priority, Field
  <2>4. CASE mentions # {}
    <3>1. PICK j \in mentions : \A k \in mentions : k <= j
      BY <1>2, <2>2, <2>4, LastPlace
    <3>2. "priority" \in DOMAIN map[i] /\ map[i]["priority"] \in Int
      BY <2>1, <2>2, <2>4, <3>1
    <3> QED
      BY <3>2 DEF Priority, Field
  <2> QED
    BY <2>3, <2>4
<1> QED
  BY <1>1, <1>5, <1>6, <1>7, <1>8, <1>9 DEF MergedFrom, map

LEMMA SiblingsListed ==
  ASSUME frontend \in Frontends, NEW parent
  PROVE  Listed(Siblings(frontend, parent), KeptBelow(parent), Precedes)
<1> DEFINE map == ItemMap(frontend)
           places == {i \in DOMAIN map : Kept(map[i]) /\ Parent(map[i]) = parent}
           before == {p \in places \X places : GoesFirst(map, p[1], p[2])}
           a == Arranged(places, before)
           list == Siblings(frontend, parent)
<1>1. /\ \E n \in Nat : DOMAIN map = 1 .. n
      /\ \A n : n \in NamesOf(frontend) <=> \E i \in DOMAIN map : map[i].name = n
      /\ \A i, k \in DOMAIN map : map[i].name = map[k].name => i = k
      /\ \A i, k \in DOMAIN map : i < k => FirstMention(map[i].name) < FirstMention(map[k].name)
      /\ \A i \in DOMAIN map : Priority(map[i]) \in Int
  BY MapNames
<1>2. ASSUME NEW i \in DOMAIN map
      PROVE  /\ Kept(map[i]) <=> map[i].name \in KeptNames
             /\ Parent(map[i]) = Effective(map[i].name, "parent", "")
             /\ Priority(map[i]) = Effective(map[i].name, "priority", 0)
  <2>1. \A field, default : Field(map[i], field, default) = Effective(map[i].name, field, default)
    BY FieldsEffective
  <2>2. map[i].name \in NamesOf(frontend)
    BY <1>1
  <2> HIDE DEF map
  <2> QED
    BY <2>1, <2>2 DEF Kept, Parent, Priority, KeptNames
<1>3. list = [k \in DOMAIN a |-> map[a[k]].name]
  BY DEF Siblings, MapSeq, Name, Taken
<1> HIDE DEF map
<1>4. \A x, y \in places : <<x, y>> \in before <=> GoesFirst(map, x, y)
  OBVIOUS
<1>5. places \subseteq DOMAIN map /\ \A x \in places : x \in Int /\ Priority(map[x]) \in Int
  BY <1>1
<1>6. \A n : n \in KeptBelow(parent) <=> \E i \in places : map[i].name = n
  BY <1>1, <1>2 DEF KeptBelow, KeptNames
<1>7. IsFiniteSet(places)
  <2>1. PICK n \in Nat : DOMAIN map = 1 .. n
    BY <1>1
  <2> QED
    BY <1>5, <2>1, FinitePlaces
<1> HIDE DEF places, before, list
<1>8. Orders(before, places)
  <2>1. \A x \in places : <<x, x>> \notin before
    BY <1>4, <1>5 DEF GoesFirst
  <2>2. \A x, y \in places : x # y => <<x, y>> \in before \/ <<y, x>> \in before
    BY <1>4, <1>5 DEF GoesFirst
  <2>3. \A x, y, z \in places : <<x, y>> \in before /\ <<y, z>> \in before => <<x, z>> \in before
    BY <1>4, <1>5 DEF GoesFirst
  <2> QED
    BY <2>1, <2>2, <2>3 DEF Orders
<1>9. /\ DOMAIN a = 1 .. Cardinality(places) /\ Cardinality(places) \in Nat
      /\ \A k \in DOMAIN a : a[k] \in places
      /\ \A x \in places : \E k \in DOMAIN a : a[k] = x
      /\ \A k, l \in DOMAIN a : k < l => <<a[k], a[l]>> \in before
      /\ \A k, l \in DOMAIN a : a[k] = a[l] => k = l
  BY <1>7, <1>8, ArrangedFacts
<1> HIDE DEF a
<1>10. DOMAIN list = DOMAIN a /\ \A k \in DOMAIN a : list[k] = map[a[k]].name
  BY <1>3
<1>11. ToSet(list) = KeptBelow(parent)
  <2>1. \A n : n \in ToSet(list) <=> \E i \in places : map[i].name = n
    BY <1>9, <1>10 DEF ToSet
  <2> QED
    BY <1>6, <2>1
<1>12. IsInjective(list)
  BY <1>1, <1>5, <1>9, <1>10 DEF IsInjective
<1>13. ASSUME NEW k \in DOMAIN list, NEW l \in DOMAIN list, k < l
       PROVE  ComesFirst(list[k], list[l])
  <2>1. a[k] \in DOMAIN map /\ a[l] \in DOMAIN map /\ GoesFirst(map, a[k], a[l])
    BY <1>4, <1>5, <1>9, <1>10, <1>13
  <2> DEFINE i == a[k]
             j == a[l]
  <2>2. /\ Priority(map[i]) = Effective(list[k], "priority", 0)
        /\ Priority(map[j]) = Effective(list[l], "priority", 0)
    BY <1>2, <1>10, <1>13, <2>1
  <2>3. i < j => FirstMention(list[k]) < FirstMention(list[l])
    BY <1>1, <1>10, <1>13, <2>1
  <2> HIDE DEF i, j
  <2>4. Priority(map[i]) > Priority(map[j]) \/ (Priority(map[i]) = Priority(map[j]) /\ i < j)
    BY <2>1 DEF GoesFirst, i, j
  <2> QED
    BY <2>2, <2>3, <2>4 DEF ComesFirst
<1>14. \A k, l \in DOMAIN list : k < l => <<list[k], list[l]>> \in Precedes
  <2>1. \A k \in DOMAIN list : list[k] \in NamesOf(frontend)
    BY <1>11 DEF ToSet, KeptBelow, KeptNames
  <2> QED
    BY <1>13, <2>1 DEF Precedes
<1> QED
  BY <1>9, <1>10, <1>11, <1>12, <1>14 DEF Listed, list

LEMMA StripListed ==
  ASSUME NEW list, NEW names, NEW order, Listed(list, names, order)
  PROVE  Listed(Strip(list), names \ {"rbac"}, order)
<1> DEFINE places == {i \in DOMAIN list : list[i] # "rbac"}
           a == Arranged(places, Ascending(places))
           kept == Strip(list)
<1>1. PICK n \in Nat : DOMAIN list = 1 .. n
  BY DEF Listed
<1>2. kept = Picked(list, places)
  BY DEF Strip
<1>3. places \in SUBSET (1 .. n)
  BY <1>1
<1> HIDE DEF places
<1>4. /\ DOMAIN a = 1 .. Cardinality(places) /\ Cardinality(places) \in Nat
      /\ DOMAIN kept = DOMAIN a
      /\ \A k \in DOMAIN a : a[k] \in places /\ kept[k] = list[a[k]]
      /\ \A x \in places : \E k \in DOMAIN a : a[k] = x
      /\ \A k, l \in DOMAIN a : k < l => a[k] < a[l]
  <2>1. /\ DOMAIN a = 1 .. Cardinality(places) /\ Cardinality(places) \in Nat
        /\ DOMAIN Picked(list, places) = DOMAIN a
        /\ \A k \in DOMAIN a : a[k] \in places /\ Picked(list, places)[k] = list[a[k]]
        /\ \A x \in places : \E k \in DOMAIN a : a[k] = x
        /\ \A k, l \in DOMAIN a : k < l => a[k] < a[l]
    BY <1>1, <1>3, PickedFacts
  <2> HIDE DEF kept, a
  <2> QED
    BY <1>2, <2>1
<1> HIDE DEF a, kept
<1>5. \A i : i \in places <=> i \in DOMAIN list /\ list[i] # "rbac"
  BY DEF places
<1>6. ToSet(kept) = names \ {"rbac"}
  BY <1>4, <1>5 DEF Listed, ToSet
<1>7. IsInjective(kept)
  <2> SUFFICES ASSUME NEW k \in DOMAIN kept, NEW l \in DOMAIN kept, kept[k] = kept[l]
               PROVE  k = l
    BY DEF IsInjective
  <2>1. a[k] = a[l] /\ a[k] \in Int
    BY <1>1, <1>4, <1>5 DEF Listed, IsInjective
  <2>2. ~(k < l) /\ ~(l < k)
    BY <1>4, <2>1
  <2> QED
    BY <1>4, <2>2
<1>8. \A k, l \in DOMAIN kept : k < l => <<kept[k], kept[l]>> \in order
  BY <1>4, <1>5 DEF Listed
<1> QED
  BY <1>4, <1>6, <1>7, <1>8 DEF Listed, kept

(* What the sidebar is made of: the lists of the top level and of every    *)
(* item's children, less the RBAC item when it was stripped.               *)
Stripped == denied /\ showAdministration

Without(parent, stripped) == IF stripped /\ parent = "admin" THEN {"rbac"} ELSE {}

SidebarInv ==
  /\ frontend \in Frontends /\ pc \in {"starting", "extracted", "mounted", "crashed"}
  /\ pc \in {"starting", "extracted"} => ~denied
  /\ pc \in {"extracted", "mounted"} =>
       /\ Listed(tree, ChildNames[""], Precedes)
       /\ DOMAIN children = NamesOf(frontend)
       /\ \A n \in NamesOf(frontend) :
            Listed(children[n], ChildNames[n] \ Without(n, Stripped), Precedes)
       /\ Stripped => AdminThere

LEMMA SidebarInitInv == Init => SidebarInv
  BY DEF Init, SidebarInv

LEMMA SidebarStep == ASSUME SidebarInv, Next PROVE SidebarInv'
<1>1. UNCHANGED frontend
  BY DEF Next, Extract, Mount, RenderAgain, RenderThrows
<1>2. /\ Precedes' = Precedes /\ ChildNames' = ChildNames
      /\ NamesOf(frontend)' = NamesOf(frontend) /\ frontend' \in Frontends
  <2>1. /\ Precedes' = Precedes /\ ChildNames' = ChildNames
        /\ NamesOf(frontend)' = NamesOf(frontend)
    BY <1>1 DEF Precedes, ChildNames, KeptBelow, KeptNames, ComesFirst, FirstMention, Effective
  <2> QED
    BY <1>1, <2>1 DEF SidebarInv
<1>3. CASE Extract
  <2>1. \A n \in NamesOf(frontend) \cup {""} : Listed(Siblings(frontend, n), ChildNames[n], Precedes)
    BY SiblingsListed DEF SidebarInv, ChildNames
  <2>2. /\ tree' = Siblings(frontend, "") /\ ~denied /\ denied' = denied /\ pc' = "extracted"
        /\ children' = [n \in NamesOf(frontend) |-> Siblings(frontend, n)]
    BY <1>3 DEF Extract, SidebarInv
  <2>3. ~Stripped'
    BY <2>2 DEF Stripped
  <2>4. \A n \in NamesOf(frontend) :
          Listed(children'[n], ChildNames[n] \ Without(n, Stripped'), Precedes)
    BY <2>1, <2>2, <2>3 DEF Without
  <2> QED
    BY <1>2, <2>1, <2>2, <2>3, <2>4 DEF SidebarInv
<1>4. CASE Mount
  BY <1>2, <1>4 DEF Mount, SidebarInv, Stripped, AdminThere
<1>5. ASSUME NEW reply \in {"allowed", "denied"}, RenderAgain(reply)
      PROVE  SidebarInv'
  <2>1. /\ pc = "mounted" /\ pc' = pc /\ tree' = tree /\ denied' = (denied \/ reply = "denied")
        /\ UNCHANGED showAdministration
        /\ children' = IF StripsRbac(reply) THEN [children EXCEPT !["admin"] = Strip(@)] ELSE children
        /\ StripsRbac(reply) => AdminThere
    BY <1>5 DEF RenderAgain
  <2>2. Stripped' <=> Stripped \/ StripsRbac(reply)
    BY <2>1 DEF Stripped, StripsRbac
  <2>3. Stripped' => AdminThere'
    BY <2>1, <2>2 DEF SidebarInv, AdminThere
  <2>4. ASSUME NEW n \in NamesOf(frontend)
        PROVE  Listed(children'[n], ChildNames[n] \ Without(n, Stripped'), Precedes)
    <3>1. Listed(children[n], ChildNames[n] \ Without(n, Stripped), Precedes) /\ n \in DOMAIN children
      BY <2>1 DEF SidebarInv
    <3>2. CASE StripsRbac(reply) /\ n = "admin"
      <4>1. children'[n] = Strip(children[n])
        BY <2>1, <3>1, <3>2
      <4>2. ChildNames[n] \ Without(n, Stripped') = (ChildNames[n] \ Without(n, Stripped)) \ {"rbac"}
        BY <2>2, <3>2 DEF Without
      <4> QED
        BY <3>1, <4>1, <4>2, StripListed
    <3>3. CASE ~(StripsRbac(reply) /\ n = "admin")
      <4>1. children'[n] = children[n]
        BY <2>1, <3>1, <3>3
      <4>2. Without(n, Stripped') = Without(n, Stripped)
        BY <2>2, <3>3 DEF Without
      <4> QED
        BY <3>1, <4>1, <4>2
    <3> QED
      BY <3>2, <3>3
  <2>5. DOMAIN children' = NamesOf(frontend)
    BY <2>1 DEF SidebarInv
  <2> QED
    BY <1>2, <2>1, <2>3, <2>4, <2>5 DEF SidebarInv
<1>6. ASSUME NEW reply \in {"allowed", "denied"}, RenderThrows(reply)
      PROVE  SidebarInv'
  BY <1>2, <1>6 DEF RenderThrows, SidebarInv
<1> QED
  BY <1>3, <1>4, <1>5, <1>6 DEF Next

LEMMA SidebarStands == ASSUME SidebarInv, UNCHANGED vars PROVE SidebarInv'
<1>1. /\ Precedes' = Precedes /\ ChildNames' = ChildNames
      /\ NamesOf(frontend)' = NamesOf(frontend) /\ frontend' = frontend
  BY DEF vars, Precedes, ChildNames, KeptBelow, KeptNames, ComesFirst, FirstMention, Effective
<1> QED
  BY <1>1 DEF SidebarInv, vars, Stripped, AdminThere

(* Ordered: FirstMention and priority of any two of a list.                *)
LEMMA SidebarOrdered == SidebarInv => Ordered
<1> SUFFICES ASSUME SidebarInv, pc \in {"extracted", "mounted"},
                    NEW list \in {tree} \cup {children[n] : n \in DOMAIN children},
                    NEW i \in DOMAIN list, NEW j \in DOMAIN list, i < j
             PROVE  ComesFirst(list[i], list[j])
  BY DEF Ordered, ComesFirst
<1>1. \E names : Listed(list, names, Precedes)
  BY DEF SidebarInv
<1> QED
  BY <1>1 DEF Listed, Precedes

-----------------------------------------------------------------------------
(* Chains of up to three items, each below the one before.                 *)

Below(chains, kids) == UNION {{Append(c, n) : n \in kids[Last(c)]} : c \in chains}

IsChain(c, top, kids) ==
  \/ \E a \in top : c = <<a>>
  \/ \E a \in top : \E b \in kids[a] : c = <<a, b>>
  \/ \E a \in top : \E b \in kids[a] : \E d \in kids[b] : c = <<a, b, d>>

LEMMA BelowFacts ==
  ASSUME NEW kids, NEW chains, NEW x
  PROVE  x \in Below(chains, kids) <=> \E c \in chains : \E n \in kids[Last(c)] : x = Append(c, n)
  BY DEF Below

\* What is below sequences of one and of two.
LEMMA AppendToOne ==
  ASSUME NEW a, NEW b
  PROVE  Append(<<a>>, b) = <<a, b>> /\ Last(<<a>>) = a
<1>1. Last(<<a>>) = a
  BY <<a>>[1] = a, Len(<<a>>) = 1 DEF Last
<1> DEFINE T == {a, b}
           s == Append(<<a>>, b)
<1>2. <<a>> \in Seq(T) /\ <<a, b>> \in Seq(T) /\ Len(<<a, b>>) = 2 /\ b \in T
  OBVIOUS
<1> HIDE DEF T
<1>3. s \in Seq(T) /\ Len(s) = 2 /\ s[1] = a /\ s[2] = b
  BY <1>2
<1> HIDE DEF s
<1>4. \A i \in 1 .. Len(s) : s[i] = <<a, b>>[i]
  BY <1>3
<1>5. s = <<a, b>>
  BY <1>2, <1>3, <1>4, SeqEqual
<1> QED
  BY <1>1, <1>5 DEF s

LEMMA AppendToTwo ==
  ASSUME NEW a, NEW b, NEW d
  PROVE  Append(<<a, b>>, d) = <<a, b, d>> /\ Last(<<a, b>>) = b
<1>1. Last(<<a, b>>) = b
  BY <<a, b>>[2] = b, Len(<<a, b>>) = 2 DEF Last
<1> DEFINE T == {a, b, d}
           s == Append(<<a, b>>, d)
<1>2. <<a, b>> \in Seq(T) /\ <<a, b, d>> \in Seq(T) /\ Len(<<a, b, d>>) = 3 /\ d \in T
  OBVIOUS
<1> HIDE DEF T
<1>3. s \in Seq(T) /\ Len(s) = 3 /\ s[1] = a /\ s[2] = b /\ s[3] = d
  BY <1>2
<1> HIDE DEF s
<1>4. \A i \in 1 .. Len(s) : s[i] = <<a, b, d>>[i]
  BY <1>3
<1>5. s = <<a, b, d>>
  BY <1>2, <1>3, <1>4, SeqEqual
<1> QED
  BY <1>1, <1>5 DEF s

LEMMA ChainsDown ==
  ASSUME NEW top, NEW kids, NEW c
  PROVE  c \in ThreeLevels(top, kids) <=> IsChain(c, top, kids)
<1> DEFINE first == {<<n>> : n \in top}
           second == Below(first, kids)
           third == Below(second, kids)
<1>1. ThreeLevels(top, kids) = first \cup second \cup third
  BY DEF ThreeLevels, Below
<1>2. \A x : x \in first <=> \E a \in top : x = <<a>>
  OBVIOUS
<1> HIDE DEF first
<1>3. \A x : x \in second <=> \E b \in first : \E n \in kids[Last(b)] : x = Append(b, n)
  BY BelowFacts
<1> HIDE DEF second
<1>4. \A x : x \in third <=> \E b \in second : \E n \in kids[Last(b)] : x = Append(b, n)
  BY BelowFacts
<1> HIDE DEF third
<1>5. \A x : x \in second <=> \E a \in top : \E b \in kids[a] : x = <<a, b>>
  <2>1. ASSUME NEW x \in second
        PROVE  \E a \in top : \E b \in kids[a] : x = <<a, b>>
    <3>1. PICK f \in first : \E n \in kids[Last(f)] : x = Append(f, n)
      BY <1>3
    <3>2. PICK a \in top : f = <<a>>
      BY <1>2
    <3>3. PICK n \in kids[Last(f)] : x = Append(f, n)
      BY <3>1
    <3>4. n \in kids[a] /\ x = <<a, n>>
      BY <3>2, <3>3, AppendToOne
    <3> QED
      BY <3>2, <3>4
  <2>2. ASSUME NEW a \in top, NEW b \in kids[a]
        PROVE  <<a, b>> \in second
    <3>1. <<a>> \in first /\ b \in kids[Last(<<a>>)] /\ <<a, b>> = Append(<<a>>, b)
      BY <1>2, AppendToOne
    <3> QED
      BY <1>3, <3>1
  <2> QED
    BY <2>1, <2>2
<1>6. \A x : x \in third <=> \E a \in top : \E b \in kids[a] : \E d \in kids[b] : x = <<a, b, d>>
  <2>1. ASSUME NEW x \in third
        PROVE  \E a \in top : \E b \in kids[a] : \E d \in kids[b] : x = <<a, b, d>>
    <3>1. PICK s \in second : \E n \in kids[Last(s)] : x = Append(s, n)
      BY <1>4
    <3>2. PICK a \in top : \E b \in kids[a] : s = <<a, b>>
      BY <1>5
    <3>3. PICK b \in kids[a] : s = <<a, b>>
      BY <3>2
    <3>4. PICK n \in kids[Last(s)] : x = Append(s, n)
      BY <3>1
    <3>5. n \in kids[b] /\ x = <<a, b, n>>
      BY <3>3, <3>4, AppendToTwo
    <3> QED
      BY <3>2, <3>3, <3>5
  <2>2. ASSUME NEW a \in top, NEW b \in kids[a], NEW d \in kids[b]
        PROVE  <<a, b, d>> \in third
    <3>1. <<a, b>> \in second /\ d \in kids[Last(<<a, b>>)] /\ <<a, b, d>> = Append(<<a, b>>, d)
      BY <1>5, AppendToTwo
    <3> QED
      BY <1>4, <3>1
  <2> QED
    BY <2>1, <2>2
<1> QED
  BY <1>1, <1>2, <1>5, <1>6 DEF IsChain

(* The sidebar, and what belongs into it, from the lists of names.         *)
LEMMA ShownChains ==
  ASSUME SidebarInv, pc = "mounted"
  PROVE  LET kids == [n \in NamesOf(frontend) |-> KeptBelow(n) \ Without(n, Stripped)]
         IN  \A c : c \in Chains <=> IsChain(c, KeptBelow(""), kids)
<1> DEFINE kids == [n \in NamesOf(frontend) |-> KeptBelow(n) \ Without(n, Stripped)]
<1>1. ToSet(tree) = KeptBelow("")
  BY DEF SidebarInv, Listed, ChildNames
<1>2. DOMAIN children = NamesOf(frontend)
  BY DEF SidebarInv
<1>3. \A n \in NamesOf(frontend) : ToSet(children[n]) = KeptBelow(n) \ Without(n, Stripped)
  BY DEF SidebarInv, Listed, ChildNames
<1>4. [n \in DOMAIN children |-> ToSet(children[n])] = kids
  BY <1>2, <1>3
<1> HIDE DEF kids
<1>5. Chains = ThreeLevels(KeptBelow(""), kids)
  BY <1>1, <1>4 DEF Chains
<1> QED
  BY <1>5, ChainsDown DEF kids

LEMMA PlaceableChains ==
  LET kids == [n \in KeptNames |-> KeptBelow(n)]
  IN  \A c : c \in Placeable <=> /\ IsChain(c, KeptBelow(""), kids)
                                 /\ c[1] = "admin" => showAdministration
<1> DEFINE kids == [n \in KeptNames |-> KeptBelow(n)]
<1>1. Placeable = {c \in ThreeLevels(KeptBelow(""), kids) : c[1] = "admin" => showAdministration}
  BY DEF Placeable, KeptNames, KeptBelow
<1> HIDE DEF kids
<1> QED
  BY <1>1, ChainsDown DEF kids

LEMMA KeptFacts ==
  ASSUME frontend \in Frontends
  PROVE  /\ KeptNames \subseteq NamesOf(frontend) /\ "" \notin KeptNames
         /\ \A n : KeptBelow(n) \subseteq KeptNames
<1>1. \A n \in NamesOf(frontend) : n # ""
  BY FirstMentions, ItemFacts
<1> QED
  BY <1>1 DEF KeptBelow, KeptNames

LEMMA SidebarPlaced == SidebarInv => Placed
<1> SUFFICES ASSUME SidebarInv, pc = "mounted", ~denied
             PROVE  /\ Sidebar = Placeable
                    /\ IsInjective(tree) /\ \A n \in DOMAIN children : IsInjective(children[n])
  BY DEF Placed
<1>1. IsInjective(tree) /\ \A n \in DOMAIN children : IsInjective(children[n])
  BY DEF SidebarInv, Listed
<1> DEFINE shownKids == [n \in NamesOf(frontend) |-> KeptBelow(n) \ Without(n, Stripped)]
           kids == [n \in KeptNames |-> KeptBelow(n)]
<1>2. \A n \in KeptNames : shownKids[n] = KeptBelow(n) /\ kids[n] = KeptBelow(n)
  BY KeptFacts DEF SidebarInv, Without, Stripped
<1>3. \A n : KeptBelow(n) \subseteq KeptNames
  BY KeptFacts DEF SidebarInv
<1>4. \A c : c \in Chains <=> IsChain(c, KeptBelow(""), shownKids)
  BY ShownChains
<1>5. \A c : c \in Placeable <=> /\ IsChain(c, KeptBelow(""), kids)
                                 /\ c[1] = "admin" => showAdministration
  BY PlaceableChains
<1> HIDE DEF shownKids, kids
<1>6. \A c : IsChain(c, KeptBelow(""), shownKids) <=> IsChain(c, KeptBelow(""), kids)
  BY <1>2, <1>3 DEF IsChain
<1>7. \A c : c \in Sidebar <=> c \in Placeable
  BY <1>4, <1>5, <1>6 DEF Sidebar
<1> HIDE DEF SidebarInv
<1> QED
  BY <1>1, <1>7

LEMMA SidebarStripped == SidebarInv => OnlyRbacStripped
<1> SUFFICES ASSUME SidebarInv, pc = "mounted", denied, showAdministration
             PROVE  Sidebar = {c \in Placeable : ~IsRbac(c)}
  BY DEF OnlyRbacStripped
<1> DEFINE shownKids == [n \in NamesOf(frontend) |-> KeptBelow(n) \ Without(n, Stripped)]
           kids == [n \in KeptNames |-> KeptBelow(n)]
           top == KeptBelow("")
<1>1. "admin" \in top
  BY DEF SidebarInv, Stripped, AdminThere, Listed, ChildNames
<1>2. /\ KeptNames \subseteq NamesOf(frontend) /\ "" \notin KeptNames
      /\ \A n : KeptBelow(n) \subseteq KeptNames
  BY KeptFacts DEF SidebarInv
<1>3. \A n \in KeptNames : "admin" \notin kids[n]
  BY <1>1, <1>2 DEF KeptBelow
<1>4. \A n \in KeptNames : /\ kids[n] \subseteq KeptNames
                           /\ \A m : m \in shownKids[n] <=> m \in kids[n] /\ ~(n = "admin" /\ m = "rbac")
  BY <1>2 DEF Without, Stripped
<1>5. top \subseteq KeptNames
  BY <1>2
<1>6. \A c : c \in Chains <=> IsChain(c, top, shownKids)
  BY ShownChains
<1>7. \A c : c \in Placeable <=> IsChain(c, top, kids)
  BY PlaceableChains
<1> HIDE DEF shownKids, kids, top
<1>8. ASSUME NEW c
      PROVE  IsChain(c, top, shownKids) <=> IsChain(c, top, kids) /\ ~IsRbac(c)
  <2>1. \A a : ~IsRbac(<<a>>)
    BY DEF IsRbac
  <2>2. \A a, b : IsRbac(<<a, b>>) <=> a = "admin" /\ b = "rbac"
    BY DEF IsRbac
  <2>3. \A a, b, d : IsRbac(<<a, b, d>>) <=> a = "admin" /\ b = "rbac"
    BY DEF IsRbac
  <2>4. ASSUME NEW a \in top, NEW b
        PROVE  b \in shownKids[a] <=> b \in kids[a] /\ ~(a = "admin" /\ b = "rbac")
    BY <1>4, <1>5
  <2>5. ASSUME NEW a \in top, NEW b \in kids[a], NEW d
        PROVE  d \in shownKids[b] <=> d \in kids[b]
    BY <1>3, <1>4, <1>5
  <2>6. IsChain(c, top, shownKids) => IsChain(c, top, kids) /\ ~IsRbac(c)
    BY <2>1, <2>2, <2>3, <2>4, <2>5 DEF IsChain
  <2>7. IsChain(c, top, kids) /\ ~IsRbac(c) => IsChain(c, top, shownKids)
    BY <2>1, <2>2, <2>3, <2>4, <2>5 DEF IsChain
  <2> QED
    BY <2>6, <2>7
<1>9. \A c : c \in Sidebar <=> c \in Placeable /\ ~IsRbac(c)
  BY <1>6, <1>7, <1>8 DEF Sidebar
<1> HIDE DEF SidebarInv
<1> QED
  BY <1>9

LEMMA SidebarInvariant == PagesSpec => []SidebarInv
<1>1. PagesInit => SidebarInv
  BY SidebarInitInv DEF PagesInit
<1>2. SidebarInv /\ [PagesNext]_pageVars => SidebarInv'
  <2> SUFFICES ASSUME SidebarInv, [PagesNext]_pageVars
               PROVE  SidebarInv'
    OBVIOUS
  <2>1. Next \/ UNCHANGED vars
    BY DEF PagesNext, Only, pageVars
  <2> QED
    BY <2>1, SidebarStep, SidebarStands
<1> QED
  BY <1>1, <1>2, PTL DEF PagesSpec

(* extractMenuItems, buildTree and Root: an item is in the sidebar, once   *)
(* and below its parent, if and only if what all plugins say of it         *)
(* together places it there, for any number of plugins and items.          *)
THEOREM PlacedAlways == PagesSpec => []Placed
  BY SidebarInvariant, SidebarPlaced, PTL

(* compareMenuItems and its stable sort: siblings are in the order of      *)
(* their priorities and first mentions, also when items were stripped.     *)
THEOREM OrderedAlways == PagesSpec => []Ordered
  BY SidebarInvariant, SidebarOrdered, PTL

(* Root: a user who was denied the permission once does not see the RBAC   *)
(* item and what is below it, and sees everything else.                    *)
THEOREM OnlyRbacStrippedAlways == PagesSpec => []OnlyRbacStripped
  BY SidebarInvariant, SidebarStripped, PTL

-----------------------------------------------------------------------------
(* The table of plugins.                                                   *)

\* What is counted by its places in a list.
LEMMA CountedByPlaces ==
  ASSUME NEW n \in Nat, NEW f, DOMAIN f = 1 .. n, IsInjective(f), NEW S, S = ToSet(f)
  PROVE  /\ IsFiniteSet(S) /\ Cardinality(S) = n
         /\ \A low, high \in Int : \A T \in SUBSET S :
              low <= high + 1 /\ (\A j \in 1 .. n : f[j] \in T => j \in low .. high) =>
                Cardinality(T) <= high - low + 1
<1>1. \A x \in S : \E j \in 1 .. n : f[j] = x
  BY DEF ToSet
<1>2. \A j \in 1 .. n : f[j] \in S
  BY DEF ToSet
<1>3. IsFiniteSet(S) /\ Cardinality(S) = n
  <2> DEFINE g == [j \in 1 .. n |-> f[j]]
  <2>1. g \in Bijection(1 .. n, S)
    BY <1>1, <1>2 DEF Bijection, Injection, Surjection, IsInjective
  <2>2. ExistsBijection(1 .. n, S)
    BY <2>1 DEF ExistsBijection
  <2> QED
    BY <2>2, FS_CountingElements, FS_NatBijection
<1>4. ASSUME NEW low \in Int, NEW high \in Int, low <= high + 1, NEW T \in SUBSET S,
             \A j \in 1 .. n : f[j] \in T => j \in low .. high
      PROVE  Cardinality(T) <= high - low + 1
  <2> DEFINE U == {j \in 1 .. n : f[j] \in T}
             g == [j \in U |-> f[j]]
  <2>1. U \in SUBSET (low .. high)
    BY <1>4
  <2>2. IsFiniteSet(low .. high) /\ Cardinality(low .. high) = high - low + 1
    BY <1>4, FS_Interval
  <2>3. IsFiniteSet(U) /\ Cardinality(U) <= high - low + 1 /\ Cardinality(U) \in Nat
    <3> HIDE DEF U
    <3> QED
      BY <2>1, <2>2, FS_Subset, FS_CardinalityType
  <2>4. g \in Surjection(U, T)
    BY <1>1 DEF Surjection
  <2>5. IsFiniteSet(T) /\ Cardinality(T) <= Cardinality(U) /\ Cardinality(T) \in Nat
    <3> HIDE DEF U, g
    <3> QED
      BY <2>3, <2>4, FS_Surjection, FS_CardinalityType
  <2> QED
    BY <1>4, <2>3, <2>5
<1> QED
  BY <1>3, <1>4

PluginRow == [name : Nat, version : Nat, enabled : {0, 1}, internal : {1, 2}]

LEMMA AllPluginsFacts ==
  ASSUME NEW l \in LoadedLists
  PROVE  LET rows == AllPlugins(l)
         IN  /\ rows \in Seq(PluginRow)
             /\ \A i, j \in DOMAIN rows : rows[i].name = rows[j].name => i = j
             /\ \A i \in DOMAIN rows :
                  rows[i].internal = Missing =>
                    i \in DOMAIN l /\ l[i].name \notin ToSet(InternalPlugins)
<1> DEFINE listed == [i \in DOMAIN l |->
                        [name |-> l[i].name, version |-> l[i].version, enabled |-> 1,
                         internal |-> IF l[i].name \in ToSet(InternalPlugins) THEN 1 ELSE Missing]]
           names == {l[i].name : i \in DOMAIN l}
           others == NotEnabledInternalPlugins(names)
           rows == listed \o others
<1>1. AllPlugins(l) = rows
  BY DEF AllPlugins
<1>2. /\ Len(l) \in Nat /\ DOMAIN l = 1 .. Len(l)
      /\ \A i \in 1 .. Len(l) : l[i].name \in Nat /\ l[i].version \in Nat
  <2> DEFINE R == [name : AllNames, version : Nat \ {0}]
  <2>1. l \in Seq(R)
    BY NamesAssumption
  <2>2. \A p \in R : p.name \in Nat /\ p.version \in Nat
    BY NamesAssumption
  <2> HIDE DEF R
  <2> QED
    BY <2>1, <2>2
<1>3. \A i, j \in DOMAIN l : l[i].name = l[j].name => i = j
  BY NamesAssumption
<1>4. /\ listed \in Seq(PluginRow) /\ Len(listed) = Len(l)
      /\ \A i \in 1 .. Len(l) :
           /\ listed[i].name = l[i].name
           /\ listed[i].internal = Missing => l[i].name \notin ToSet(InternalPlugins)
  <2>1. \A i \in 1 .. Len(l) : listed[i] \in PluginRow
    BY <1>2 DEF PluginRow, Missing
  <2>2. /\ DOMAIN listed = 1 .. Len(l) /\ listed = [i \in 1 .. Len(l) |-> listed[i]]
        /\ \A i \in 1 .. Len(l) :
             /\ listed[i].name = l[i].name
             /\ listed[i].internal = Missing => l[i].name \notin ToSet(InternalPlugins)
    BY <1>2 DEF Missing
  <2> HIDE DEF listed
  <2> QED
    BY <1>2, <2>1, <2>2
<1> DEFINE m == Len(InternalPlugins)
<1>5. m \in Nat /\ DOMAIN InternalPlugins = 1 .. m /\ \A i \in 1 .. m : InternalPlugins[i] \in Nat
  <2>1. InternalPlugins \in Seq(AllNames)
    BY NamesAssumption
  <2>2. m \in Nat /\ DOMAIN InternalPlugins = 1 .. m /\ \A i \in 1 .. m : InternalPlugins[i] \in AllNames
    BY <2>1
  <2> HIDE DEF m
  <2> QED
    BY <2>2, NamesAssumption
<1> HIDE DEF m
<1>6. \A i, j \in DOMAIN InternalPlugins : InternalPlugins[i] = InternalPlugins[j] => i = j
  BY NamesAssumption DEF IsInjective
<1>7. /\ others \in Seq(PluginRow) /\ Len(others) \in Nat
      /\ \A i \in 1 .. Len(others) : others[i].name \notin names /\ others[i].internal # Missing
      /\ \A i, j \in 1 .. Len(others) : others[i].name = others[j].name => i = j
  <2>1. CASE names = {}
    <3>1. others = <<>>
      BY <2>1 DEF NotEnabledInternalPlugins
    <3>2. <<>> \in Seq(PluginRow) /\ Len(<<>>) = 0
      OBVIOUS
    <3> HIDE DEF others
    <3> QED
      BY <3>1, <3>2
  <2>2. CASE names # {}
    <3> DEFINE places == {i \in DOMAIN InternalPlugins : InternalPlugins[i] \notin names}
               a == Arranged(places, Ascending(places))
               missing == Picked(InternalPlugins, places)
               k == Cardinality(places)
    <3>1. places \in SUBSET (1 .. m)
      BY <1>5
    <3>2. \A i \in places : InternalPlugins[i] \notin names /\ InternalPlugins[i] \in Nat /\ i \in Int
      BY <1>5
    <3>3. others = [i \in DOMAIN missing |->
                      [name |-> missing[i], version |-> 0, enabled |-> 0, internal |-> 1]]
      BY <2>2 DEF NotEnabledInternalPlugins
    <3> HIDE DEF places, others, names
    <3>4. /\ DOMAIN a = 1 .. k /\ k \in Nat /\ DOMAIN missing = DOMAIN a
          /\ \A i \in DOMAIN a : a[i] \in places /\ missing[i] = InternalPlugins[a[i]]
          /\ \A i, j \in DOMAIN a : i < j => a[i] < a[j]
      BY <1>5, <3>1, PickedFacts
    <3> HIDE DEF a, missing, k
    <3>5. \A i \in 1 .. k : others[i] \in PluginRow /\ others[i].name = missing[i] /\ others[i].internal = 1
      BY <3>2, <3>3, <3>4 DEF PluginRow
    <3>6. others = [i \in 1 .. k |-> others[i]]
      BY <3>3, <3>4
    <3>7. others \in Seq(PluginRow) /\ Len(others) = k
      BY <3>4, <3>5, <3>6
    <3>8. ASSUME NEW i \in 1 .. k, NEW j \in 1 .. k, missing[i] = missing[j]
          PROVE  i = j
      <4>0. a[i] \in 1 .. m /\ a[j] \in 1 .. m /\ InternalPlugins[a[i]] = InternalPlugins[a[j]]
        BY <3>1, <3>4, <3>8
      <4>1. a[i] = a[j] /\ a[i] \in Int
        BY <1>5, <1>6, <4>0
      <4>2. ~(i < j) /\ ~(j < i)
        BY <3>4, <4>1
      <4> QED
        BY <3>4, <4>2
    <3> QED
      BY <3>2, <3>4, <3>5, <3>7, <3>8 DEF Missing
  <2> QED
    BY <2>1, <2>2
<1> HIDE DEF listed, others
<1>8. /\ rows \in Seq(PluginRow) /\ Len(rows) = Len(l) + Len(others)
      /\ \A i \in 1 .. Len(l) + Len(others) :
           rows[i] = IF i <= Len(l) THEN listed[i] ELSE others[i - Len(l)]
  <2>1. /\ listed \o others \in Seq(PluginRow)
        /\ Len(listed \o others) = Len(listed) + Len(others)
        /\ \A i \in 1 .. Len(listed) + Len(others) :
             (listed \o others)[i] = IF i <= Len(listed) THEN listed[i] ELSE others[i - Len(listed)]
    BY <1>4, <1>7, ConcatProperties, Zenon
  <2> QED
    BY <1>4, <2>1, Zenon
<1> HIDE DEF rows
<1>9. DOMAIN rows = 1 .. Len(l) + Len(others)
  BY <1>2, <1>7, <1>8
<1>10. ASSUME NEW i \in DOMAIN rows
       PROVE  \/ i \in 1 .. Len(l) /\ rows[i] = listed[i]
              \/ i - Len(l) \in 1 .. Len(others) /\ i \in Int /\ rows[i] = others[i - Len(l)]
  BY <1>2, <1>7, <1>8, <1>9
<1>11. \A i \in 1 .. Len(l) : listed[i].name \in names
  BY <1>2, <1>4
<1>12. ASSUME NEW i \in DOMAIN rows, NEW j \in DOMAIN rows, rows[i].name = rows[j].name
       PROVE  i = j
  <2>1. CASE i \in 1 .. Len(l) /\ rows[i] = listed[i]
    <3>1. rows[j].name \in names
      BY <1>11, <1>12, <2>1
    <3>2. j \in 1 .. Len(l) /\ rows[j] = listed[j]
      BY <1>7, <1>10, <3>1
    <3> QED
      BY <1>2, <1>3, <1>4, <1>12, <2>1, <3>2
  <2>2. CASE i - Len(l) \in 1 .. Len(others) /\ i \in Int /\ rows[i] = others[i - Len(l)]
    <3>1. j - Len(l) \in 1 .. Len(others) /\ j \in Int /\ rows[j] = others[j - Len(l)]
      BY <1>4, <1>7, <1>10, <1>11, <1>12, <2>2
    <3>2. i - Len(l) = j - Len(l)
      BY <1>7, <1>12, <2>2, <3>1
    <3> QED
      BY <1>2, <2>2, <3>1, <3>2
  <2> QED
    BY <1>10, <2>1, <2>2
<1>13. ASSUME NEW i \in DOMAIN rows, rows[i].internal = Missing
       PROVE  i \in DOMAIN l /\ l[i].name \notin ToSet(InternalPlugins)
  BY <1>2, <1>4, <1>7, <1>10, <1>13
<1> QED
  BY <1>1, <1>8, <1>12, <1>13

Goes(a, b, q) == IF q.desc THEN a[q.field] > b[q.field] ELSE a[q.field] < b[q.field]

IsFlag(q) == q.field \in {"enabled", "internal"}

LEMMA FieldValues ==
  ASSUME NEW rows \in Seq(PluginRow), NEW q \in Queries, ~SortThrows(rows, q)
  PROVE  /\ \A i \in DOMAIN rows : rows[i][q.field] \in Int
         /\ IsFlag(q) /\ Len(rows) > 1 => \A i \in DOMAIN rows : rows[i][q.field] \in {0, 1}
<1>1. \A i \in DOMAIN rows : rows[i] \in PluginRow
  OBVIOUS
<1>2. q.field \in {"name", "version", "enabled", "internal"}
  BY DEF Queries
<1>3. CASE q.field = "name"
  BY <1>1, <1>3 DEF PluginRow, IsFlag
<1>4. CASE q.field = "version"
  BY <1>1, <1>4 DEF PluginRow, IsFlag
<1>5. CASE q.field = "enabled"
  BY <1>1, <1>5 DEF PluginRow, IsFlag
<1>6. CASE q.field = "internal"
  <2>1. \A i \in DOMAIN rows : rows[i].internal \in {1, 2}
    BY <1>1 DEF PluginRow
  <2>2. Len(rows) > 1 => \A i \in DOMAIN rows : rows[i].internal # 2
    BY <1>6 DEF SortThrows, Missing
  <2> QED
    BY <1>6, <2>1, <2>2
<1> QED
  BY <1>2, <1>3, <1>4, <1>5, <1>6

LEMMA SortOrders ==
  ASSUME NEW rows \in Seq(PluginRow), NEW q \in Queries, ~SortThrows(rows, q)
  PROVE  /\ Orders(SortOrder(rows, q), DOMAIN rows)
         /\ \A i, j \in DOMAIN rows : <<i, j>> \in SortOrder(rows, q) => ~Goes(rows[j], rows[i], q)
<1> DEFINE D == DOMAIN rows
           before == SortOrder(rows, q)
           key == [i \in D |-> rows[i][q.field]]
           Flagged(i) == key[i] = IF q.desc THEN 1 ELSE 0
<1>1. Len(rows) \in Nat /\ D = 1 .. Len(rows)
  OBVIOUS
<1>2. /\ \A i \in D : key[i] \in Int
      /\ IsFlag(q) /\ Len(rows) > 1 => \A i \in D : key[i] \in {0, 1}
  BY FieldValues
<1>3. \A i, j \in D : <<i, j>> \in before <=> \/ i < j /\ ~GoesBefore(rows[j], rows[i], q)
                                              \/ i > j /\ GoesBefore(rows[i], rows[j], q)
  BY DEF SortOrder
<1>4. \A i, j \in D : GoesBefore(rows[i], rows[j], q) <=>
         IF IsFlag(q) THEN Flagged(i) ELSE IF q.desc THEN key[i] > key[j] ELSE key[i] < key[j]
  BY DEF GoesBefore, IsFlag
<1>5. \A i, j \in D : Goes(rows[j], rows[i], q) <=> IF q.desc THEN key[j] > key[i] ELSE key[j] < key[i]
  BY DEF Goes
<1>6. \A i \in D : i \in Int
  BY <1>1
<1> HIDE DEF D, before, key
<1>7. CASE IsFlag(q)
  <2>1. \A i, j \in D : <<i, j>> \in before <=> \/ i < j /\ ~Flagged(j)
                                                \/ i > j /\ Flagged(i)
    BY <1>3, <1>4, <1>7
  <2>2. Orders(before, D)
    <3> HIDE DEF Flagged
    <3>1. \A x \in D : <<x, x>> \notin before
      BY <1>6, <2>1
    <3>2. \A x, y \in D : x # y => <<x, y>> \in before \/ <<y, x>> \in before
      BY <1>6, <2>1
    <3>3. \A x, y, z \in D : <<x, y>> \in before /\ <<y, z>> \in before => <<x, z>> \in before
      BY <1>6, <2>1
    <3> QED
      BY <3>1, <3>2, <3>3 DEF Orders
  <2>3. ASSUME NEW i \in D, NEW j \in D, <<i, j>> \in before
        PROVE  ~Goes(rows[j], rows[i], q)
    <3>1. i # j
      BY <1>6, <2>1, <2>3
    <3>2. Len(rows) > 1
      BY <1>1, <3>1 DEF D
    <3>3. key[i] \in {0, 1} /\ key[j] \in {0, 1}
      BY <1>2, <1>7, <3>2
    <3>4. ~Flagged(j) \/ Flagged(i)
      BY <2>1, <2>3
    <3>5. CASE q.desc
      BY <1>5, <3>3, <3>4, <3>5
    <3>6. CASE ~q.desc
      BY <1>5, <3>3, <3>4, <3>6
    <3> QED
      BY <3>5, <3>6
  <2> QED
    BY <2>2, <2>3 DEF D, before
<1>8. CASE ~IsFlag(q)
  <2>1. \A i, j \in D : <<i, j>> \in before <=>
          \/ i < j /\ ~(IF q.desc THEN key[j] > key[i] ELSE key[j] < key[i])
          \/ i > j /\ (IF q.desc THEN key[i] > key[j] ELSE key[i] < key[j])
    BY <1>3, <1>4, <1>8
  <2>2. Orders(before, D)
    <3>1. \A x \in D : <<x, x>> \notin before
      BY <1>6, <2>1
    <3>2. \A x, y \in D : x # y => <<x, y>> \in before \/ <<y, x>> \in before
      BY <1>6, <2>1
    <3>3. ASSUME NEW x \in D, NEW y \in D, NEW z \in D, <<x, y>> \in before, <<y, z>> \in before
          PROVE  <<x, z>> \in before
      <4>1. CASE q.desc
        BY <1>2, <1>6, <2>1, <3>3, <4>1
      <4>2. CASE ~q.desc
        BY <1>2, <1>6, <2>1, <3>3, <4>2
      <4> QED
        BY <4>1, <4>2
    <3> QED
      BY <3>1, <3>2, <3>3 DEF Orders
  <2>3. \A i, j \in D : <<i, j>> \in before => ~Goes(rows[j], rows[i], q)
    BY <1>2, <1>5, <2>1
  <2> QED
    BY <2>2, <2>3 DEF D, before
<1> QED
  BY <1>7, <1>8

\* b lists the places of what a query finds in a list.
FindsAt(b, list, q) ==
  /\ \E m \in Nat : DOMAIN b = 1 .. m
  /\ Found(list, q) = [k \in DOMAIN b |-> list[b[k]]]
  /\ \A k \in DOMAIN b : b[k] \in DOMAIN list /\ list[b[k]].name \in q.search
  /\ \A i \in DOMAIN list : list[i].name \in q.search => \E k \in DOMAIN b : b[k] = i
  /\ \A k, l \in DOMAIN b : k < l => b[k] < b[l]

LEMMA FoundPlaces ==
  ASSUME NEW list, NEW n \in Nat, DOMAIN list = 1 .. n, NEW q
  PROVE  \E b : FindsAt(b, list, q)
<1> DEFINE places == {i \in DOMAIN list : list[i].name \in q.search}
           b == Arranged(places, Ascending(places))
<1>1. Found(list, q) = [k \in DOMAIN b |-> list[b[k]]]
  BY DEF Found, Picked, Taken
<1>2. places \in SUBSET (1 .. n)
  OBVIOUS
<1>3. \A i : i \in places <=> i \in DOMAIN list /\ list[i].name \in q.search
  OBVIOUS
<1>4. /\ DOMAIN b = 1 .. Cardinality(places) /\ Cardinality(places) \in Nat
      /\ \A k \in DOMAIN b : b[k] \in places
      /\ \A x \in places : \E k \in DOMAIN b : b[k] = x
      /\ \A k, l \in DOMAIN b : k < l => b[k] < b[l]
  <2> HIDE DEF places
  <2> QED
    BY <1>2, PickedFacts
<1> HIDE DEF b, places
<1>5. \A k \in DOMAIN b : b[k] \in DOMAIN list /\ list[b[k]].name \in q.search
  BY <1>3, <1>4, Zenon
<1>6. \A i \in DOMAIN list : list[i].name \in q.search => \E k \in DOMAIN b : b[k] = i
  BY <1>3, <1>4, Zenon
<1>7. FindsAt(b, list, q)
  BY <1>1, <1>4, <1>5, <1>6, Zenon DEF FindsAt
<1> QED
  BY <1>7, Zenon

DistinctNames(rows) == \A i, j \in DOMAIN rows : rows[i].name = rows[j].name => i = j

LEMMA FoundRows ==
  ASSUME NEW rows \in Seq(PluginRow), NEW q \in Queries, ~SortThrows(rows, q),
         DistinctNames(rows)
  PROVE  LET found == Found(Sorted(rows, q), q)
         IN  /\ \E n \in Nat : DOMAIN found = 1 .. n
             /\ IsInjective(found)
             /\ ToSet(found) = {r \in ToSet(rows) : r.name \in q.search}
             /\ \A k, l \in DOMAIN found : k < l => ~Goes(found[l], found[k], q)
<1> DEFINE before == SortOrder(rows, q)
           a == Arranged(DOMAIN rows, before)
           sorted == Sorted(rows, q)
           n == Cardinality(DOMAIN rows)
           found == Found(sorted, q)
<1>1. IsFiniteSet(DOMAIN rows)
  BY FS_Interval
<1>2. /\ Orders(before, DOMAIN rows)
      /\ \A i, j \in DOMAIN rows : <<i, j>> \in before => ~Goes(rows[j], rows[i], q)
  BY SortOrders
<1>3. DOMAIN sorted = DOMAIN a /\ \A k \in DOMAIN a : sorted[k] = rows[a[k]]
  BY DEF Sorted, Taken
<1> HIDE DEF before, sorted, found
<1>4. /\ DOMAIN a = 1 .. n /\ n \in Nat
      /\ \A k \in DOMAIN a : a[k] \in DOMAIN rows
      /\ \A x \in DOMAIN rows : \E k \in DOMAIN a : a[k] = x
      /\ \A k, l \in DOMAIN a : k < l => <<a[k], a[l]>> \in before
      /\ \A k, l \in DOMAIN a : a[k] = a[l] => k = l
  BY <1>1, <1>2, ArrangedFacts
<1> HIDE DEF a, n
<1>5. DOMAIN sorted = 1 .. n
  BY <1>3, <1>4
<1>6. PICK b : FindsAt(b, sorted, q)
  BY <1>4, <1>5, FoundPlaces, Zenon
<1>7. /\ \E m \in Nat : DOMAIN b = 1 .. m
      /\ found = [k \in DOMAIN b |-> sorted[b[k]]]
      /\ \A k \in DOMAIN b : b[k] \in 1 .. n /\ sorted[b[k]].name \in q.search
      /\ \A i \in 1 .. n : sorted[i].name \in q.search => \E k \in DOMAIN b : b[k] = i
      /\ \A k, l \in DOMAIN b : k < l => b[k] < b[l]
  BY <1>5, <1>6, Zenon DEF FindsAt, found
<1>8. PICK m \in Nat : DOMAIN b = 1 .. m
  BY <1>7
<1>9. \A k \in 1 .. m : /\ b[k] \in 1 .. n /\ a[b[k]] \in DOMAIN rows
                        /\ found[k] = rows[a[b[k]]] /\ found[k].name \in q.search
  BY <1>3, <1>4, <1>7, <1>8
<1>10. ToSet(found) = {r \in ToSet(rows) : r.name \in q.search}
  <2>1. ASSUME NEW r \in ToSet(rows), r.name \in q.search
        PROVE  \E k \in 1 .. m : found[k] = r
    <3>1. PICK i \in DOMAIN rows : rows[i] = r
      BY DEF ToSet
    <3>2. PICK j \in 1 .. n : a[j] = i
      BY <1>4
    <3>3. sorted[j].name \in q.search
      BY <1>3, <1>4, <2>1, <3>1, <3>2
    <3>4. PICK k \in 1 .. m : b[k] = j
      BY <1>7, <1>8, <3>2, <3>3
    <3> QED
      BY <1>9, <3>1, <3>2, <3>4
  <2>2. \A k \in 1 .. m : found[k] \in ToSet(rows) /\ found[k].name \in q.search
    BY <1>9 DEF ToSet
  <2>3. \A r : r \in ToSet(found) <=> \E k \in 1 .. m : found[k] = r
    BY <1>7, <1>8 DEF ToSet
  <2>4. \A r : r \in ToSet(found) <=> r \in ToSet(rows) /\ r.name \in q.search
    BY <2>1, <2>2, <2>3
  <2> QED
    BY <2>4
<1>11. ASSUME NEW k \in 1 .. m, NEW l \in 1 .. m, k < l
       PROVE  ~Goes(found[l], found[k], q)
  <2>1. b[k] < b[l]
    BY <1>7, <1>8, <1>11
  <2>2. <<a[b[k]], a[b[l]]>> \in before
    BY <1>4, <1>9, <2>1
  <2> QED
    BY <1>2, <1>9, <2>2
<1>12. ASSUME NEW k \in 1 .. m, NEW l \in 1 .. m, found[k] = found[l]
       PROVE  k = l
  <2>1. rows[a[b[k]]].name = rows[a[b[l]]].name
    BY <1>9, <1>12
  <2>2. a[b[k]] = a[b[l]]
    BY <1>9, <2>1 DEF DistinctNames
  <2>3. b[k] = b[l] /\ b[k] \in Int
    BY <1>4, <1>9, <2>2
  <2>4. ~(k < l) /\ ~(l < k)
    BY <1>7, <1>8, <2>3
  <2> QED
    BY <1>7, <1>8, <2>4
<1> QED
  BY <1>7, <1>8, <1>10, <1>11, <1>12 DEF IsInjective, found, sorted

\* What a query matches, and what it may ask for: a page the matches reach.
Matching(q) == {r \in ToSet(AllPlugins(loaded)) : r.name \in q.search}

QueryFits(q) ==
  /\ q \in Queries
  /\ q.page = 0 \/ q.page * PageSize < Cardinality(Matching(q))

\* Where fetchData takes a page from: the matching rows in the order of the query.
IsOrdered(f, q) ==
  /\ \E n \in Nat : DOMAIN f = 1 .. n
  /\ f \in Seq(PluginRow)
  /\ IsInjective(f)
  /\ ToSet(f) = Matching(q)
  /\ \A k, l \in DOMAIN f : k < l => ~Goes(f[l], f[k], q)

LEMMA FoundOrdered ==
  ASSUME loaded \in LoadedLists, NEW q \in Queries, ~SortThrows(AllPlugins(loaded), q)
  PROVE  IsOrdered(Found(Sorted(AllPlugins(loaded), q), q), q)
<1> DEFINE rows == AllPlugins(loaded)
           found == Found(Sorted(rows, q), q)
<1>1. rows \in Seq(PluginRow) /\ DistinctNames(rows)
  BY AllPluginsFacts DEF DistinctNames
<1> HIDE DEF rows
<1>2. /\ \E n \in Nat : DOMAIN found = 1 .. n
      /\ IsInjective(found)
      /\ ToSet(found) = {r \in ToSet(rows) : r.name \in q.search}
      /\ \A k, l \in DOMAIN found : k < l => ~Goes(found[l], found[k], q)
  BY <1>1, FoundRows DEF rows
<1>3. \E b : FindsAt(b, Sorted(rows, q), q)
  <2>1. DOMAIN Sorted(rows, q) = 1 .. Cardinality(DOMAIN rows)
    BY DEF Sorted, Taken, Arranged
  <2>2. IsFiniteSet(DOMAIN rows) /\ Cardinality(DOMAIN rows) \in Nat
    BY <1>1, FS_Interval, FS_CardinalityType
  <2> QED
    BY <2>1, <2>2, FoundPlaces, Zenon
<1>4. found = [k \in DOMAIN found |-> found[k]]
  <2>1. PICK b : found = [k \in DOMAIN b |-> Sorted(rows, q)[b[k]]]
    BY <1>3, Zenon DEF FindsAt
  <2> HIDE DEF found
  <2> QED
    BY <2>1, Zenon
<1> HIDE DEF found
<1>5. \A r \in ToSet(rows) : r \in PluginRow
  BY <1>1 DEF ToSet
<1>6. \A k \in DOMAIN found : found[k] \in PluginRow
  <2>1. \A k \in DOMAIN found : found[k] \in ToSet(found)
    BY DEF ToSet
  <2> QED
    BY <1>2, <1>5, <2>1
<1>7. found \in Seq(PluginRow)
  <2>1. PICK n \in Nat : DOMAIN found = 1 .. n
    BY <1>2
  <2>2. found \in [1 .. n -> PluginRow]
    BY <1>4, <1>6, <2>1
  <2> QED
    BY <2>2
<1> QED
  BY <1>2, <1>7 DEF IsOrdered, Matching, rows, found

\* fetchData: the page of a query that fits begins where the query says.
LEMMA FetchedPage ==
  ASSUME loaded \in LoadedLists, NEW q, QueryFits(q), ~SortThrows(AllPlugins(loaded), q),
         NEW f, f = Found(Sorted(AllPlugins(loaded), q), q)
  PROVE  LET answer == FetchData(q)
             start == q.page * PageSize
             size == Len(answer.data)
         IN  /\ IsFiniteSet(Matching(q)) /\ Cardinality(Matching(q)) = Len(f)
             /\ Len(f) \in Nat /\ start \in Nat
             /\ answer.query = q /\ answer.totalCount = Len(f)
             /\ size = IF Len(f) - start < PageSize THEN Len(f) - start ELSE PageSize
             /\ size \in Nat /\ DOMAIN answer.data = 1 .. size /\ start + size <= Len(f)
             /\ \A i \in 1 .. size : start + i \in DOMAIN f /\ answer.data[i] = f[start + i]
<1> DEFINE start == q.page * PageSize
           total == Len(f)
           from == IF total > PageSize THEN start ELSE 0
           end == IF total > PageSize THEN from + PageSize ELSE total
           last == IF end < total THEN end ELSE total
           part == SubSeq(f, from + 1, last)
<1>1. IsOrdered(f, q)
  BY FoundOrdered DEF QueryFits
<1>2. f \in Seq(PluginRow) /\ total \in Nat /\ DOMAIN f = 1 .. total
  BY <1>1 DEF IsOrdered
<1>3. IsFiniteSet(Matching(q)) /\ Cardinality(Matching(q)) = total
  <2>1. IsInjective(f) /\ ToSet(f) = Matching(q)
    BY <1>1 DEF IsOrdered
  <2> HIDE DEF total
  <2> QED
    BY <1>2, <2>1, CountedByPlaces
<1>4. FetchData(q) = [query |-> q, data |-> part, totalCount |-> total]
  BY DEF FetchData
<1>5. PageSize \in Nat \ {0}
  BY NamesAssumption
<1>6. q.page \in Nat
  <2>1. IsFiniteSet(AllNames) /\ Cardinality(AllNames) \in Nat
    BY NamesAssumption, FS_CardinalityType
  <2>2. q.page \in 0 .. Cardinality(AllNames) \div PageSize
    BY DEF QueryFits, Queries
  <2> QED
    BY <2>2
<1>7. start \in Nat /\ (q.page # 0 => start >= PageSize) /\ (q.page = 0 => start = 0)
  BY <1>5, <1>6
<1>8. q.page = 0 \/ start < total
  BY <1>3 DEF QueryFits
<1> HIDE DEF start, total
<1>9. /\ from = start /\ last \in Int /\ start <= last /\ last <= total
      /\ last - start = IF total - start < PageSize THEN total - start ELSE PageSize
  BY <1>2, <1>5, <1>7, <1>8
<1> HIDE DEF from, end, last
<1>10. \A i \in from + 1 .. last : f[i] \in PluginRow
  BY <1>2, <1>7, <1>9
<1>11. /\ part \in Seq(PluginRow)
       /\ Len(part) = last - start
       /\ \A i \in 1 .. last - start : part[i] = f[start + i]
  <2>1. /\ part \in Seq(PluginRow)
        /\ Len(part) = IF from + 1 <= last THEN last - (from + 1) + 1 ELSE 0
        /\ \A i \in 1 .. last - (from + 1) + 1 : part[i] = f[from + 1 + i - 1]
    BY <1>7, <1>9, <1>10, SubSeqProperties
  <2>2. last - (from + 1) + 1 = last - start /\ from + 1 \in Int
    BY <1>7, <1>9
  <2>3. \A i \in Int : from + 1 + i - 1 = start + i
    BY <1>7, <1>9
  <2> HIDE DEF part
  <2>4. Len(part) = last - start
    BY <1>7, <1>9, <2>1, <2>2
  <2>5. \A i \in 1 .. last - start : part[i] = f[start + i]
    BY <1>7, <1>9, <2>1, <2>2, <2>3
  <2> QED
    BY <2>1, <2>4, <2>5
<1> HIDE DEF part
<1>12. DOMAIN part = 1 .. last - start
  BY <1>11
<1>13. \A i \in 1 .. last - start : start + i \in DOMAIN f
  BY <1>2, <1>7, <1>9
<1>14. last - start \in Nat /\ start + (last - start) <= total
  BY <1>7, <1>9
<1>15. /\ FetchData(q).query = q /\ FetchData(q).data = part /\ FetchData(q).totalCount = total
  BY <1>4
<1> QED
  BY <1>2, <1>3, <1>7, <1>9, <1>11, <1>12, <1>13, <1>14, <1>15 DEF start, total

\* The table's invariant: it shows, and waits for, answers to queries that fit.
TableInv ==
  /\ loaded \in LoadedLists
  /\ \A q \in inFlight : QueryFits(q)
  /\ \A s \in shown : /\ s = FetchData(s.query) /\ QueryFits(s.query)
                      /\ ~SortThrows(AllPlugins(loaded), s.query)
  /\ loadError => requestFailed \/ \E i \in DOMAIN loaded : loaded[i].name \notin ToSet(InternalPlugins)

LEMMA TableShowsPage ==
  ASSUME TableInv
  PROVE  TableRight
<1> SUFFICES ASSUME NEW s \in shown
             PROVE  LET all == Matching(s.query)
                        at(i) == s.query.page * PageSize + i
                    IN /\ s.totalCount = Cardinality(all)
                       /\ ToSet(s.data) \subseteq all /\ Cardinality(ToSet(s.data)) = Len(s.data)
                       /\ Len(s.data) = LET rest == Cardinality(all) - s.query.page * PageSize
                                        IN IF rest < PageSize THEN rest ELSE PageSize
                       /\ \A i \in DOMAIN s.data :
                            /\ Cardinality({r \in all : Goes(r, s.data[i], s.query)}) < at(i)
                            /\ Cardinality({r \in all : Goes(s.data[i], r, s.query)})
                                 <= Cardinality(all) - at(i)
  BY DEF TableInv, TableRight, Matching, Goes
<1> DEFINE q == s.query
           f == Found(Sorted(AllPlugins(loaded), q), q)
           all == Matching(q)
           total == Len(f)
           start == q.page * PageSize
           part == s.data
           size == Len(part)
<1>1. /\ loaded \in LoadedLists /\ s = FetchData(q) /\ QueryFits(q)
      /\ ~SortThrows(AllPlugins(loaded), q)
  BY DEF TableInv
<1>2. /\ IsFiniteSet(all) /\ Cardinality(all) = total
      /\ total \in Nat /\ start \in Nat
      /\ s.totalCount = total
      /\ size = IF total - start < PageSize THEN total - start ELSE PageSize
      /\ size \in Nat /\ DOMAIN part = 1 .. size /\ start + size <= total
      /\ \A i \in 1 .. size : start + i \in DOMAIN f /\ part[i] = f[start + i]
  <2> HIDE DEF f
  <2> QED
    BY <1>1, FetchedPage DEF f
<1>3. /\ f \in Seq(PluginRow) /\ DOMAIN f = 1 .. total /\ IsInjective(f)
      /\ ToSet(f) = all
      /\ \A k, l \in DOMAIN f : k < l => ~Goes(f[l], f[k], q)
  <2>1. IsOrdered(f, q)
    BY <1>1, FoundOrdered DEF QueryFits
  <2> HIDE DEF f
  <2> QED
    BY <2>1 DEF IsOrdered
<1>4. q \in Queries
  BY <1>1 DEF QueryFits
<1> HIDE DEF q, f, all, total, start, part, size
<1>5. \A k \in DOMAIN f : f[k] \in all
  BY <1>3 DEF ToSet
<1>6. ToSet(part) \subseteq all
  BY <1>2, <1>5 DEF ToSet
<1>7. Cardinality(ToSet(part)) = size
  <2>1. IsInjective(part)
    <3>1. ASSUME NEW i \in 1 .. size, NEW j \in 1 .. size, part[i] = part[j]
          PROVE  i = j
      <4>1. start + i = start + j
        BY <1>2, <1>3, <3>1 DEF IsInjective
      <4> QED
        BY <1>2, <4>1
    <3> QED
      BY <1>2, <3>1 DEF IsInjective
  <2> QED
    BY <1>2, <2>1, CountedByPlaces
<1>8. \A r \in PluginRow : ~Goes(r, r, q)
  <2>1. q.field \in {"name", "version", "enabled", "internal"}
    BY <1>4 DEF Queries
  <2>2. \A r \in PluginRow : r[q.field] \in Int
    BY <2>1 DEF PluginRow
  <2> QED
    BY <2>2 DEF Goes
<1>9. \A k, l \in 1 .. total : Goes(f[k], f[l], q) => k < l
  <2>1. \A k \in 1 .. total : f[k] \in PluginRow
    BY <1>3 DEF total
  <2> QED
    BY <1>2, <1>3, <1>8, <2>1
<1>10. ASSUME NEW i \in 1 .. size
       PROVE  /\ Cardinality({r \in all : Goes(r, part[i], q)}) < start + i
              /\ Cardinality({r \in all : Goes(part[i], r, q)}) <= total - (start + i)
  <2> DEFINE j == start + i
             Ahead == {r \in all : Goes(r, part[i], q)}
             Behind == {r \in all : Goes(part[i], r, q)}
  <2>1. j \in 1 .. total /\ part[i] = f[j]
    BY <1>2, <1>3
  <2>2. Ahead \in SUBSET all /\ Behind \in SUBSET all
    OBVIOUS
  <2>3. /\ \A k \in 1 .. total : f[k] \in Ahead => Goes(f[k], f[j], q)
        /\ \A k \in 1 .. total : f[k] \in Behind => Goes(f[j], f[k], q)
    BY <2>1
  <2> HIDE DEF j, Ahead, Behind
  <2>4. \A k \in 1 .. total : f[k] \in Ahead => k \in 1 .. j - 1
    BY <1>2, <1>9, <2>1, <2>3
  <2>5. \A k \in 1 .. total : f[k] \in Behind => k \in j + 1 .. total
    BY <1>2, <1>9, <2>1, <2>3
  <2>6. \A low, high \in Int : \A T \in SUBSET all :
          low <= high + 1 /\ (\A k \in 1 .. total : f[k] \in T => k \in low .. high) =>
            Cardinality(T) <= high - low + 1
    BY <1>2, <1>3, CountedByPlaces
  <2>7. Cardinality(Ahead) <= j - 1 - 1 + 1
    <3>1. 1 \in Int /\ j - 1 \in Int /\ 1 <= j - 1 + 1
      BY <1>2, <2>1
    <3> QED
      BY <2>2, <2>4, <2>6, <3>1
  <2>8. Cardinality(Behind) <= total - (j + 1) + 1
    <3>1. j + 1 \in Int /\ total \in Int /\ j + 1 <= total + 1
      BY <1>2, <2>1
    <3> QED
      BY <2>2, <2>5, <2>6, <3>1
  <2>9. Cardinality(Ahead) \in Nat /\ Cardinality(Behind) \in Nat
    BY <1>2, <2>2, FS_Subset, FS_CardinalityType
  <2>10. Cardinality(Ahead) < j /\ Cardinality(Behind) <= total - j
    BY <1>2, <2>1, <2>7, <2>8, <2>9
  <2> QED
    BY <2>10 DEF j, Ahead, Behind
<1> QED
  BY <1>2, <1>6, <1>7, <1>10 DEF q, all, start, part, size

LEMMA TableInitInv ==
  ASSUME TableInit
  PROVE  TableInv
<1>1. FirstQuery \in Queries
  <2>1. IsFiniteSet(AllNames) /\ Cardinality(AllNames) \in Nat /\ PageSize \in Nat \ {0}
    BY NamesAssumption, FS_CardinalityType
  <2>2. 0 \in 0 .. Cardinality(AllNames) \div PageSize
    BY <2>1
  <2> QED
    BY <2>2, NamesAssumption DEF FirstQuery, Queries
<1>2. QueryFits(FirstQuery)
  BY <1>1 DEF QueryFits, FirstQuery
<1> QED
  BY <1>2 DEF TableInit, TableInv

LEMMA TableStep ==
  ASSUME TableInv, TableNext
  PROVE  TableInv'
<1>1. loaded' = loaded
  BY DEF TableNext, Ask, Answered, NotAnswered
<1>2. ASSUME NEW q
      PROVE  (QueryFits(q))' <=> QueryFits(q)
  BY <1>1 DEF QueryFits, Matching, Queries
<1>3. ASSUME NEW q
      PROVE  FetchData(q)' = FetchData(q)
  BY <1>1 DEF FetchData
<1>4. CASE \E q \in Queries : Ask(q)
  <2> PICK q \in Queries : Ask(q)
    BY <1>4
  <2>1. QueryFits(q)
    <3>1. CASE q.page = 0
      BY <3>1 DEF QueryFits
    <3>2. CASE \E s \in shown : /\ q = [s.query EXCEPT !.page = q.page]
                                /\ q.page * PageSize < s.totalCount
      <4> PICK s \in shown : /\ q = [s.query EXCEPT !.page = q.page]
                             /\ q.page * PageSize < s.totalCount
        BY <3>2
      <4>1. /\ s = FetchData(s.query) /\ QueryFits(s.query) /\ loaded \in LoadedLists
            /\ ~SortThrows(AllPlugins(loaded), s.query)
        BY DEF TableInv
      <4>2. s.totalCount = Cardinality(Matching(s.query))
        BY <4>1, FetchedPage
      <4>3. q.search = s.query.search
        <5>1. s.query \in Queries
          BY <4>1 DEF QueryFits
        <5> QED
          BY <5>1 DEF Queries
      <4>4. Matching(q) = Matching(s.query)
        BY <4>3 DEF Matching
      <4> QED
        BY <4>2, <4>4 DEF QueryFits
    <3> QED
      BY <3>1, <3>2 DEF Ask
  <2>2. /\ shown' = shown /\ loadError' = loadError /\ requestFailed' = requestFailed
        /\ inFlight' = inFlight \cup {q}
    BY DEF Ask
  <2> QED
    BY <1>1, <1>2, <1>3, <2>1, <2>2 DEF TableInv
<1>5. ASSUME NEW q \in inFlight, Answered(q)
      PROVE  TableInv'
  <2>1. /\ inFlight' \subseteq inFlight /\ requestFailed' = requestFailed
        /\ QueryFits(q) /\ loaded \in LoadedLists
    BY <1>5 DEF Answered, TableInv
  <2>2. CASE SortThrows(AllPlugins(loaded), q)
    <3>1. \E i \in DOMAIN loaded : loaded[i].name \notin ToSet(InternalPlugins)
      <4>1. PICK i \in DOMAIN AllPlugins(loaded) : AllPlugins(loaded)[i].internal = Missing
        BY <2>2 DEF SortThrows
      <4> QED
        BY <2>1, <4>1, AllPluginsFacts
    <3>2. shown' = {}
      BY <1>5, <2>2 DEF Answered
    <3> QED
      BY <1>1, <1>2, <2>1, <3>1, <3>2 DEF TableInv
  <2>3. CASE ~SortThrows(AllPlugins(loaded), q)
    <3>1. shown' \subseteq {FetchData(q)} /\ loadError' = loadError
      BY <1>5, <2>3 DEF Answered
    <3>2. FetchData(q).query = q
      BY <2>1, <2>3, FetchedPage
    <3> QED
      BY <1>1, <1>2, <1>3, <2>1, <2>3, <3>1, <3>2 DEF TableInv
  <2> QED
    BY <2>2, <2>3
<1>6. ASSUME NEW q \in inFlight, NotAnswered(q)
      PROVE  TableInv'
  <2>1. /\ inFlight' \subseteq inFlight /\ requestFailed' = TRUE /\ shown' = {}
    BY <1>6 DEF NotAnswered
  <2> QED
    BY <1>1, <1>2, <2>1 DEF TableInv
<1> QED
  BY <1>4, <1>5, <1>6 DEF TableNext

LEMMA TableStands ==
  ASSUME TableInv, UNCHANGED tableVars
  PROVE  TableInv'
<1>1. loaded' = loaded
  BY DEF tableVars
<1>2. ASSUME NEW q
      PROVE  (QueryFits(q))' <=> QueryFits(q)
  BY <1>1 DEF QueryFits, Matching, Queries
<1>3. ASSUME NEW q
      PROVE  FetchData(q)' = FetchData(q)
  BY <1>1 DEF FetchData
<1> QED
  BY <1>1, <1>2, <1>3 DEF TableInv, tableVars

(* fetchData: whatever the backend has loaded and however the answers      *)
(* overtake each other, the table shows the page of the query they answer: *)
(* all rows that belong there and no other, none of which is behind or     *)
(* ahead of more rows than the order allows; and the error is shown for a  *)
(* request that failed or for the sort by Preinstalled only.               *)
THEOREM TableRightAlways == PagesSpec => []TableRight
<1>1. PagesInit => TableInv
  BY TableInitInv DEF PagesInit
<1>2. TableInv /\ [PagesNext]_pageVars => TableInv'
  <2> SUFFICES ASSUME TableInv, [PagesNext]_pageVars
               PROVE  TableInv'
    OBVIOUS
  <2>1. TableNext \/ UNCHANGED tableVars
    BY DEF PagesNext, Only, pageVars
  <2> QED
    BY <2>1, TableStep, TableStands
<1>3. TableInv => TableRight
  BY TableShowsPage
<1> QED
  BY <1>1, <1>2, <1>3, PTL DEF PagesSpec
=============================================================================
