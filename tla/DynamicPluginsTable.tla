------------------------ MODULE DynamicPluginsTable ------------------------
(***************************************************************************)
(* The table of plugins: the page's table asks fetchData for one page at a *)
(* time, with a field to sort by and a search; fetchData loads all plugins *)
(* each time and sorts, searches and cuts. Answers come in any order.      *)
(***************************************************************************)
EXTENDS Integers, Sequences, SequencesExt, FiniteSets, StableSort

CONSTANTS
  LoadedLists,      \* what the backend may list: sequences of name and version
  InternalPlugins,  \* InternalPluginsMap, as a sequence of names
  Searches,         \* searches: the sets of names that match, AllNames the empty one
  AllNames,
  PageSize,
  MaxQueries        \* bound: queries the table makes

\* Names and versions are numbers in the order of localeCompare, no version is 0;
\* a plugin is loaded once, and the keys of InternalPluginsMap are distinct.
ASSUME NamesAssumption ==
  /\ PageSize \in Nat \ {0} /\ MaxQueries \in Nat
  /\ AllNames \subseteq Nat /\ IsFiniteSet(AllNames) /\ AllNames \in Searches
  /\ InternalPlugins \in Seq(AllNames) /\ IsInjective(InternalPlugins)
  /\ \A l \in LoadedLists :
       /\ l \in Seq([name : AllNames, version : Nat \ {0}])
       /\ \A i, j \in DOMAIN l : l[i].name = l[j].name => i = j

VARIABLES
  loaded,      \* what the backend has loaded, for good
  query,       \* the query made last
  inFlight,    \* the queries whose list has not come yet
  shown,       \* the answer the table shows, with its query: a set of at most one
  loadError,   \* error, which nothing takes back
  queries,     \* queries made
  requestFailed  \* history

tableVars == <<loaded, query, inFlight, shown, loadError, queries, requestFailed>>

\* enabled and internal are 1 and 0; internal is Missing when it is not there.
Missing == 2

FirstQuery == [field |-> "name", desc |-> FALSE, page |-> 0, search |-> AllNames]

TableInit ==
  /\ loaded \in LoadedLists
  /\ query = FirstQuery /\ inFlight = {FirstQuery}
  /\ shown = {} /\ loadError = FALSE
  /\ queries = 1 /\ requestFailed = FALSE

(* The plugins that are loaded, then, if there are any, the preinstalled   *)
(* ones that are not.                                                      *)
NotEnabledInternalPlugins(names) ==
  IF names = {} THEN <<>>
  ELSE LET missing == Picked(InternalPlugins, {i \in DOMAIN InternalPlugins : InternalPlugins[i] \notin names})
       IN [i \in DOMAIN missing |-> [name |-> missing[i], version |-> 0, enabled |-> 0, internal |-> 1]]

AllPlugins(list) ==
  [i \in DOMAIN list |->
     [name |-> list[i].name, version |-> list[i].version, enabled |-> 1,
      internal |-> IF list[i].name \in ToSet(InternalPlugins) THEN 1 ELSE Missing]]
  \o NotEnabledInternalPlugins({list[i].name : i \in DOMAIN list})

(* Whether a comes before b: of two equal Booleans neither order is        *)
(* respected, TRUE goes to the end and FALSE to the front.                 *)
GoesBefore(a, b, q) ==
  IF q.field \in {"enabled", "internal"} THEN (IF q.desc THEN a[q.field] = 1 ELSE a[q.field] = 0)
  ELSE IF q.desc THEN a[q.field] > b[q.field] ELSE a[q.field] < b[q.field]

(* A value that is missing has no localeCompare: the sort throws as soon   *)
(* as it compares.                                                         *)
SortThrows(rows, q) ==
  /\ q.field = "internal" /\ Len(rows) > 1
  /\ \E i \in DOMAIN rows : rows[i].internal = Missing

(* A row that follows another stays behind it unless it goes before it.    *)
SortOrder(rows, q) ==
  {p \in (DOMAIN rows) \X (DOMAIN rows) :
     \/ p[1] < p[2] /\ ~GoesBefore(rows[p[2]], rows[p[1]], q)
     \/ p[1] > p[2] /\ GoesBefore(rows[p[1]], rows[p[2]], q)}

Sorted(rows, q) == Taken(rows, Arranged(DOMAIN rows, SortOrder(rows, q)))

Found(rows, q) == Picked(rows, {i \in DOMAIN rows : rows[i].name \in q.search})

\* Mutant: what is not enabled is added after the sort.
FetchDataUnsorted(q) ==
  LET enabled == SelectSeq(AllPlugins(loaded), LAMBDA r : r.enabled = 1)
      others == SelectSeq(AllPlugins(loaded), LAMBDA r : r.enabled = 0)
      rows == Found(Sorted(enabled, q) \o others, q)
      total == Len(rows)
      start == IF total > PageSize THEN q.page * PageSize ELSE 0
      end == IF total > PageSize THEN start + PageSize ELSE total
  IN [query |-> q, data |-> SubSeq(rows, start + 1, IF end < total THEN end ELSE total),
      totalCount |-> total]

(* fetchData, once the list is there.                                      *)
FetchData(q) ==
  LET rows == Found(Sorted(AllPlugins(loaded), q), q)
      total == Len(rows)
      start == IF total > PageSize THEN q.page * PageSize ELSE 0
      end == IF total > PageSize THEN start + PageSize ELSE total
  IN [query |-> q, data |-> SubSeq(rows, start + 1, IF end < total THEN end ELSE total),
      totalCount |-> total]

(* The table asks for another field or direction or search, from the first *)
(* page, or for another page of what it shows.                             *)
Ask(q) ==
  /\ ~loadError /\ queries < MaxQueries /\ q # query
  /\ \/ q.page = 0 /\ (q.search = query.search \/ (q.field = query.field /\ q.desc = query.desc))
     \/ \E s \in shown : /\ q = [s.query EXCEPT !.page = q.page]
                         /\ q.page * PageSize < s.totalCount
  /\ query' = q
  /\ inFlight' = inFlight \cup {q}
  /\ queries' = queries + 1
  /\ UNCHANGED <<loaded, shown, loadError, requestFailed>>

(* The list is there: sorted and cut, or an error, when the sort throws.   *)
Answered(q) ==
  /\ q \in inFlight /\ inFlight' = inFlight \ {q}
  /\ IF SortThrows(AllPlugins(loaded), q)
     THEN loadError' = TRUE /\ shown' = {}
     ELSE shown' = (IF loadError THEN {} ELSE {FetchData(q)}) /\ UNCHANGED loadError
  /\ UNCHANGED <<loaded, query, queries, requestFailed>>

NotAnswered(q) ==
  /\ q \in inFlight /\ inFlight' = inFlight \ {q}
  /\ loadError' = TRUE /\ shown' = {}
  /\ requestFailed' = TRUE
  /\ UNCHANGED <<loaded, query, queries>>

Queries ==
  [field : {"name", "version", "enabled", "internal"}, desc : BOOLEAN,
   page : 0 .. Cardinality(AllNames) \div PageSize, search : Searches]

TableNext ==
  \/ \E q \in Queries : Ask(q)
  \/ \E q \in inFlight : Answered(q) \/ NotAnswered(q)

-----------------------------------------------------------------------------
(* README.md of the plugin: "client-side sorting, filtering and            *)
(* pagination". The rows that are shown are the page's part, and all of    *)
(* it, of the matching plugins in the order of the query they answer,      *)
(* which of several it may be; and the error is shown for a request that   *)
(* failed, or for the sort by Preinstalled when a plugin is not.           *)
TableRight ==
  /\ loadError => requestFailed \/ \E i \in DOMAIN loaded : loaded[i].name \notin ToSet(InternalPlugins)
  /\ \A s \in shown :
       LET all == {r \in ToSet(AllPlugins(loaded)) : r.name \in s.query.search}
           at(i) == s.query.page * PageSize + i
           less(a, b) == IF s.query.desc THEN a[s.query.field] > b[s.query.field]
                         ELSE a[s.query.field] < b[s.query.field]
       IN /\ s.totalCount = Cardinality(all)
          /\ ToSet(s.data) \subseteq all /\ Cardinality(ToSet(s.data)) = Len(s.data)
          /\ Len(s.data) = LET rest == Cardinality(all) - s.query.page * PageSize
                           IN IF rest < PageSize THEN rest ELSE PageSize
          /\ \A i \in DOMAIN s.data :
               /\ Cardinality({r \in all : less(r, s.data[i])}) < at(i)
               /\ Cardinality({r \in all : less(s.data[i], r)}) <= Cardinality(all) - at(i)
=============================================================================
