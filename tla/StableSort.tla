---------------------------- MODULE StableSort ----------------------------
(***************************************************************************)
(* What JavaScript's filter and its sort, which is stable, make of an      *)
(* array: the elements at some places, in an order of the places.          *)
(***************************************************************************)
EXTENDS Integers, FiniteSets

(* Before each of the places in this order there are as many others as it  *)
(* has predecessors.                                                       *)
Arranged(places, before) ==
  [k \in 1 .. Cardinality(places) |->
     CHOOSE i \in places : Cardinality({j \in places : <<j, i>> \in before}) = k - 1]

(* The elements at these places.                                           *)
Taken(list, places) == [k \in DOMAIN places |-> list[places[k]]]

(* The elements at some places, in the order of the list.                  *)
Ascending(places) == {p \in places \X places : p[1] < p[2]}

Picked(list, places) ==
  Taken(list, Arranged(places, Ascending(places)))
=============================================================================
