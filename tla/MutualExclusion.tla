-------------------------- MODULE MutualExclusion --------------------------
(***************************************************************************)
(* What the lock file of docker/install-dynamic-plugins.py is there for:   *)
(* at any time at most one process is inside the section it guards.        *)
(***************************************************************************)
CONSTANT Procs

VARIABLE inside     \* the processes inside the guarded section

Init == inside = {}

Enter(p) ==
  /\ inside = {}
  /\ inside' = {p}

Leave(p) ==
  /\ p \in inside
  /\ inside' = inside \ {p}

Next == \E p \in Procs : Enter(p) \/ Leave(p)

Spec == Init /\ [][Next]_inside

\* A process that is inside leaves in the end: no one holds the section for ever.
FairSpec == Spec /\ \A p \in Procs : WF_inside(Leave(p))
=============================================================================
