----------------------------- MODULE MCE2ETests -----------------------------
(* Two resolvers, two polls in a timeout, one change of the configuration  *)
(* after the first check, one retry, and three CI jobs at the same time.   *)
EXTENDS E2ETests
=============================================================================
