--------------------------- MODULE MCInstallLock ---------------------------
(* Three Pods that share one volume.                                       *)
EXTENDS InstallLock
=============================================================================
