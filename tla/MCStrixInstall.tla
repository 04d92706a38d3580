--------------------------- MODULE MCStrixInstall ---------------------------
(* Two published versions and three invocations: enough for a deployment    *)
(* that is killed, one over its remains, and a rollback to either backup.   *)
EXTENDS StrixInstall

MCVersions == {"v1", "v2"}
=============================================================================
