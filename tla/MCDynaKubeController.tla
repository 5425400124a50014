------------------------- MODULE MCDynaKubeController -------------------------
(***************************************************************************)
(* Small instances of the DynaKube controller: the objects that one        *)
(* question is about.  Objects of different components meet in the         *)
(* conditions they share, the objects they read and the order of the       *)
(* pipeline; every instance keeps the ones it needs for that.              *)
(***************************************************************************)
EXTENDS DynaKubeController

\* an object for every way to report, to clean up and to fail
DKObjects ==
    {"deploymentMetadata", "agAuthToken", "agStatefulSet", "kspmDaemonSet",
     "oaTenantSecret", "oaConnectionInfo", "oaDaemonSet"}
=============================================================================
