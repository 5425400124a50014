----------------------------- MODULE MCCSIDriver -----------------------------
(***************************************************************************)
(* Small instances of the CSI driver.  d1 and d2 are DynaKubes; a1 and a2  *)
(* are app volumes of pods of d1, h1 is a volume of d1's host agent.       *)
(***************************************************************************)
EXTENDS CSIDriver

CONSTANTS d1, d2, a1, a2, h1, p1, v1, v2

MCDynaKubeOf == [vol \in AppVolume \cup HostVolume |-> d1]

\* a1 and a2 are volumes of two incarnations of the same pod
MCPodOf == [vol \in AppVolume |-> p1]

AppSpecs == {s \in DynaKubeSpec : s.app /\ ~s.host}
\* cloud-native full stack, host agents and modules, or neither
CloudNativeSpecs == {NoSpec} \cup {s \in DynaKubeSpec : s.host /\ s.app /\ s.version # NoVersion}
=============================================================================
