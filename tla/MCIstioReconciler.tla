-------------------------- MODULE MCIstioReconciler --------------------------
(* A DynaKube that drops the mesh, an agent, or one ActiveGate for another. *)
EXTENDS IstioReconciler

CONSTANTS cluster1, cluster2, address, noURL

MCHost == {cluster1, cluster2, address}

\* one and several hosts, of one and of both kinds, none, and no URL
MCEndpoints == {{}, {cluster1}, {cluster2, address}, {noURL}}

Talks(gate) ==
    [istio |-> TRUE, api |-> cluster1, zone |-> FALSE, activeGate |-> TRUE, gate |-> gate, kubemon |-> FALSE, oneAgent |-> "app"]

\* what a spec changes besides the feature flag; without the flag the tenant is asked for less
Changed(gate) == {Talks(gate), [Talks(gate) EXCEPT !.istio = FALSE],
                  [Talks(gate) EXCEPT !.activeGate = FALSE, !.oneAgent = "host"]}

MCSpecs == Changed(FALSE) \cup Changed(TRUE) \cup
    {[Talks(TRUE) EXCEPT !.api = address, !.zone = TRUE],
     [Talks(TRUE) EXCEPT !.activeGate = FALSE, !.kubemon = TRUE, !.oneAgent = "none"]}
=============================================================================
