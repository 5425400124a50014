------------------------- MODULE MCWorkloadRollout -------------------------
EXTENDS WorkloadRollout

Kube(on, with) == [on |-> on, with |-> with]

\* specs whose values change
Changing ==
    {Kube({"activeGate"}, {"properties", "noProxy", "proxy", "autoCert"}),
     Kube({"kubemon", "kspm"}, {"properties"}),
     Kube({"oneAgent", "logMonitoring"}, {"noProxy", "hostMonitoring"}),
     Kube({"logMonitoring"}, {"proxy", "oaIgnoresProxy", "networkZone"}),
     Kube({"activeGate", "kspm"}, {"properties", "attributes"}),
     Kube({"telemetry", "prometheus", "databases"}, {"tlsRef"})}

\* all combinations of what a group of parts distinguishes
Every(on, features) == {Kube(on, with) : with \in SUBSET features}
Combined ==
    Every({"activeGate"}, {"trustedCAs", "autoCert", "userCert", "attributes", "properties", "proxy", "noProxy", "readOnly", "agIgnoresProxy"})
    \cup Every({"activeGate", "telemetry", "prometheus"}, {"trustedCAs", "autoCert", "tlsRef", "legacyMounts"})
    \cup Every({"telemetry"}, {"trustedCAs", "tlsRef"})
    \cup Every({"prometheus"}, {"trustedCAs", "legacyMounts", "customConfig", "extCerts", "ephemeral"})
    \cup Every({"activeGate", "databases"}, {"trustedCAs", "userCert"})
    \cup Every({"activeGate", "oneAgent"}, {"readOnly", "csi", "hostMonitoring", "trustedCAs", "autoCert", "proxy", "oaIgnoresProxy"})
    \cup Every({"oneAgent"}, {"readOnly", "csi", "hostMonitoring", "proxy", "oaIgnoresProxy"})
    \cup Every({"kubemon", "kspm", "activeGate"}, {"properties", "autoCert", "proxy", "noProxy"})
All == Changing \cup Combined
=============================================================================
