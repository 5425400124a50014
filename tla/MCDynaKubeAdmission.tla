----------------------- MODULE MCDynaKubeAdmission -----------------------
EXTENDS DynaKubeAdmission, TLC

CONSTANTS c1, c2

Clients == Permutations(Client)

Nodes == {{"linux"}, {"linux", "gpu"}, {"arm"}}

Selectors == {{"linux"}, {"linux", "gpu"}, {"arm"}}

Plain ==
    [tenant |-> "t1", modes |-> {}, nodes |-> None, autoUpdate |-> FALSE,
     namespaces |-> {}, otlp |-> {}, log |-> FALSE, logNodes |-> None,
     ingest |-> None, extensions |-> {}, collector |-> None,
     isDefault |-> FALSE, images |-> {"eec", "executor", "kspm", "logMonitoring"},
     gate |-> {}, replicas |-> 1, kubemon |-> FALSE, kspm |-> FALSE,
     registry |-> FALSE, override |-> FALSE, nodeImagePull |-> FALSE,
     uncopied |-> {}, flaws |-> {}]

\* the latest API
LatestSpecs ==
    {[Plain EXCEPT !.modes = {"cloud"}, !.nodes = {"linux"}, !.namespaces = {"n1"}],
     [Plain EXCEPT !.modes = {"classic"}, !.nodes = {"arm"},
                   !.registry = TRUE, !.images = {"oneAgent"}],
     [Plain EXCEPT !.modes = {"app"}, !.namespaces = {"n1"},
                   !.log = TRUE, !.logNodes = {"linux", "gpu"},
                   !.extensions = {"spec", "databases"}],
     [Plain EXCEPT !.tenant = "t2", !.log = TRUE, !.otlp = {"n1"},
                   !.kspm = TRUE, !.kubemon = TRUE],
     [Plain EXCEPT !.extensions = {"spec"}, !.images = {},
                   !.uncopied = {"useEphemeralVolume"}],
     [Plain EXCEPT !.ingest = "s1", !.collector = "custom",
                   !.gate = {"kubernetes"}, !.kspm = TRUE]}

\* v1beta5: no default is filled in yet
V1Beta5Specs ==
    {[ConvertFrom([Plain EXCEPT !.modes = {"host"}, !.autoUpdate = TRUE])
         EXCEPT !.uncopied = {"storageHostPath"}],
     ConvertFrom([Plain EXCEPT !.log = TRUE, !.logNodes = {"linux"},
                               !.ingest = "s1"]),
     ConvertFrom([Plain EXCEPT !.extensions = {"spec", "prometheus"},
                               !.ingest = "s2", !.tenant = "t2", !.collector = "half"])}

LatestEdits(dk) ==
    {[dk EXCEPT !.nodes = {"linux", "gpu"}, !.flaws = {"protocol"}],
     [dk EXCEPT !.tenant = "t2", !.log = TRUE, !.ingest = "s1", !.collector = "custom"]}

V1Beta5Edits(old) ==
    {old, [old EXCEPT !.tenant = "t1", !.ingest = "s2"],
     [old EXCEPT !.modes = {"cloud"}, !.collector = "custom",
                 !.uncopied = {"useEphemeralVolume"}, !.flaws = {"agClaim"}],
     [old EXCEPT !.modes = {"host", "cloud"}]}
=============================================================================
