--------------------------- MODULE MCPodMutation ---------------------------
EXTENDS PodMutation

Kube(on, selects, classic, ready, certs, override) ==
    [on |-> on, selects |-> selects, classic |-> classic, ready |-> ready, certs |-> certs, override |-> override]

\* classic full-stack monitoring does not inject; what is selected matters for what is on
SomeDynaKubes ==
    {d \in [on : SUBSET Feature, selects : {Feature, {"otlp"}, {"metadata", "otlp"}}, classic : BOOLEAN, ready : BOOLEAN, certs : BOOLEAN, override : BOOLEAN] :
        /\ d.classic => "oneagent" \notin d.on
        /\ ~d.ready => "oneagent" \in d.on
        /\ d.override => "otlp" \in d.on
        /\ d.selects # Feature => "oneagent" \in d.on /\ ~d.override}

\* the application and its sidecar; a pod may refuse a feature, exclude a container, and bring a volume or an exporter of its own
SomePods ==
    {u \in [containers : {{"app"}, {"app", "side"}}, excluded : {{}, {"side"}, {"app"}}, inject : BOOLEAN,
            wants : {Feature, {"metadata", "otlp"}, {"oneagent"}}, split : BOOLEAN, ownOTLP : {{}, {"app"}}, foreign : {{}} \cup {{v} : v \in Volume}] :
        /\ ~u.inject => u.wants = Feature /\ ~u.split /\ u.ownOTLP = {} /\ u.foreign = {} /\ u.excluded = {}
        /\ u.foreign # {} => u.wants = Feature /\ ~u.split /\ u.excluded = {}
        /\ u.ownOTLP # {} => u.wants = Feature /\ ~u.split}
=============================================================================
