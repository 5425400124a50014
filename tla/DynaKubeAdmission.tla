-------------------------- MODULE DynaKubeAdmission --------------------------
(***************************************************************************)
(* How a DynaKube gets into the cluster: clients of the latest and of the   *)
(* v1beta5 API create, edit and delete DynaKubes; the API server converts  *)
(* (api/v1beta5/dynakube/convert_*.go), asks the validating webhook        *)
(* (api/validation/dynakube) and stores the latest form.  Three of the     *)
(* webhook's validators list the other DynaKubes, each on its own, so other *)
(* requests get in between.                                                *)
(*                                                                         *)
(* A DynaKube is a record of what validators and conversions tell apart;   *)
(* every rule about the form of one field (a name, a URL, an argument, a    *)
(* volume) is a member of its "flaws".  Warnings change nothing and are    *)
(* left out.                                                               *)
(***************************************************************************)
EXTENDS FiniteSets, Naturals

CONSTANTS
    Name,        \* names of DynaKubes
    Client,      \* clients whose requests overlap
    NodeLabels,  \* the label set of every node
    Selector,    \* the node selectors in use: sets of labels
    Modules,     \* the modules the operator was installed with
    Specs,       \* what clients of the latest API create
    OldSpecs,    \* what clients of v1beta5 create
    Edits(_),    \* what an editing client makes of a DynaKube it read
    OldEdits(_), \* the same for a v1beta5 client
    MaxRequests, \* bound on requests of a behaviour
    MaxFailures, \* bound on failed lists
    None         \* no object; also the nil selector and image

ASSUME NoneAssumption == None # "default"

(* No node meets two selectors neither of which implies the other:          *)
(* hasConflictingMatchLabels does not see those.                            *)
ASSUME SelectorAssumption ==
    \A labels \in NodeLabels : \A s, t \in Selector :
        s \subseteq labels /\ t \subseteq labels => s \subseteq t \/ t \subseteq s

VARIABLES
    stored,   \* the DynaKubes in the API server, in the latest version
    request,  \* the request each client has under way
    requests, \* how many requests were made
    failures, \* how many lists have failed
    written,  \* what a v1beta5 client wrote last, until somebody else wrote
    unseen    \* pairs of names neither of which was admitted knowing the other

vars == <<stored, request, requests, failures, written, unseen>>

------------------------------------------------------------------------------
(* The schemas of the two versions, which the API server holds a request to. *)

Mode == {"host", "cloud", "classic", "app"}
LaterFlaws == {"attributes", "databaseVolume", "agVolume"}
(* Fields both versions have, which no conversion copies.                   *)
Uncopied == {"storageHostPath", "terminationGracePeriodSeconds", "useEphemeralVolume"}

DynaKube ==
    [tenant : STRING, modes : SUBSET Mode, nodes : Selector \cup {None},
     autoUpdate : BOOLEAN, namespaces : SUBSET STRING, otlp : SUBSET STRING,
     log : BOOLEAN, logNodes : Selector \cup {None}, ingest : STRING \cup {None},
     extensions : SUBSET {"spec", "prometheus", "databases"},
     collector : STRING \cup {None}, isDefault : BOOLEAN, images : SUBSET STRING,
     gate : SUBSET STRING, replicas : Nat, kubemon : BOOLEAN, kspm : BOOLEAN,
     registry : BOOLEAN, override : BOOLEAN, nodeImagePull : BOOLEAN,
     uncopied : SUBSET Uncopied, flaws : SUBSET STRING]

(* "spec" stands for the extensions section itself, which may be empty.     *)
MeetsSchema(dk) ==
    dk \in DynaKube /\ (dk.extensions # {} => "spec" \in dk.extensions)

OldDynaKube ==
    [tenant : STRING, modes : SUBSET Mode, nodes : Selector \cup {None},
     autoUpdate : BOOLEAN, namespaces : SUBSET STRING,
     log : BOOLEAN, logNodes : Selector \cup {None}, ingest : STRING \cup {None},
     extensions : BOOLEAN, collector : STRING \cup {None},
     images : SUBSET (STRING \ {"executor"}), gate : SUBSET STRING,
     replicas : Nat, kspm : BOOLEAN, registry : BOOLEAN,
     nodeImagePull : BOOLEAN, uncopied : SUBSET Uncopied,
     flaws : SUBSET (STRING \ LaterFlaws)]

(* autoUpdate is a field of the modes with a host agent.                    *)
MeetsOldSchema(old) ==
    old \in OldDynaKube /\ (old.autoUpdate => old.modes \ {"app"} # {})

------------------------------------------------------------------------------
(* What the accessors of a DynaKube say.                                    *)

IsDaemonsetRequired(dk) == dk.modes \cap {"host", "cloud", "classic"} # {}

IsAppInjectionNeeded(dk) == dk.modes \cap {"app", "cloud"} # {}

IsStandalone(dk) == dk.log /\ ~IsDaemonsetRequired(dk)

LogSelector(dk) == IF IsStandalone(dk) THEN dk.logNodes ELSE None

NodeSelector(dk, fallback) ==
    IF IsDaemonsetRequired(dk) THEN dk.nodes ELSE fallback

AgentNodes(dk) == NodeSelector(dk, LogSelector(dk))

IsAnyEnabled(dk) == dk.extensions \cap {"prometheus", "databases"} # {}

IsActiveGateEnabled(dk) == dk.gate # {} \/ IsAnyEnabled(dk)

MonitorsKubernetes(dk) == "kubernetes" \in dk.gate

RegistersKubernetes(dk) == dk.kubemon \/ MonitorsKubernetes(dk)

CollectorNeeded(ingest, prometheus) == ingest # None \/ prometheus

(* A repository without a tag, or a tag without one, is "half" an image.    *)
HasImage(collector) == collector \notin {None, "half"}

(* The namespaces it injects into: OneAgent and metadata enrichment, OTLP.  *)
Injects(dk) == dk.namespaces \cup dk.otlp

------------------------------------------------------------------------------
(* Validators of one DynaKube, by file.                                     *)

ModuleErrors(dk) ==
    {m \in {"OneAgent", "ActiveGate", "KubernetesMonitoring", "Extensions",
            "LogMonitoring", "KSPM"} \ Modules :
        \/ m = "OneAgent" /\ IsDaemonsetRequired(dk)
        \/ m = "ActiveGate" /\ IsActiveGateEnabled(dk)
        \/ m = "KubernetesMonitoring" /\ (MonitorsKubernetes(dk) \/ dk.kspm)
        \/ m = "Extensions" /\ IsAnyEnabled(dk)
        \/ m = "LogMonitoring" /\ dk.log
        \/ m = "KSPM" /\ dk.kspm}

(* oneagent.go, hostgroup.go, image.go: version, arguments, image, storage. *)
OneAgentFlaws(dk) ==
    IF IsDaemonsetRequired(dk)
    THEN {"version", "image", "duplicateArgument", "argument"}
             \cup (IF "cloud" \in dk.modes THEN {"hostIDSource"} ELSE {})
             \cup (IF "classic" \in dk.modes THEN {} ELSE {"storage"})
    ELSE IF "app" \in dk.modes THEN {"version"} ELSE {}

conflictingOneAgentConfiguration(dk) == Cardinality(dk.modes) > 1

missingCodeModulesImage(dk) ==
    /\ IsAppInjectionNeeded(dk)
    /\ dk.nodeImagePull /\ "codeModules" \notin dk.images /\ ~dk.registry

missingLogMonitoringImage(dk) ==
    IsStandalone(dk) /\ ~dk.registry /\ "logMonitoring" \notin dk.images

extensionControllerImage(dk) ==
    IsAnyEnabled(dk) /\ ~dk.registry /\ "eec" \notin dk.images

missingDatabaseExecutorImage(dk) ==
    "databases" \in dk.extensions /\ ~dk.registry /\ "executor" \notin dk.images

missingOTelCollectorImage(dk) ==
    /\ CollectorNeeded(dk.ingest, "prometheus" \in dk.extensions)
    /\ ~HasImage(dk.collector)

KSPMErrors(dk) ==
    dk.kspm /\ \/ "kspm" \notin dk.images
               \/ ~RegistersKubernetes(dk)
               \/ dk.replicas > 1 /\ MonitorsKubernetes(dk)
               \/ "kubemonReplicas" \in dk.flaws /\ dk.kubemon
               \/ "hostPath" \in dk.flaws

PublicRegistryErrors(dk) ==
    \/ dk.override /\ ~dk.registry
    \/ /\ "classic" \in dk.modes /\ "oneAgent" \notin dk.images
       /\ dk.override \/ dk.registry

(* The rules on the form of fields that hold whatever is enabled: API URL,  *)
(* selectors, ActiveGate volumes, resource attributes, proxy, network zone. *)
(* A volume claim of the ActiveGate is one beside an ephemeral volume.      *)
ActiveGateFlaws(dk) ==
    {"agCapability", "agVolume"}
        \cup (IF "useEphemeralVolume" \in dk.uncopied THEN {"agClaim"} ELSE {})
URLFlaws == {"apiURL"}
SelectorFlaws == {"namespaceSelector"}
AttributeFlaws == {"attributes"}
ProxyFlaws == {"proxy"}
DatabaseFlaws(dk) ==
    IF "databases" \in dk.extensions THEN {"databaseVolume"} ELSE {}
ExtensionFlaws(dk) == IF IsAnyEnabled(dk) THEN {"eecPersistence"} ELSE {}
IngestFlaws(dk) == IF dk.ingest # None THEN {"protocol", "serviceName"} ELSE {}

(* The length of a name is bounded by the longest object name made from it. *)
NameErrors(dk) ==
    \/ "longName" \in dk.flaws
    \/ /\ "nameForWorkloads" \in dk.flaws
       /\ IsAnyEnabled(dk) \/ dk.ingest # None \/ dk.kspm

HasErrors(dk) ==
    \/ ModuleErrors(dk) # {}
    \/ conflictingOneAgentConfiguration(dk)
    \/ missingCodeModulesImage(dk) \/ missingLogMonitoringImage(dk)
    \/ extensionControllerImage(dk) \/ missingDatabaseExecutorImage(dk)
    \/ missingOTelCollectorImage(dk)
    \/ KSPMErrors(dk) \/ PublicRegistryErrors(dk) \/ NameErrors(dk)
    \/ dk.flaws \cap (OneAgentFlaws(dk) \cup ActiveGateFlaws(dk) \cup URLFlaws
                       \cup SelectorFlaws \cup AttributeFlaws \cup ProxyFlaws
                       \cup DatabaseFlaws(dk) \cup ExtensionFlaws(dk)
                       \cup IngestFlaws(dk)) # {}

IsMutatedAPIURL(old, new) == old.tenant # new.tenant

------------------------------------------------------------------------------
(* Validators that compare with the other DynaKubes.                        *)

(* A selector that asks for more is matched by the labels it asks for.      *)
hasConflictingMatchLabels(s, t) ==
    s = None \/ t = None \/ s \subseteq t \/ t \subseteq s

hasLogMonitoringSelectorConflict(dk, other) ==
    /\ IsStandalone(dk) /\ dk.tenant = other.tenant
    /\ IsDaemonsetRequired(other) \/ IsStandalone(other)
    /\ hasConflictingMatchLabels(AgentNodes(dk), AgentNodes(other))

\* mutant: only host agents are looked at
hasHostAgentConflict(dk, other) ==
    /\ IsDaemonsetRequired(dk) /\ IsDaemonsetRequired(other)
    /\ hasConflictingMatchLabels(AgentNodes(dk), AgentNodes(other))

hasOneAgentSelectorConflict(dk, other) ==
    /\ IsDaemonsetRequired(dk)
    /\ \/ IsDaemonsetRequired(other)
       \/ IsStandalone(other) /\ dk.tenant = other.tenant
    /\ hasConflictingMatchLabels(AgentNodes(dk), AgentNodes(other))

(* The last comparison falls back to the selector of dk, not of the other.  *)
conflictingOneAgentNodeSelector(dk, others) ==
    \E other \in others :
        /\ \/ hasLogMonitoringSelectorConflict(dk, other)
           \/ hasOneAgentSelectorConflict(dk, other)
        /\ hasConflictingMatchLabels(AgentNodes(dk),
                                     NodeSelector(other, LogSelector(dk)))

conflictingNamespaceSelector(dk, others) ==
    \E other \in others : Injects(dk) \cap Injects(other) # {}

conflictingTelemetryIngestServiceNames(dk, others) ==
    dk.ingest # None /\ \E other \in others : other.ingest = dk.ingest

------------------------------------------------------------------------------
(* Conversions.  v1beta5 knows neither databases, OTLP, Kubernetes           *)
(* monitoring outside the ActiveGate, attributes nor a registry of one's    *)
(* own; it has a collector image of its own default, and autoUpdate, both   *)
(* of which the latest form keeps in annotations.                           *)

FirstMode(modes) ==
    IF modes = {} THEN {}
    ELSE {CHOOSE m \in modes :
              \/ m = "classic"
              \/ m = "cloud" /\ "classic" \notin modes
              \/ m = "app" /\ modes \cap {"classic", "cloud"} = {}
              \/ modes = {"host"}}

OneAgentSpec(dk) ==
    [modes |-> FirstMode(dk.modes),
     autoUpdate |-> dk.autoUpdate /\ dk.modes # {} /\ FirstMode(dk.modes) # {"app"}]

\* mutant: the default is left to telemetry ingest
ToIngestCollector(old) ==
    LET default == ~HasImage(old.collector) /\ old.ingest # None
    IN  [collector |-> IF default THEN "default" ELSE old.collector,
         isDefault |-> default]

(* The default takes the place of a missing image where one is needed.      *)
ToCollector(old) ==
    LET default == /\ ~HasImage(old.collector)
                   /\ CollectorNeeded(old.ingest, old.extensions)
    IN  [collector |-> IF default THEN "default" ELSE old.collector,
         isDefault |-> default]

\* mutant: the default is not taken away
FromSetCollector(dk) == [collector |-> dk.collector]

FromCollector(dk) ==
    [collector |-> IF dk.isDefault THEN None ELSE dk.collector]

(* Otherwise the fields are copied: base, templates and ActiveGate.  An     *)
(* extensions section, empty or not, is Prometheus to v1beta5.              *)
ConvertTo(old) ==
    [tenant |-> old.tenant, nodes |-> old.nodes, namespaces |-> old.namespaces,
     modes |-> OneAgentSpec(old).modes, autoUpdate |-> OneAgentSpec(old).autoUpdate,
     log |-> old.log, logNodes |-> old.logNodes, kspm |-> old.kspm,
     registry |-> old.registry, nodeImagePull |-> old.nodeImagePull,
     images |-> old.images \ {"executor"}, gate |-> old.gate,
     replicas |-> old.replicas, ingest |-> old.ingest, flaws |-> old.flaws,
     collector |-> ToCollector(old).collector,
     isDefault |-> ToCollector(old).isDefault,
     extensions |-> IF old.extensions THEN {"spec", "prometheus"} ELSE {},
     uncopied |-> {},
     otlp |-> {}, kubemon |-> FALSE, override |-> FALSE]

ConvertFrom(dk) ==
    [tenant |-> dk.tenant, nodes |-> dk.nodes, namespaces |-> dk.namespaces,
     modes |-> OneAgentSpec(dk).modes, autoUpdate |-> OneAgentSpec(dk).autoUpdate,
     log |-> dk.log, logNodes |-> dk.logNodes, kspm |-> dk.kspm,
     registry |-> dk.registry, nodeImagePull |-> dk.nodeImagePull,
     images |-> dk.images \ {"executor"}, gate |-> dk.gate,
     replicas |-> dk.replicas, ingest |-> dk.ingest,
     flaws |-> dk.flaws \ LaterFlaws,
     collector |-> FromCollector(dk).collector,
     extensions |-> "spec" \in dk.extensions, uncopied |-> {}]

------------------------------------------------------------------------------
(* Requests.                                                                *)

Idle == [step |-> "none"]

Others(n) == {stored[m] : m \in Name \ {n}} \ {None}

Init ==
    /\ stored = [n \in Name |-> None]
    /\ request = [c \in Client |-> Idle]
    /\ requests = 0 /\ failures = 0
    /\ written = [n \in Name |-> None]
    /\ unseen = {}

(* The schema, the validators that look at the object, and at the old one on *)
(* an update.                                                               *)
Ask(c, n, new, old) ==
    /\ MeetsSchema(new) /\ (old = None \/ MeetsOldSchema(old))
    /\ request[c] = Idle /\ requests < MaxRequests
    /\ requests' = requests + 1
    /\ request' = [request EXCEPT ![c] =
         [step |-> "nodes", name |-> n, base |-> stored[n], new |-> new,
          old |-> old, missed |-> {},
          valid |-> /\ ~HasErrors(new)
                    /\ stored[n] # None => ~IsMutatedAPIURL(stored[n], new)]]
    /\ UNCHANGED <<stored, failures, written, unseen>>

Create(c, n) ==
    /\ stored[n] = None
    /\ \/ \E dk \in Specs : Ask(c, n, dk, None)
       \/ \E old \in OldSpecs : Ask(c, n, ConvertTo(old), old)

Update(c, n) ==
    /\ stored[n] # None
    /\ \/ \E dk \in Edits(stored[n]) : Ask(c, n, dk, None)
       \/ \E old \in OldEdits(ConvertFrom(stored[n])) :
              Ask(c, n, ConvertTo(old), old)

(* One validator that compares: a list that fails is no reason to refuse.   *)
Compare(c, step, next, needed, conflicts) ==
    LET r == request[c] IN
    /\ r.step = step
    /\ \/ /\ request' = [request EXCEPT ![c].step = next,
                            ![c].valid = @ /\ ~(needed /\ conflicts)]
          /\ UNCHANGED failures
       \/ /\ needed /\ failures < MaxFailures
          /\ failures' = failures + 1
          /\ request' = [request EXCEPT ![c].step = next,
                                         ![c].missed = Name \ {r.name}]
    /\ UNCHANGED <<stored, requests, written, unseen>>

CompareNodes(c) ==
    /\ request[c].step = "nodes"
    /\ LET dk == request[c].new IN
       Compare(c, "nodes", "namespaces",
               IsDaemonsetRequired(dk) \/ IsStandalone(dk),
               conflictingOneAgentNodeSelector(dk, Others(request[c].name)))

CompareNamespaces(c) ==
    /\ request[c].step = "namespaces"
    /\ LET dk == request[c].new IN
       Compare(c, "namespaces", "services", Injects(dk) # {},
               conflictingNamespaceSelector(dk, Others(request[c].name)))

CompareServices(c) ==
    /\ request[c].step = "services"
    /\ LET dk == request[c].new IN
       Compare(c, "services", "answer", dk.ingest # None,
               conflictingTelemetryIngestServiceNames(
                   dk, Others(request[c].name)))

Refuse(c) ==
    /\ request[c].step = "answer"
    /\ ~request[c].valid \/ stored[request[c].name] # request[c].base
    /\ request' = [request EXCEPT ![c] = Idle]
    /\ UNCHANGED <<stored, requests, failures, written, unseen>>

(* Requests under way for other names do not know of what is stored now.    *)
Store(c) ==
    LET r == request[c] IN
    /\ r.step = "answer" /\ r.valid /\ stored[r.name] = r.base
    /\ stored' = [stored EXCEPT ![r.name] = r.new]
    /\ written' = [written EXCEPT ![r.name] = r.old]
    /\ unseen' = {p \in unseen : r.name \notin p}
                     \cup {{r.name, m} : m \in r.missed}
    /\ request' = [d \in Client |->
          IF d = c THEN Idle
          ELSE IF request[d] = Idle \/ r.name = request[d].name THEN request[d]
          ELSE [request[d] EXCEPT !.missed = @ \cup {r.name}]]
    /\ UNCHANGED <<requests, failures>>

Delete(n) ==
    /\ stored[n] # None
    /\ stored' = [stored EXCEPT ![n] = None]
    /\ written' = [written EXCEPT ![n] = None]
    /\ unseen' = {p \in unseen : n \notin p}
    /\ UNCHANGED <<request, requests, failures>>

Next ==
    \/ \E c \in Client :
          \/ \E n \in Name : Create(c, n) \/ Update(c, n)
          \/ CompareNodes(c) \/ CompareNamespaces(c) \/ CompareServices(c)
          \/ Refuse(c) \/ Store(c)
    \/ \E n \in Name : Delete(n)

Spec == Init /\ [][Next]_vars

------------------------------------------------------------------------------
(* What admission is for.                                                   *)

RunsOn(dk, labels) ==
    /\ IsDaemonsetRequired(dk) \/ IsStandalone(dk)
    /\ AgentNodes(dk) # None => AgentNodes(dk) \subseteq labels

(* Two host agents exclude each other; one that only reads logs shares a    *)
(* node with agents of other tenants.                                       *)
Exclude(a, b) ==
    \/ IsDaemonsetRequired(a) /\ IsDaemonsetRequired(b)
    \/ a.tenant = b.tenant

(* Two DynaKubes one of which was admitted knowing the other never put two  *)
(* agents that exclude each other on a node, never inject into the same     *)
(* namespace and never claim one service name.  Creating and updating in    *)
(* either version, in any order, comes to the same.                         *)
NothingIsShared ==
    \A a, b \in Name :
        LET A == stored[a]
            B == stored[b]
        IN  (a # b /\ A # None /\ B # None /\ {a, b} \notin unseen) =>
              /\ Injects(A) \cap Injects(B) = {}
              /\ A.ingest # None => A.ingest # B.ingest
              /\ \A labels \in NodeLabels :
                    ~(RunsOn(A, labels) /\ RunsOn(B, labels) /\ Exclude(A, B))

(* What the conversions keep of what a v1beta5 client wrote: all but three   *)
(* fields, and half an image where the default takes its place.             *)
ReadBack(old) ==
    [old EXCEPT !.uncopied = {},
                !.collector = IF ToCollector(old).isDefault THEN None ELSE @]

(* A client of v1beta5 reads back what the conversions keep of what it      *)
(* wrote, whoever edited and compared in between: a field that the latest    *)
(* version lacks comes back, what it fills in is taken away.  (Of two modes, *)
(* toOneAgentSpec keeps one, and so the webhook never sees the other.)      *)
OldClientsReadBack ==
    \A n \in Name :
        /\ written[n] # None
        /\ ~conflictingOneAgentConfiguration(written[n])
        => ConvertFrom(stored[n]) = ReadBack(written[n])

(* A v1beta5 client can write what it read of an admitted DynaKube: the     *)
(* conversions lose nothing that a validator asks for.  (The exceptions are *)
(* KSPM on the Kubernetes monitoring that v1beta5 has no field for, and an  *)
(* empty extensions section, which comes back with Prometheus enabled.)     *)
OldWriteBackIsAccepted ==
    \A n \in Name :
        LET dk == stored[n]
        IN  /\ dk # None
            /\ dk.kspm => MonitorsKubernetes(dk)
            /\ dk.extensions # {"spec"}
            => ~HasErrors(ConvertTo(ConvertFrom(dk)))

TypeOK ==
    /\ requests \in 0 .. MaxRequests /\ failures \in 0 .. MaxFailures
    /\ unseen \subseteq SUBSET Name
    /\ \A c \in Client :
          request[c].step \in
              {"none", "nodes", "namespaces", "services", "answer"}
=============================================================================
