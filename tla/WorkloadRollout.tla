-------------------------- MODULE WorkloadRollout --------------------------
(***************************************************************************)
(* How new contents reach the pods.  The reconcilers of a DynaKube copy,   *)
(* generate and rotate secrets and config maps, put hashes of some of them *)
(* into the pod templates of the workloads, and Kubernetes starts the pods *)
(* of a changed template.  A pod keeps the contents it started with: files *)
(* are mounted by subPath or read once, and environments never change.     *)
(* The features of the DynaKube stay, its values and their sources change. *)
(***************************************************************************)
EXTENDS Naturals, FiniteSets, Sequences

CONSTANTS
    Specs,        \* the DynaKubes to consider: the parts that are on, and with what
    Disturbed,    \* those among them in which values change and steps fail
    MaxDisturbances  \* bound on changes of users, the tenant and time, failing steps, lost writes and crashes

ASSUME SpecsAssumption == Disturbed \subseteq Specs
ASSUME BoundAssumption == MaxDisturbances \in Nat

VARIABLES
    spec,       \* the DynaKube
    value,      \* its values, and what their sources hold
    dk,         \* the values of the copy the reconcile works on
    object,     \* secrets and config maps
    outdated,   \* the secrets that passed their rotation interval
    st,         \* hashes in the status of the copy
    stored,     \* and in the API server
    template,   \* of the workloads
    pod,        \* their pods
    position,   \* in the steps, 0 between reconciles
    disturbances,
    quiet,      \* history: undisturbed reconciles, capped
    spoiled,    \* history: something happened during this reconcile
    raced,      \* history: the properties changed between copy and hash
    lost        \* history: a hash of the KSPM token was lost

rolloutVars == <<spec, value, dk, object, outdated, st, stored, template, pod, position, disturbances, quiet, spoiled, raced, lost>>

Workload == {"activeGate", "kubemon", "kspm", "logMonitoring", "oneAgent", "eec", "databases", "collector"}
Object == {"proxySecret", "agTenant", "agConnection", "attributesConfig", "agAuth", "agProperties", "agCert",
           "kmTenant", "kmConnection", "kmAuth", "kmProperties", "extToken", "extCert", "collectorConfig",
           "kspmToken", "oaTenant", "logConfig", "pgcConfig"}
UserSecret == {"tlsRef", "ingest"}
Rotated == {"agAuth", "kmAuth"}
Generated == {"agCert", "extToken", "extCert", "kspmToken"} \cup Rotated
Hash == {"agTenant", "oaTenant", "kspmToken", "proxySecret"}
\* values in the spec; the others are read when they are needed
SpecSource == {"noProxy", "attributes", "protocols", "networkZone"}
Source == SpecSource \cup {"tenantToken", "endpoints", "pgc", "properties", "proxy", "generation"} \cup UserSecret
MaxQuiet == 2

Content == [Source -> Nat]
Nothing == [s \in Source |-> 0]
NoTemplate == [there |-> FALSE, hash |-> [o \in Object \cup UserSecret |-> Nothing], volumes |-> {}, mounts |-> {}]
NoPod == [there |-> FALSE, hash |-> NoTemplate.hash, content |-> NoTemplate.hash]

On(f) == f \in spec.on
With(f) == f \in spec.with
HasCaCert == On("activeGate") /\ (With("autoCert") \/ With("userCert"))
NeedsCustomNoProxy == With("proxy") /\ With("noProxy")
NeedsActiveGateProxy == With("proxy") /\ On("activeGate") /\ ~With("agIgnoresProxy")
NeedsOneAgentProxy == With("proxy") /\ ~With("oaIgnoresProxy")
Extends == On("prometheus") \/ On("databases")
NeedsPGC == On("oneAgent") /\ With("hostMonitoring")
\* the ActiveGates monitor Kubernetes unless the kubemon operand does
MonitorsKubernetes == On("kspm") /\ ~On("kubemon")

-----------------------------------------------------------------------------
(* The steps: what a reconcile makes, in order, with the component it belongs to *)

Steps ==
    <<<<"proxy", "proxySecret">>,
      <<"activeGate", "agTenant">>, <<"activeGate", "agConnection">>, <<"activeGate", "attributesConfig">>, <<"activeGate", "agAuth">>,
      <<"activeGate", "agProperties">>, <<"activeGate", "agCert">>, <<"activeGate", "activeGate">>,
      <<"kubemon", "kmConnection">>, <<"kubemon", "kmTenant">>, <<"kubemon", "kmAuth">>, <<"kubemon", "kmProperties">>, <<"kubemon", "kubemon">>,
      <<"extension", "extToken">>, <<"extension", "extCert">>, <<"extension", "eec">>, <<"extension", "databases">>,
      <<"otelc", "collectorConfig">>, <<"otelc", "collector">>,
      <<"kspm", "kspmToken">>, <<"kspm", "kspm">>,
      <<"logMonitoring", "oaTenant">>, <<"logMonitoring", "logConfig">>, <<"logMonitoring", "logMonitoring">>,
      <<"injection", "pgcConfig">>,
      <<"oneAgent", "oaTenant">>, <<"oneAgent", "oneAgent">>,
      <<"status", "write">>>>

Wanted(component) ==
    CASE component = "proxy"     -> NeedsActiveGateProxy \/ NeedsOneAgentProxy
      [] component = "extension" -> Extends
      [] component = "otelc"     -> On("telemetry") \/ On("prometheus")
      [] component = "injection" -> NeedsPGC
      [] component = "status"    -> TRUE
      [] OTHER                   -> On(component)
\* Mutant: the properties are only copied when there are some
AppliesWithProperties(what) ==
    CASE what \in {"agProperties", "kmProperties"} -> With("properties")
      [] what = "agCert"          -> With("autoCert") /\ ~With("userCert")
      [] what = "databases"       -> On("databases")
      [] what = "collectorConfig" -> On("telemetry")
      [] OTHER                    -> TRUE
Applies(what) ==
    CASE what = "agProperties"    -> With("properties") \/ NeedsCustomNoProxy
      [] what = "agCert"          -> With("autoCert") /\ ~With("userCert")
      [] what = "kmProperties"    -> With("properties")
      [] what = "databases"       -> On("databases")
      [] what = "collectorConfig" -> On("telemetry")
      [] OTHER                    -> TRUE
Component(i) == Steps[i][1]
Made(i) == Steps[i][2]
Enabled(i) == Wanted(Component(i)) /\ Applies(Made(i))
What == IF position = 0 THEN "nothing" ELSE Made(position)
\* the step after the current one, and the first one after its component:
\* an error of a component ends the component, one of the proxy the reconcile
NextStep == {i \in position + 1..Len(Steps) : Enabled(i) /\ \A j \in position + 1..i - 1 : ~Enabled(j)}
NextComponent ==
    IF Component(position) = "proxy" THEN {Len(Steps)}
    ELSE {i \in position + 1..Len(Steps) :
            Enabled(i) /\ Component(i) # Component(position) /\ \A j \in position + 1..i - 1 : Enabled(j) => Component(j) = Component(position)}

-----------------------------------------------------------------------------
(* Pod templates: volumes, mounts and environments *)

When(condition, volumes) == IF condition THEN volumes ELSE {}
CertVolumes == When(HasCaCert, {IF With("userCert") THEN "userCert" ELSE "agCert"})

\* the modifiers of the ActiveGate: each adds its volumes together with its mounts
BaseVolumes == {"tmp"}
AuthTokenVolumes == {"agAuth"}
RawImageVolumes == {"agTenant"}
SSLVolumes == When(HasCaCert \/ With("trustedCAs"), {"ssl"})
TrustedCAsVolumes == When(With("trustedCAs"), {"trustedCAs"})
DeploymentPropertiesVolumes == When(With("attributes"), {"attributesConfig"})
CustomPropertiesVolumes == When(With("properties") \/ NeedsCustomNoProxy, {"agProperties"})
ProxyVolumes == When(NeedsActiveGateProxy, {"proxySecret"})
ReadOnlyVolumes == When(With("readOnly"), {"lib", "data", "log", "conf"})
KubernetesMonitoringVolumes == When(MonitorsKubernetes, {"truststore"})
KSPMTokenVolumes == When(MonitorsKubernetes, {"kspmToken"})
EECTokenVolumes == When(Extends, {"extToken"})
ActiveGateVolumes ==
    UNION {BaseVolumes, AuthTokenVolumes, RawImageVolumes, SSLVolumes, CertVolumes, TrustedCAsVolumes, DeploymentPropertiesVolumes,
           CustomPropertiesVolumes, ProxyVolumes, ReadOnlyVolumes, KubernetesMonitoringVolumes, KSPMTokenVolumes, EECTokenVolumes}

KubemonVolumes ==
    {"kmTenant", "kmAuth", "storage"} \cup When(With("properties"), {"kmProperties"}) \cup When(On("kspm"), {"kspmToken"})
KubemonMounts == KubemonVolumes

\* the volume "runtime" is a claim unless the volume is ephemeral
EECClaims == When(~With("ephemeral"), {"runtime"})
EECVolumes ==
    UNION {{"extToken", "extCert"}, When(With("ephemeral"), {"runtime"}), When(With("legacyMounts"), {"log", "configuration"}),
           When(With("customConfig"), {"customConfig"}), CertVolumes, When(With("extCerts"), {"extCerts"})}
EECMounts ==
    UNION {IF With("legacyMounts") THEN {"extToken", "log", "runtime", "configuration", "extCert"} ELSE {"extToken", "runtime", "extCert"},
           When(With("customConfig"), {"customConfig"}), CertVolumes, When(With("extCerts"), {"extCerts"})}

IsTrustedCAsVolumeNeeded == With("trustedCAs") /\ (On("prometheus") \/ (On("telemetry") /\ ~On("activeGate")))
CollectorVolumes ==
    UNION {When(On("prometheus"), {"extToken", "extCert"}), When(IsTrustedCAsVolumeNeeded, {"trustedCAs"}),
           When(On("telemetry"), {"collectorConfig"} \cup CertVolumes \cup When(With("tlsRef"), {"tlsRef"}))}
CollectorMounts == CollectorVolumes
CollectorEnvs == When(On("prometheus"), {"extToken"}) \cup When(On("telemetry"), {"ingest"})

DatabaseVolumes == {"tmp", "extToken", "extCert"} \cup TrustedCAsVolumes
KSPMVolumes == {"node", "kspmToken"} \cup CertVolumes
LogMonitoringVolumes == {"logConfig", "dtLib", "dtLog", "dockerLogs", "logs"}

OneAgentVolumes(hasPGC) ==
    UNION {{"root", "nodeMetadata", "oaTenant"}, When(With("readOnly"), {IF With("csi") THEN "csi" ELSE "storage"}),
           When(NeedsPGC /\ hasPGC, {"pgcConfig"}), TrustedCAsVolumes, CertVolumes, When(NeedsOneAgentProxy, {"proxySecret"})}
OneAgentMounts(hasPGC) == OneAgentVolumes(hasPGC)

Volumes(w, hasPGC) ==
    CASE w = "activeGate"    -> ActiveGateVolumes
      [] w = "kubemon"       -> KubemonVolumes
      [] w = "eec"           -> EECVolumes \cup EECClaims
      [] w = "collector"     -> CollectorVolumes
      [] w = "databases"     -> DatabaseVolumes
      [] w = "kspm"          -> KSPMVolumes
      [] w = "logMonitoring" -> LogMonitoringVolumes
      [] w = "oneAgent"      -> OneAgentVolumes(hasPGC)
Mounts(w, hasPGC) ==
    CASE w = "kubemon"   -> KubemonMounts
      [] w = "eec"       -> EECMounts
      [] w = "collector" -> CollectorMounts
      [] w = "oneAgent"  -> OneAgentMounts(hasPGC)
      [] OTHER           -> Volumes(w, hasPGC)
Envs(w) ==
    CASE w = "activeGate" -> {"agConnection"}
      [] w = "kubemon"    -> {"kmConnection"}
      [] w = "collector"  -> CollectorEnvs
      [] OTHER            -> {}

-----------------------------------------------------------------------------
(* Contents and hashes *)

Read(s) == IF s \in SpecSource THEN dk[s] ELSE value[s]
From(ss) == [s \in Source |-> IF s \in ss THEN Read(s) ELSE 0]
There(o) == IF o \in UserSecret THEN TRUE ELSE object[o].there
ContentOf(o) == IF o \in UserSecret THEN [Nothing EXCEPT ![o] = value[o]] ELSE object[o].content

\* the user's secret of properties is empty at the even values
NoData(v) == v % 2 = 0
CustomPropertiesValue == From(When(With("properties"), {"properties"}) \cup When(NeedsCustomNoProxy, {"noProxy"}))
\* the tenant token comes from the secret of the OneAgents, the endpoints from the same answer of the tenant
LogConfig ==
    [From({"endpoints"} \cup ({"proxy", "noProxy", "networkZone"} \cap spec.with))
       EXCEPT !.tenantToken = object["oaTenant"].content.tenantToken]

\* what a reconciler writes into an object that it does not generate
Desired(o) ==
    CASE o = "proxySecret"      -> From({"proxy"})
      [] o \in {"agTenant", "kmTenant", "oaTenant"} -> From({"tenantToken"})
      [] o = "attributesConfig" -> From({"attributes"})
      [] o = "agProperties"     -> CustomPropertiesValue
      [] o = "kmProperties"     -> From({"properties"})
      [] o = "collectorConfig"  -> From({"protocols"})
      [] o = "pgcConfig"        -> From({"pgc"})
      [] o = "logConfig"        -> LogConfig
      [] o \in {"agConnection", "kmConnection"} -> Nothing

\* the objects whose contents decide on a rollout
ActiveGateHashed == {"agTenant", "agAuth", "attributesConfig"} \cup When(With("properties"), {"agProperties"}) \cup KSPMTokenVolumes
KubemonHashed == {"kmTenant", "kmAuth"} \cup ({"kmProperties", "kspmToken"} \cap KubemonVolumes)
CollectorHashed == {"extCert", "collectorConfig", "tlsRef", "ingest"} \cap (CollectorVolumes \cup CollectorEnvs)
OneAgentHashed == {"oaTenant"} \cup When(NeedsPGC, {"pgcConfig"})
Hashed(w) ==
    CASE w = "activeGate"    -> ActiveGateHashed
      [] w = "kubemon"       -> KubemonHashed
      [] w = "eec"           -> {"extCert"}
      [] w = "collector"     -> CollectorHashed
      [] w = "databases"     -> {}
      [] w = "kspm"          -> {"kspmToken"}
      [] w = "logMonitoring" -> {"logConfig"}
      [] w = "oneAgent"      -> OneAgentHashed

\* without the endpoints, which change too often
LogConfigHash ==
    [From({"noProxy", "networkZone"} \cap spec.with) EXCEPT !.tenantToken = st["oaTenant"].tenantToken, !.proxy = IF With("proxy") THEN st["proxySecret"].proxy ELSE 0]
\* hashes of the tenant and KSPM tokens come from the status, the log agent's from its parts, the ActiveGate's properties from their source
HashOf(w, o) ==
    CASE o \in {"agTenant", "oaTenant", "kspmToken"} -> st[o]
      [] o = "agProperties"     -> IF NoData(Read("properties")) THEN Nothing ELSE From({"properties"})
      [] o = "attributesConfig" -> From({"attributes"})
      [] o = "logConfig"        -> LogConfigHash
      [] OTHER                  -> IF There(o) THEN ContentOf(o) ELSE Nothing

\* a secret that is hashed must be there, except those for the process groups and the kubemon operand's properties
Unreadable(w) ==
    \E o \in Hashed(w) \ {"agTenant", "oaTenant", "kspmToken", "agProperties", "kmProperties", "attributesConfig", "logConfig", "pgcConfig"} : ~There(o)

TemplateOf(w) ==
    LET hasPGC == object["pgcConfig"].there
    IN  [there |-> TRUE, volumes |-> Volumes(w, hasPGC), mounts |-> Mounts(w, hasPGC),
         hash |-> [o \in Object \cup UserSecret |-> IF o \in Hashed(w) THEN HashOf(w, o) ELSE Nothing]]

-----------------------------------------------------------------------------
NoHashes == [h \in Hash |-> Nothing]
InitialValue(properties) == [s \in Source |-> CASE s = "generation" -> 0 [] s = "properties" -> properties [] OTHER -> 1]

RolloutInit ==
    /\ spec \in Specs
    /\ \E properties \in {0, 1} : value = InitialValue(properties) /\ (properties = 0 => With("properties"))
    /\ dk = value
    /\ object = [o \in Object |-> [there |-> FALSE, content |-> Nothing]] /\ outdated = {}
    /\ st = NoHashes /\ stored = NoHashes
    /\ template = [w \in Workload |-> NoTemplate] /\ pod = [w \in Workload |-> NoPod]
    /\ position = 0
    /\ disturbances = IF spec \in Disturbed THEN 0 ELSE MaxDisturbances
    /\ quiet = 0 /\ spoiled = FALSE /\ raced = FALSE /\ lost = FALSE

\* something happens that a reconcile may have to answer
Counted == disturbances < MaxDisturbances /\ disturbances' = disturbances + 1
Disturb == Counted /\ quiet' = 0 /\ spoiled' = (position # 0)
NoFault == UNCHANGED <<disturbances, quiet, spoiled>>

StartReconcile ==
    /\ position = 0
    /\ position' \in NextStep /\ dk' = value /\ st' = stored
    /\ UNCHANGED <<spec, value, object, outdated, stored, template, pod, disturbances, quiet, spoiled, raced, lost>>

Succeeds == position' \in NextStep /\ NoFault
Fails == position' \in NextComponent /\ Disturb
\* the step succeeds, or fails after what it did
Goes == Succeeds \/ Fails

-----------------------------------------------------------------------------
(* Objects *)

Write(o, content) == object' = [object EXCEPT ![o] = [there |-> TRUE, content |-> content]]

\* Mutant: an object that is there is left alone
CreateOnly(o) == IF object[o].there THEN UNCHANGED object ELSE Write(o, Desired(o))
CreateOrUpdate(o) == Write(o, Desired(o))

\* hashes go to the status after the object was written
HashStatus(o) == IF o \in Hash THEN st' = [st EXCEPT ![o] = Desired(o)] ELSE UNCHANGED st
\* the one of the OneAgents is saved at once
SaveStatus(o) == IF o = "oaTenant" /\ st' # st THEN stored' = st' ELSE UNCHANGED stored

\* without data the ActiveGates keep the older copy, or none; the kubemon operand takes it for an error
Leaves(o) == o = "agProperties" /\ NoData(Read("properties")) /\ ~NeedsCustomNoProxy
Refuses(o) == o = "kmProperties" /\ NoData(Read("properties"))
SkipObject ==
    /\ \/ Leaves(What) /\ Goes
       \/ Refuses(What) /\ position' \in NextComponent /\ NoFault
    /\ UNCHANGED <<spec, value, dk, object, outdated, st, stored, template, pod, raced, lost>>

\* the hash of the proxy goes first
CopyObject ==
    /\ What \in Object \ Generated /\ ~Leaves(What) /\ ~Refuses(What)
    /\ \/ CreateOrUpdate(What) /\ Succeeds /\ HashStatus(What)
       \/ /\ CreateOrUpdate(What) \/ UNCHANGED object
          /\ Fails
          /\ IF What = "proxySecret" THEN HashStatus(What) ELSE UNCHANGED st
    /\ SaveStatus(What)
    /\ UNCHANGED <<spec, value, dk, outdated, template, pod, raced, lost>>

NextGeneration(o) == [Nothing EXCEPT !.generation = object[o].content.generation + 1]

\* created when it is missing, and never looked at again; only then the hash of the KSPM token is set
Generate ==
    /\ What \in Generated \ Rotated
    /\ \/ object[What].there /\ Goes /\ UNCHANGED <<object, st, lost>>
       \/ /\ ~object[What].there /\ Write(What, NextGeneration(What)) /\ Succeeds
          /\ IF What = "kspmToken" THEN st' = [st EXCEPT ![What] = NextGeneration(What)] /\ lost' = FALSE ELSE UNCHANGED <<st, lost>>
       \/ /\ ~object[What].there /\ Write(What, NextGeneration(What)) /\ Fails
          /\ lost' = (lost \/ What = "kspmToken") /\ UNCHANGED st
       \/ ~object[What].there /\ Fails /\ UNCHANGED <<object, st, lost>>
    /\ UNCHANGED <<spec, value, dk, outdated, stored, template, pod, raced>>

\* Mutant: the token of the kubemon operand is always taken for outdated
IsAlwaysOutdated(o) == o \in outdated \/ (o = "kmAuth" /\ object[o].there)
IsOutdated(o) == o \in outdated

\* an outdated token is deleted, and another one created
Rotate ==
    /\ What \in Rotated
    /\ IF object[What].there /\ ~IsOutdated(What) THEN UNCHANGED <<object, outdated>> /\ Goes
       ELSE \/ Write(What, NextGeneration(What)) /\ outdated' = outdated \ {What} /\ Goes
            \/ /\ object' \in {object, [object EXCEPT ![What].there = FALSE]} /\ outdated' = {o \in outdated : object'[o].there}
               /\ Fails
    /\ UNCHANGED <<spec, value, dk, st, stored, template, pod, raced, lost>>

-----------------------------------------------------------------------------
(* Workloads and pods *)

Deploy ==
    /\ What \in Workload
    /\ \/ ~Unreadable(What) /\ template' = [template EXCEPT ![What] = TemplateOf(What)] /\ Goes
       \/ Unreadable(What) /\ UNCHANGED template /\ position' \in NextComponent /\ NoFault
       \/ UNCHANGED template /\ Fails
    /\ UNCHANGED <<spec, value, dk, object, outdated, st, stored, pod, raced, lost>>

\* lost answers and conflicts leave the old status behind
WriteStatus ==
    /\ What = "write"
    /\ position' = 0
    /\ \/ /\ stored' = st /\ UNCHANGED disturbances /\ spoiled' = FALSE /\ UNCHANGED lost
          /\ quiet' = IF spoiled THEN 0 ELSE IF quiet < MaxQuiet THEN quiet + 1 ELSE quiet
       \/ /\ UNCHANGED stored /\ Counted /\ quiet' = 0 /\ spoiled' = FALSE
          /\ lost' = (lost \/ st["kspmToken"] # stored["kspmToken"])
    /\ UNCHANGED <<spec, value, dk, object, outdated, st, template, pod, raced>>

Crash ==
    /\ position # 0
    /\ position' = 0 /\ Counted /\ quiet' = 0 /\ spoiled' = FALSE
    /\ lost' = (lost \/ st["kspmToken"] # stored["kspmToken"])
    /\ UNCHANGED <<spec, value, dk, object, outdated, st, stored, template, pod, raced>>

Needs(w) == (template[w].volumes \cup Envs(w)) \cap (Object \cup UserSecret)
Startable(w) == template[w].there /\ \A o \in Needs(w) : There(o)
IsCurrent(w) == pod[w].there /\ pod[w].hash = template[w].hash

StartPods(w) ==
    /\ Startable(w) /\ ~IsCurrent(w)
    /\ pod' = [pod EXCEPT ![w] = [there |-> TRUE, hash |-> template[w].hash,
                                 content |-> [o \in Object \cup UserSecret |-> IF o \in Needs(w) THEN ContentOf(o) ELSE Nothing]]]
    /\ UNCHANGED <<spec, value, dk, object, outdated, st, stored, template, position, disturbances, quiet, spoiled, raced, lost>>

-----------------------------------------------------------------------------
(* Users, the tenant and time *)

\* the sources that matter for the spec
Uses(s) ==
    CASE s = "tenantToken" -> On("activeGate") \/ On("kubemon") \/ On("oneAgent") \/ On("logMonitoring")
      [] s = "pgc"         -> NeedsPGC
      [] s = "endpoints"   -> On("logMonitoring")
      [] s \in {"ingest", "protocols"} -> On("telemetry")
      [] OTHER             -> With(s)
ChangeValue(s) ==
    /\ Disturb /\ s # "generation" /\ Uses(s)
    /\ \/ value' = [value EXCEPT ![s] = @ + 1]
       \/ s = "properties" /\ ~NoData(value[s]) /\ value' = [value EXCEPT ![s] = @ + 2]
    \* between the copy of the properties and their hash
    /\ raced' = (raced \/ (s = "properties" /\ What \in {"agCert", "activeGate"}))
    /\ UNCHANGED <<spec, dk, object, outdated, st, stored, template, pod, position, lost>>

DeleteSecret(o) ==
    /\ Disturb /\ object[o].there
    /\ object' = [object EXCEPT ![o].there = FALSE] /\ outdated' = outdated \ {o}
    /\ UNCHANGED <<spec, value, dk, st, stored, template, pod, position, raced, lost>>

IntervalPasses(o) ==
    /\ Disturb /\ object[o].there /\ o \notin outdated
    /\ outdated' = outdated \cup {o}
    /\ UNCHANGED <<spec, value, dk, object, st, stored, template, pod, position, raced, lost>>

Step == SkipObject \/ CopyObject \/ Generate \/ Rotate \/ Deploy \/ WriteStatus
RolloutNext ==
    \/ StartReconcile \/ Step \/ Crash
    \/ \E w \in Workload : StartPods(w)
    \/ \E s \in Source : ChangeValue(s)
    \/ \E o \in Generated : DeleteSecret(o)
    \/ \E o \in Rotated : IntervalPasses(o)
RolloutSpec == RolloutInit /\ [][RolloutNext]_rolloutVars

-----------------------------------------------------------------------------
(* Properties *)

RolloutTypeOK ==
    /\ spec \in Specs
    /\ value \in Content /\ dk \in Content
    /\ object \in [Object -> [there : BOOLEAN, content : Content]]
    /\ outdated \subseteq Rotated
    /\ st \in [Hash -> Content] /\ stored \in [Hash -> Content]
    /\ \A w \in Workload :
          /\ template[w].there \in BOOLEAN /\ template[w].hash \in [Object \cup UserSecret -> Content]
          /\ pod[w].there \in BOOLEAN
          /\ pod[w].hash \in [Object \cup UserSecret -> Content] /\ pod[w].content \in [Object \cup UserSecret -> Content]
    /\ position \in 0..Len(Steps)
    /\ disturbances \in 0..MaxDisturbances
    /\ quiet \in 0..MaxQuiet /\ spoiled \in BOOLEAN /\ raced \in BOOLEAN /\ lost \in BOOLEAN

Settled == position = 0 /\ quiet = MaxQuiet /\ \A w \in Workload : Startable(w) => IsCurrent(w)

\* What the hashes do not see: the no-proxy list of the ActiveGates, a proxy that nobody but the log agents uses, the
\* endpoints of the log agents, properties that changed between copy and hash, a KSPM token whose hash never reached the status
Unseen(o, s) ==
    \/ o = "agProperties" /\ (s = "noProxy" \/ raced)
    \/ o = "logConfig" /\ (s = "endpoints" \/ (s = "proxy" /\ ~Wanted("proxy")))
    \/ o = "kspmToken" /\ lost
\* Emptied properties: all empty ones have one hash, and the ActiveGates may go on with the copy of older ones;
\* the kubemon operand is not rolled at all
NoProperties == With("properties") /\ NoData(value["properties"])
Outlived(w, o) == NoProperties /\ (w = "kubemon" \/ o = "agProperties")
\* and before there was a copy, or a workload, there is none
NeverStarted(w) ==
    \/ NoProperties /\ ~NeedsCustomNoProxy /\ w = "activeGate" /\ ~object["agProperties"].there
    \/ NoProperties /\ w = "kubemon" /\ ~template[w].there

Expected(o) == IF o \in Generated \cup UserSecret THEN ContentOf(o) ELSE Desired(o)

\* Two undisturbed reconciles after the last change of a value, rotation, lost secret, failure or
\* crash, every pod runs with the current values in the objects it mounts whose hashes are in its template,
\* but for those that the hashes do not see and for properties that became empty.
PodsAreCurrent ==
    Settled => \A w \in Workload : pod[w].there =>
        \A o \in Hashed(w) \cap Needs(w), s \in Source : Unseen(o, s) \/ Outlived(w, o) \/ pod[w].content[o][s] = Expected(o)[s]

\* The same point in time: each workload of the DynaKube is deployed, and all its pods mount and
\* refer to exists, though other reconcilers make it, under conditions of their own. The exception are
\* custom properties that were empty from the start.
PodsCanStart ==
    Settled => \A i \in 1..Len(Steps) :
        LET w == Made(i) IN Enabled(i) /\ w \in Workload /\ ~NeverStarted(w) => Startable(w) /\ template[w].mounts \subseteq template[w].volumes

\* Reconciles that find everything as it was do not roll anything: no template depends on when or
\* how often it is built.
RolloutsStop == [][quiet = MaxQuiet => template' = template]_rolloutVars

=============================================================================
