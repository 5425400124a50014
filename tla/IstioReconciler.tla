--------------------------- MODULE IstioReconciler ---------------------------
(***************************************************************************)
(* The ways out of an Istio mesh.  With enableIstio the operator registers *)
(* the hosts that it and the agents of a DynaKube talk to: one ServiceEntry *)
(* for addresses, one for names and a VirtualService beside it, for each   *)
(* component that talks.  The hosts of the agents come from the tenant,    *)
(* through the status, in the middle of a reconcile; a condition of the    *)
(* status says that there is something to clean up.                        *)
(***************************************************************************)
EXTENDS Naturals, FiniteSets

CONSTANTS
    Host,
    IPHost,       \* the hosts that are addresses; the others are names
    ServiceIP,    \* the address of the local ActiveGate
    Malformed,    \* an endpoint that is no URL
    Specs,        \* the specs a user may choose from
    Endpoints,    \* what the tenant may advertise
    MaxChanges,   \* bound on the changes of users and of the tenant
    MaxFaults     \* bound on failing calls, lost answers and crashes

\* gate: the feature flag that lets Kubernetes monitoring run apart from the ActiveGate
Settings == [istio : BOOLEAN, api : Host, zone : BOOLEAN, activeGate : BOOLEAN, gate : BOOLEAN, kubemon : BOOLEAN,
             oneAgent : {"none", "host", "app"}]

ASSUME SpecsAssumption == Specs \subseteq Settings
ASSUME HostAssumption == IPHost \subseteq Host /\ ServiceIP \in IPHost /\ Malformed \notin Host
ASSUME EndpointsAssumption == Endpoints \subseteq SUBSET (Host \cup {Malformed})
ASSUME BoundAssumption == MaxChanges \in Nat /\ MaxFaults \in Nat

VARIABLES
    spec,         \* of the DynaKube in the API server
    tenant,       \* the endpoints the tenant advertises, and whether it knows the network zone
    entries,      \* component -> hosts in its two ServiceEntries and its VirtualService
    workload,     \* the StatefulSet of the ActiveGate exists
    stored,       \* the status in the API server
    pc,           \* the next step of the reconcile
    dk, st,       \* the spec and the status it works on
    edited,       \* the DynaKube changed since it was read (resource version)
    unreachable,  \* the tenant asked for less requests
    quiet,        \* history: reconciles since the last disturbance, capped
    leaked,       \* history: components whose entries the status does not know of
    changes, faults

vars == <<spec, tenant, entries, workload, stored, pc, dk, st, edited, unreachable, quiet, leaked, changes, faults>>

Agent == {"oneagent", "activegate"}
Component == Agent \cup {"operator"}
Call == {"ip", "fqdn", "virtual"}
Tenant == [oneagent : Endpoints, activegate : Endpoints, zone : BOOLEAN]

\* the names in the types of the conditions that are set, removed and looked for
ConditionOf == [operator |-> "Operator", oneagent |-> "OneAgent", activegate |-> "ActiveGate"]
LookedFor == [ConditionOf EXCEPT !.operator = "operator"]
Deprecated == "CodeModule"
Name == {ConditionOf[c] : c \in Component} \cup {"operator", "oneagent", Deprecated}

Status == [conditions : [Name -> {"absent", "True", "False"}],
           oneAgent : Endpoints \cup {{}}, activeGate : Endpoints \cup {{}}, kubemon : Endpoints \cup {{}}, statefulSet : BOOLEAN]
NoStatus == [conditions |-> [n \in Name |-> "absent"], oneAgent |-> {}, activeGate |-> {}, kubemon |-> {}, statefulSet |-> FALSE]
NoEntry == [k \in Call |-> {}]

TypeOK ==
    /\ spec \in Settings /\ dk \in Settings
    /\ tenant \in Tenant
    /\ entries \in [Component -> [Call -> SUBSET Host]]
    /\ workload \in BOOLEAN
    /\ stored \in Status /\ st \in Status
    /\ pc \in {"idle", "api", "tokens", "agConnection", "agMesh", "agWorkload", "kmConnection", "kmMesh",
               "oaConnection", "oaMesh", "write"}
    /\ edited \in BOOLEAN /\ unreachable \in BOOLEAN
    /\ quiet \in 0..2 /\ leaked \subseteq Component
    /\ changes \in 0..MaxChanges /\ faults \in 0..MaxFaults

-----------------------------------------------------------------------------
(* Entries.  An entry without hosts does not exist.                         *)

IPHosts(hosts) == hosts \cap IPHost

FQDNHosts(hosts) == hosts \ IPHost

EntriesFor(hosts) == [ip |-> IPHosts(hosts), fqdn |-> FQDNHosts(hosts), virtual |-> FQDNHosts(hosts)]

\* the endpoints of a list are parsed one after the other, and one that is no URL spoils all
Parses(endpoints) == Malformed \notin endpoints

\* mutant: nothing is deleted when all hosts of an agent are of one kind
WrittenIfAny(c, hosts, how) ==
    LET waits == FQDNHosts(hosts) # {} /\ how.fqdn # "done"
    IN  [k \in Call |-> IF how[k] = "refused" \/ (k = "virtual" /\ waits) \/ (EntriesFor(hosts)[k] = {} /\ hosts # {})
                        THEN entries[c][k] ELSE EntriesFor(hosts)[k]]

(* What the calls leave, of which some are refused and some not answered.   *)
(* A VirtualService waits for its ServiceEntry; deletes wait for nothing.   *)
Written(c, hosts, how) ==
    LET waits == FQDNHosts(hosts) # {} /\ how.fqdn # "done"
    IN  [k \in Call |-> IF how[k] = "refused" \/ (k = "virtual" /\ waits)
                        THEN entries[c][k] ELSE EntriesFor(hosts)[k]]

AllDone == [k \in Call |-> "done"]

Costs(how) ==
    LET failed == Cardinality({k \in Call : how[k] # "done"})
    IN  /\ failed <= MaxFaults - faults
        /\ faults' = faults + failed
        /\ quiet' = IF failed = 0 THEN quiet ELSE 0

-----------------------------------------------------------------------------
(* The reconciler, as the three places use it.                              *)

IsKubemonEnabled(s) == s.gate /\ s.kubemon

IsNeeded(s, c) ==
    /\ s.istio
    /\ c = "oneagent" => s.oneAgent = "app"
    /\ c = "activegate" => s.activeGate \/ IsKubemonEnabled(s)

IsIstioConfigured(status, c) == status.conditions[LookedFor[c]] # "absent"

Marked(status, c, value) == [status EXCEPT !.conditions[ConditionOf[c]] = value]

\* the deprecated condition gets the name of the component, not the one of its condition
MigrateDeprecatedCondition(status) ==
    IF status.conditions[Deprecated] = "absent" THEN status
    ELSE [status EXCEPT !.conditions["oneagent"] = status.conditions[Deprecated], !.conditions[Deprecated] = "absent"]

HostsOf(c, status) ==
    CASE c = "operator" -> {dk.api}
      [] c = "oneagent" -> status.oneAgent
      [] c = "activegate" -> IF dk.activeGate THEN status.activeGate ELSE status.kubemon

\* the condition goes although a delete may have failed
CleanUp(c, status) ==
    /\ ~IsNeeded(dk, c) /\ IsIstioConfigured(status, c)
    /\ \E how \in [Call -> {"done", "refused", "unanswered"}] :
          /\ Costs(how)
          /\ entries' = [entries EXCEPT ![c] = Written(c, {}, how)]
          /\ leaked' = IF entries'[c] = NoEntry THEN leaked ELSE leaked \cup {c}
    /\ st' = Marked(status, c, "absent")

NothingToDo(c, status) ==
    /\ ~IsNeeded(dk, c) /\ ~IsIstioConfigured(status, c)
    /\ st' = status
    /\ UNCHANGED <<entries, leaked, faults, quiet>>

Configure(c, status) ==
    /\ IsNeeded(dk, c) /\ Parses(HostsOf(c, status))
    /\ entries' = [entries EXCEPT ![c] = Written(c, HostsOf(c, status), AllDone)]
    /\ st' = Marked(status, c, IF HostsOf(c, status) = {} THEN "absent" ELSE "True")
    /\ UNCHANGED <<leaked, faults, quiet>>

\* an endpoint that is no URL stops it before the first call
ConfigureFails(c, status) ==
    /\ IsNeeded(dk, c)
    /\ IF Parses(HostsOf(c, status))
       THEN \E how \in [Call -> {"done", "refused", "unanswered"}] \ {AllDone} :
                /\ Costs(how)
                /\ entries' = [entries EXCEPT ![c] = Written(c, HostsOf(c, status), how)]
       ELSE UNCHANGED <<entries, faults, quiet>>
    /\ st' = IF c = "operator" THEN status ELSE Marked(status, c, "False")
    /\ UNCHANGED leaked

Mesh(c, status, step, next, afterError) ==
    /\ pc = step
    /\ \/ (CleanUp(c, status) \/ NothingToDo(c, status) \/ Configure(c, status)) /\ pc' = next
       \/ ConfigureFails(c, status) /\ pc' = afterError
    /\ UNCHANGED <<spec, tenant, workload, stored, dk, edited, unreachable, changes>>

-----------------------------------------------------------------------------
(* The reconcile around it.                                                 *)

Begin ==
    /\ pc = "idle" /\ pc' = "api"
    /\ dk' = spec /\ st' = stored /\ edited' = FALSE /\ unreachable' = FALSE
    /\ UNCHANGED <<spec, tenant, entries, workload, stored, quiet, leaked, changes, faults>>

ReconcileAPIURL == Mesh("operator", st, "api", "tokens", "write")

Step(step, next) ==
    /\ pc = step /\ pc' = next
    /\ UNCHANGED <<spec, tenant, entries, dk, edited, leaked, changes>>

Goes(step, next) ==
    /\ Step(step, next)
    /\ UNCHANGED <<workload, stored, unreachable, quiet, faults>>

\* a call of the tenant or the API server fails; the status is not written once the tenant is too busy
Failing ==
    /\ faults < MaxFaults /\ faults' = faults + 1 /\ quiet' = 0
    /\ unreachable' \in {unreachable, TRUE}
    /\ UNCHANGED stored

Fails(step, next) ==
    /\ Step(step, next) /\ Failing
    /\ UNCHANGED <<workload, st>>

SetupTokensAndClient ==
    \/ Goes("tokens", "agConnection") /\ UNCHANGED st
    \/ Fails("tokens", "write")

\* an ActiveGate without the condition of its StatefulSet was never there
ReconcileActiveGateConnection ==
    \/ /\ dk.activeGate \/ st.statefulSet
       /\ Goes("agConnection", "agMesh")
       /\ st' = [st EXCEPT !.activeGate = IF dk.activeGate THEN tenant.activegate ELSE {}]
    \/ /\ ~dk.activeGate /\ ~st.statefulSet
       /\ Goes("agConnection", "kmConnection") /\ UNCHANGED st
    \/ dk.activeGate /\ Fails("agConnection", "kmConnection")

ReconcileActiveGate == Mesh("activegate", st, "agMesh", "agWorkload", "kmConnection")

\* a StatefulSet that is neither created nor changed leaves its condition as it is, also when that was lost
DeployActiveGate ==
    /\ dk.activeGate /\ Step("agWorkload", "kmConnection")
    /\ workload' = TRUE
    /\ \E known \in {~workload \/ st.statefulSet, TRUE} : st' = [st EXCEPT !.statefulSet = known]
    /\ UNCHANGED <<stored, unreachable, quiet, faults>>

RemoveActiveGate ==
    /\ ~dk.activeGate /\ Step("agWorkload", "kmConnection")
    /\ workload' = FALSE /\ st' = [st EXCEPT !.statefulSet = FALSE]
    /\ UNCHANGED <<stored, unreachable, quiet, faults>>

\* an error of the StatefulSet is a condition too
ActiveGateWorkloadFails ==
    /\ Step("agWorkload", "kmConnection") /\ Failing
    /\ workload' \in {workload, dk.activeGate}
    /\ \E known \in {st.statefulSet, dk.activeGate \/ st.statefulSet} : st' = [st EXCEPT !.statefulSet = known]

ReconcileActiveGateWorkload == DeployActiveGate \/ RemoveActiveGate \/ ActiveGateWorkloadFails

ReconcileKubemonConnection ==
    LET next == IF dk.activeGate THEN "oaConnection" ELSE "kmMesh"
    IN  \/ ~dk.gate /\ Goes("kmConnection", "oaConnection") /\ UNCHANGED st
        \/ /\ dk.gate /\ ~dk.kubemon
           /\ Goes("kmConnection", next) /\ st' = [st EXCEPT !.kubemon = {}]
        \/ /\ dk.gate /\ dk.kubemon /\ tenant.activegate # {}
           /\ Goes("kmConnection", next) /\ st' = [st EXCEPT !.kubemon = tenant.activegate]
        \/ /\ dk.gate /\ dk.kubemon /\ tenant.activegate = {}
           /\ Goes("kmConnection", "oaConnection") /\ UNCHANGED st
        \/ dk.gate /\ Fails("kmConnection", "oaConnection")

ReconcileKubemon == Mesh("activegate", st, "kmMesh", "oaConnection", "oaConnection")

\* an unknown network zone is no error: there are no endpoints then
ZoneUnknown(s) == s.zone /\ ~tenant.zone

Advertised(s) == IF ZoneUnknown(s) THEN {} ELSE tenant.oneagent

\* no endpoints, or not yet the local ActiveGate, which has to come first in a network zone
IsPostponed(s, status) ==
    /\ ~ZoneUnknown(s)
    /\ \/ tenant.oneagent = {}
       \/ s.zone /\ s.activeGate /\ status.statefulSet /\ ServiceIP \notin tenant.oneagent

\* new endpoints are written to the status at once, unless the rest is postponed
ReconcileOneAgentConnection ==
    \/ /\ dk.oneAgent = "none"
       /\ Goes("oaConnection", "oaMesh") /\ st' = [st EXCEPT !.oneAgent = {}]
    \/ /\ dk.oneAgent # "none" /\ IsPostponed(dk, st)
       /\ Goes("oaConnection", "write") /\ st' = [st EXCEPT !.oneAgent = Advertised(dk)]
    \/ /\ dk.oneAgent # "none" /\ ~IsPostponed(dk, st)
       /\ Step("oaConnection", "oaMesh")
       /\ st' = [st EXCEPT !.oneAgent = Advertised(dk)]
       /\ stored' = IF st' # st /\ ~edited THEN st' ELSE stored
       /\ UNCHANGED <<workload, unreachable, quiet, faults>>
    \/ dk.oneAgent # "none" /\ Fails("oaConnection", "write")

ReconcileCodeModules == Mesh("oneagent", MigrateDeprecatedCondition(st), "oaMesh", "write", "write")

\* the status does not say that there is something to clean up
Unknown(status, c) ==
    \/ status.conditions[ConditionOf[c]] = "absent"
    \/ c = "activegate" /\ ~spec.gate /\ ~status.statefulSet

Forgotten == {c \in Agent : entries[c] # NoEntry /\ Unknown(stored, c)}

Disturbed == quiet' = 0

Write ==
    /\ pc = "write" /\ pc' = "idle"
    /\ IF unreachable \/ edited
       THEN UNCHANGED stored /\ leaked' = leaked \cup Forgotten
       ELSE /\ stored' = st
            /\ leaked' = {c \in Agent : /\ entries[c] # NoEntry /\ Unknown(st, c)
                                        /\ c \in leaked \/ st.conditions[ConditionOf[c]] # "absent"}
    /\ quiet' = IF quiet = 2 THEN 2 ELSE quiet + 1
    /\ UNCHANGED <<spec, tenant, entries, workload, dk, st, edited, unreachable, changes, faults>>

-----------------------------------------------------------------------------
(* Users, the tenant, and the operator's process.                           *)

EditSpec ==
    /\ changes < MaxChanges /\ changes' = changes + 1
    /\ spec' \in {s \in Specs : s.gate = spec.gate} \ {spec}
    /\ edited' = TRUE /\ Disturbed
    /\ UNCHANGED <<tenant, entries, workload, stored, pc, dk, st, unreachable, leaked, faults>>

TenantChanges ==
    /\ changes < MaxChanges /\ changes' = changes + 1
    /\ \/ \E e \in Endpoints \ {tenant.oneagent} : tenant' = [tenant EXCEPT !.oneagent = e]
       \/ \E e \in Endpoints \ {tenant.activegate} : tenant' = [tenant EXCEPT !.activegate = e]
       \/ tenant' = [tenant EXCEPT !.zone = ~tenant.zone]
    /\ Disturbed
    /\ UNCHANGED <<spec, entries, workload, stored, pc, dk, st, edited, unreachable, leaked, faults>>

Crash ==
    /\ pc # "idle" /\ pc' = "idle"
    /\ faults < MaxFaults /\ faults' = faults + 1 /\ Disturbed
    /\ leaked' = leaked \cup Forgotten
    /\ UNCHANGED <<spec, tenant, entries, workload, stored, dk, st, edited, unreachable, changes>>

-----------------------------------------------------------------------------

\* an empty cluster, or the one an older operator left
Init ==
    /\ spec \in Specs /\ dk = spec
    /\ tenant \in Tenant
    /\ \/ stored = NoStatus /\ entries = [c \in Component |-> NoEntry] /\ leaked = {}
       \/ /\ stored = [NoStatus EXCEPT !.conditions[Deprecated] = "True", !.oneAgent = tenant.oneagent]
          /\ tenant.oneagent # {} /\ Parses(tenant.oneagent)
          /\ entries = [c \in Component |-> IF c = "oneagent" THEN EntriesFor(tenant.oneagent) ELSE NoEntry]
          /\ leaked = {"oneagent"}
    /\ workload = FALSE /\ st = stored /\ pc = "idle"
    /\ edited = FALSE /\ unreachable = FALSE
    /\ quiet = 0 /\ changes = 0 /\ faults = 0

Next ==
    \/ Begin \/ ReconcileAPIURL \/ SetupTokensAndClient
    \/ ReconcileActiveGateConnection \/ ReconcileActiveGate \/ ReconcileActiveGateWorkload
    \/ ReconcileKubemonConnection \/ ReconcileKubemon
    \/ ReconcileOneAgentConnection \/ ReconcileCodeModules \/ Write
    \/ EditSpec \/ TenantChanges \/ Crash

Spec == Init /\ [][Next]_vars

-----------------------------------------------------------------------------

Settled == pc = "idle" /\ quiet = 2

ExpectedHosts(c) == IF c = "oneagent" THEN Advertised(spec) ELSE tenant.activegate

\* without endpoints the reconcile ends before the entries
Postponed(c) ==
    IF c = "oneagent" THEN spec.oneAgent # "none" /\ IsPostponed(spec, stored)
    ELSE ~spec.activeGate /\ spec.kubemon /\ tenant.activegate = {}

(* After two reconciles without a disturbance the entries are those of   *)
(* the hosts the tenant now advertises and of the API URL now in the spec,  *)
(* and a component that no longer talks has none: also when calls failed,   *)
(* answers were lost, hosts moved between names and addresses, the spec     *)
(* changed in mid-reconcile, or the AG gave way to Kubernetes monitoring.   *)
(* Left behind are the entries the status had forgotten (leaked), those of  *)
(* the ActiveGate also while its StatefulSet has lost its condition, and    *)
(* those of the API URL, whose condition is looked for under another name.  *)
EntriesAgree ==
    Settled =>
        /\ spec.istio => entries["operator"] = EntriesFor({spec.api})
        /\ \A c \in Agent :
              /\ IsNeeded(spec, c) /\ Parses(ExpectedHosts(c)) /\ ~Postponed(c) => entries[c] = EntriesFor(ExpectedHosts(c))
              /\ ~IsNeeded(spec, c) /\ c \notin leaked /\ ~Postponed(c) => entries[c] = NoEntry
=============================================================================
