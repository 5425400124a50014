----------------------- MODULE IstioReconciler_proofs -----------------------
(***************************************************************************)
(* Proofs about the ways out of a mesh, for any hosts, any specs and any   *)
(* endpoints, and any number of changes and failures.                      *)
(***************************************************************************)
EXTENDS IstioReconciler, FiniteSetTheorems, TLAPS

-----------------------------------------------------------------------------
(***************************************************************************)
(* Conditions, entries and calls.                                          *)
(***************************************************************************)

Outcome == {"done", "refused", "unanswered"}

Absent(status, c) == status.conditions[ConditionOf[c]] = "absent"

LEMMA NameFacts ==
    /\ Name = {"Operator", "OneAgent", "ActiveGate", "operator", "oneagent", "CodeModule"}
    /\ ConditionOf["operator"] = "Operator"
    /\ ConditionOf["oneagent"] = "OneAgent"
    /\ ConditionOf["activegate"] = "ActiveGate"
    /\ LookedFor["operator"] = "operator"
    /\ LookedFor["oneagent"] = "OneAgent"
    /\ LookedFor["activegate"] = "ActiveGate"
BY DEF Name, ConditionOf, LookedFor, Component, Agent, Deprecated

\* of the conditions of the components, only the one of c differs
SameBut(c, old, new) ==
    /\ \A d \in Component \ {c} : new.conditions[ConditionOf[d]] = old.conditions[ConditionOf[d]]
    /\ new.oneAgent = old.oneAgent
    /\ new.activeGate = old.activeGate
    /\ new.kubemon = old.kubemon
    /\ new.statefulSet = old.statefulSet

LEMMA MarkedFacts ==
    ASSUME NEW status \in Status, NEW c \in Component, NEW value \in {"absent", "True", "False"}
    PROVE  /\ Marked(status, c, value) \in Status
           /\ Marked(status, c, value).conditions[ConditionOf[c]] = value
           /\ SameBut(c, status, Marked(status, c, value))
<1>1. ConditionOf[c] \in Name /\ \A d \in Component \ {c} : ConditionOf[d] \in Name /\ ConditionOf[d] # ConditionOf[c]
  BY NameFacts DEF Component, Agent
<1> QED
  BY <1>1 DEF Marked, Status, SameBut

LEMMA MigrateFacts ==
    ASSUME NEW status \in Status
    PROVE  /\ MigrateDeprecatedCondition(status) \in Status
           /\ SameBut("operator", status, MigrateDeprecatedCondition(status))
<1> DEFINE value == status.conditions[Deprecated]
           first == [status EXCEPT !.conditions["oneagent"] = value]
           second == [first EXCEPT !.conditions[Deprecated] = "absent"]
<1>1. /\ Deprecated \in Name /\ "oneagent" \in Name
      /\ \A d \in Component \ {"operator"} : ConditionOf[d] \notin {Deprecated, "oneagent"}
  BY NameFacts DEF Deprecated, Agent, Component
<1>2. value \in {"absent", "True", "False"}
  BY <1>1 DEF Status
<1>3. first \in Status /\ SameBut("operator", status, first)
  <2> HIDE DEF value
  <2> QED
    BY <1>1, <1>2 DEF Status, SameBut
<1>4. second \in Status /\ SameBut("operator", first, second)
  <2> HIDE DEF first
  <2> QED
    BY <1>1, <1>3 DEF Status, SameBut
<1>5. MigrateDeprecatedCondition(status) = IF value = "absent" THEN status ELSE second
  BY DEF MigrateDeprecatedCondition
<1> HIDE DEF value, first, second
<1>6. SameBut("operator", status, second) /\ SameBut("operator", status, status)
  BY <1>3, <1>4 DEF SameBut
<1> QED
  BY <1>4, <1>5, <1>6

LEMMA EntriesForFacts ==
    /\ \A hosts \in SUBSET Host : EntriesFor(hosts) \in [Call -> SUBSET Host]
    /\ EntriesFor({}) = NoEntry
    /\ NoEntry \in [Call -> SUBSET Host]
BY HostAssumption DEF EntriesFor, IPHosts, FQDNHosts, NoEntry, Call

LEMMA WrittenFacts ==
    ASSUME TypeOK, NEW c \in Component, NEW hosts \in SUBSET Host
    PROVE  /\ \A how \in [Call -> Outcome] : Written(c, hosts, how) \in [Call -> SUBSET Host]
           /\ Written(c, hosts, AllDone) = EntriesFor(hosts)
<1>1. entries[c] \in [Call -> SUBSET Host]
  BY DEF TypeOK
<1>2. EntriesFor(hosts) \in [Call -> SUBSET Host]
  BY EntriesForFacts
<1>3. \A how \in [Call -> Outcome] : Written(c, hosts, how) \in [Call -> SUBSET Host]
  BY <1>1, <1>2 DEF Written
<1>4. Written(c, hosts, AllDone) = [k \in Call |-> EntriesFor(hosts)[k]]
  BY DEF Written, AllDone, Call
<1> QED
  BY <1>2, <1>3, <1>4

\* calls that all succeed cost nothing, others end the quiet
LEMMA CostsFacts ==
    ASSUME TypeOK, NEW how \in [Call -> Outcome], Costs(how)
    PROVE  /\ faults' \in 0..MaxFaults /\ quiet' \in {quiet, 0}
           /\ quiet' # 0 => how = AllDone /\ quiet' = quiet
<1> DEFINE bad == {k \in Call : how[k] # "done"}
           failed == Cardinality(bad)
<1>1. IsFiniteSet(Call)
  <2>1. Call = {"ip"} \cup {"fqdn"} \cup {"virtual"}
    BY DEF Call
  <2> QED
    BY <2>1, FS_Singleton, FS_Union
<1>2. IsFiniteSet(bad)
  BY <1>1, FS_Subset
<1>3. failed \in Nat /\ (failed = 0 => bad = {})
  BY <1>2, FS_CardinalityType, FS_EmptySet
<1>4. bad = {} => how = AllDone
  BY DEF AllDone, Outcome
<1>5. failed <= MaxFaults - faults /\ faults' = faults + failed /\ quiet' = IF failed = 0 THEN quiet ELSE 0
  BY DEF Costs
<1> HIDE DEF bad, failed
<1>6. faults \in 0..MaxFaults /\ quiet \in 0..2
  BY DEF TypeOK
<1> QED
  BY <1>3, <1>4, <1>5, <1>6, BoundAssumption

\* the hosts that are registered
LEMMA HostsOfFacts ==
    ASSUME TypeOK, NEW c \in Component, NEW status \in Status
    PROVE  Parses(HostsOf(c, status)) => HostsOf(c, status) \in SUBSET Host
<1>1. HostsOf(c, status) \in Endpoints \cup {{}} \/ HostsOf(c, status) = {dk.api}
  BY DEF HostsOf, Status, Component, Agent
<1>2. dk.api \in Host
  BY DEF TypeOK, Settings
<1>3. \A e \in Endpoints \cup {{}} : Malformed \notin e => e \in SUBSET Host
  BY EndpointsAssumption
<1> QED
  BY <1>1, <1>2, <1>3 DEF Parses

-----------------------------------------------------------------------------
(***************************************************************************)
(* The four outcomes of the reconciler of entries.  What they have in      *)
(* common: only the entries, the condition and the history of one          *)
(* component change.                                                       *)
(***************************************************************************)
StatusOf(c, status) == st' \in Status /\ SameBut(c, status, st')

OnlyOf(c, status) ==
    /\ entries' \in [Component -> [Call -> SUBSET Host]]
    /\ \A d \in Component \ {c} : entries'[d] = entries[d]
    /\ leaked \subseteq leaked' /\ leaked' \subseteq leaked \cup {c}
    /\ faults' \in 0..MaxFaults /\ quiet' \in {quiet, 0}
    /\ StatusOf(c, status)

\* entries without a condition are among the ones that were forgotten
Accounted(c, status) == entries[c] # NoEntry /\ Absent(status, c) => c \in leaked

LEMMA EntriesOf ==
    ASSUME TypeOK, NEW c \in Component, NEW value \in [Call -> SUBSET Host], entries' = [entries EXCEPT ![c] = value]
    PROVE  /\ entries' \in [Component -> [Call -> SUBSET Host]]
           /\ entries'[c] = value
           /\ \A d \in Component \ {c} : entries'[d] = entries[d]
BY DEF TypeOK

LEMMA CleanUpFacts ==
    ASSUME TypeOK, NEW c \in Component, NEW status \in Status, CleanUp(c, status)
    PROVE  /\ OnlyOf(c, status)
           /\ ~IsNeeded(dk, c)
           /\ Absent(st', c)
           /\ entries'[c] = NoEntry \/ c \in leaked'
           /\ quiet' # 0 => entries'[c] = NoEntry
<1>1. PICK how \in [Call -> Outcome] :
          /\ Costs(how)
          /\ entries' = [entries EXCEPT ![c] = Written(c, {}, how)]
          /\ leaked' = IF entries'[c] = NoEntry THEN leaked ELSE leaked \cup {c}
  BY DEF CleanUp, Outcome
<1>2. ~IsNeeded(dk, c) /\ st' = Marked(status, c, "absent")
  BY DEF CleanUp
<1>3. faults' \in 0..MaxFaults /\ quiet' \in {quiet, 0} /\ (quiet' # 0 => how = AllDone)
  BY <1>1, CostsFacts
<1>4. Written(c, {}, how) \in [Call -> SUBSET Host] /\ Written(c, {}, AllDone) = NoEntry
  BY WrittenFacts, EntriesForFacts
<1>5. /\ entries' \in [Component -> [Call -> SUBSET Host]]
      /\ entries'[c] = Written(c, {}, how)
      /\ \A d \in Component \ {c} : entries'[d] = entries[d]
  BY <1>1, <1>4, EntriesOf
<1>6. StatusOf(c, status) /\ Absent(st', c)
  BY <1>2, MarkedFacts DEF Absent, StatusOf
<1>7. /\ leaked \subseteq leaked' /\ leaked' \subseteq leaked \cup {c}
      /\ entries'[c] = NoEntry \/ c \in leaked'
  BY <1>1
<1>8. quiet' # 0 => entries'[c] = NoEntry
  BY <1>3, <1>4, <1>5
<1> QED
  BY <1>2, <1>3, <1>5, <1>6, <1>7, <1>8 DEF OnlyOf

LEMMA NothingToDoFacts ==
    ASSUME TypeOK, NEW c \in Component, NEW status \in Status, NothingToDo(c, status)
    PROVE  /\ OnlyOf(c, status)
           /\ ~IsNeeded(dk, c)
           /\ c \in Agent => Absent(st', c)
           /\ entries' = entries /\ leaked' = leaked /\ st' = status
<1>1. ~IsIstioConfigured(status, c) /\ ~IsNeeded(dk, c) /\ st' = status
  BY DEF NothingToDo
<1>2. c \in Agent => Absent(status, c)
  BY <1>1, NameFacts DEF IsIstioConfigured, Absent, Agent
<1> QED
  BY <1>1, <1>2 DEF NothingToDo, OnlyOf, StatusOf, SameBut, TypeOK

LEMMA ConfigureFacts ==
    ASSUME TypeOK, NEW c \in Component, NEW status \in Status, Configure(c, status)
    PROVE  /\ OnlyOf(c, status)
           /\ IsNeeded(dk, c)
           /\ entries'[c] = EntriesFor(HostsOf(c, status))
           /\ Absent(st', c) => entries'[c] = NoEntry
<1> DEFINE hosts == HostsOf(c, status)
<1>1. /\ IsNeeded(dk, c) /\ Parses(hosts)
      /\ entries' = [entries EXCEPT ![c] = Written(c, hosts, AllDone)]
      /\ st' = Marked(status, c, IF hosts = {} THEN "absent" ELSE "True")
      /\ UNCHANGED <<leaked, faults, quiet>>
  BY DEF Configure
<1>2. hosts \in SUBSET Host
  BY <1>1, HostsOfFacts
<1> HIDE DEF hosts
<1>3. Written(c, hosts, AllDone) = EntriesFor(hosts) /\ EntriesFor(hosts) \in [Call -> SUBSET Host]
  BY <1>2, WrittenFacts, EntriesForFacts
<1>4. /\ entries' \in [Component -> [Call -> SUBSET Host]]
      /\ entries'[c] = EntriesFor(hosts)
      /\ \A d \in Component \ {c} : entries'[d] = entries[d]
  BY <1>1, <1>3, EntriesOf
<1>5. /\ StatusOf(c, status)
      /\ Absent(st', c) => hosts = {}
  <2>1. CASE hosts = {}
    BY <1>1, <2>1, MarkedFacts DEF StatusOf, Absent
  <2>2. CASE hosts # {}
    BY <1>1, <2>2, MarkedFacts DEF StatusOf, Absent
  <2> QED
    BY <2>1, <2>2
<1>6. faults' \in 0..MaxFaults /\ quiet' = quiet /\ leaked' = leaked
  BY <1>1 DEF TypeOK
<1>7. OnlyOf(c, status)
  BY <1>4, <1>5, <1>6 DEF OnlyOf
<1>8. Absent(st', c) => entries'[c] = NoEntry
  BY <1>4, <1>5, EntriesForFacts
<1> QED
  BY <1>1, <1>4, <1>7, <1>8 DEF hosts

LEMMA ConfigureFailsFacts ==
    ASSUME TypeOK, NEW c \in Component, NEW status \in Status, ConfigureFails(c, status)
    PROVE  /\ OnlyOf(c, status)
           /\ IsNeeded(dk, c)
           /\ c \in Agent => ~Absent(st', c)
           /\ quiet' # 0 => ~Parses(HostsOf(c, status))
<1> DEFINE hosts == HostsOf(c, status)
<1>1. /\ IsNeeded(dk, c) /\ UNCHANGED leaked
      /\ IF Parses(hosts)
         THEN \E how \in [Call -> Outcome] \ {AllDone} :
                  Costs(how) /\ entries' = [entries EXCEPT ![c] = Written(c, hosts, how)]
         ELSE UNCHANGED <<entries, faults, quiet>>
      /\ st' = IF c = "operator" THEN status ELSE Marked(status, c, "False")
  BY DEF ConfigureFails, Outcome
<1>2. Parses(hosts) => hosts \in SUBSET Host
  BY HostsOfFacts
<1>3. /\ StatusOf(c, status)
      /\ c \in Agent => ~Absent(st', c)
  <2>1. CASE c = "operator"
    BY <1>1, <2>1 DEF Agent, StatusOf, SameBut
  <2>2. CASE c # "operator"
    BY <1>1, <2>2, MarkedFacts DEF StatusOf, Absent
  <2> QED
    BY <2>1, <2>2
<1> HIDE DEF hosts
<1>4. /\ entries' \in [Component -> [Call -> SUBSET Host]]
      /\ \A d \in Component \ {c} : entries'[d] = entries[d]
      /\ faults' \in 0..MaxFaults /\ quiet' \in {quiet, 0}
      /\ quiet' # 0 => ~Parses(hosts)
  <2>1. CASE Parses(hosts)
    <3>1. PICK how \in [Call -> Outcome] \ {AllDone} :
              Costs(how) /\ entries' = [entries EXCEPT ![c] = Written(c, hosts, how)]
      BY <1>1, <2>1
    <3>2. Written(c, hosts, how) \in [Call -> SUBSET Host]
      BY <1>2, <2>1, WrittenFacts
    <3> QED
      BY <3>1, <3>2, CostsFacts, EntriesOf
  <2>2. CASE ~Parses(hosts)
    BY <1>1, <2>2 DEF TypeOK
  <2> QED
    BY <2>1, <2>2
<1> QED
  BY <1>1, <1>3, <1>4 DEF OnlyOf, hosts

(***************************************************************************)
(* All of them: entries stay accounted for, and without a disturbance they *)
(* become the ones of the hosts, or go.                                    *)
(***************************************************************************)
LEMMA MeshFacts ==
    ASSUME TypeOK, NEW c \in Component, NEW status \in Status, NEW step, NEW next, NEW afterError,
           Mesh(c, status, step, next, afterError)
    PROVE  /\ UNCHANGED <<spec, tenant, workload, stored, dk, edited, unreachable, changes>>
           /\ pc = step /\ pc' \in {next, afterError}
           /\ OnlyOf(c, status)
           /\ c \in Agent /\ Accounted(c, status) => Accounted(c, st)'
           /\ quiet' # 0 /\ IsNeeded(dk, c) /\ Parses(HostsOf(c, status)) => entries'[c] = EntriesFor(HostsOf(c, status))
           /\ quiet' # 0 /\ ~IsNeeded(dk, c) /\ c \in Agent /\ Accounted(c, status) =>
                 entries'[c] = NoEntry \/ (c \in leaked' /\ Absent(st', c))
           /\ quiet' # 0 /\ pc' # next => IsNeeded(dk, c) /\ ~Parses(HostsOf(c, status))
<1>1. /\ UNCHANGED <<spec, tenant, workload, stored, dk, edited, unreachable, changes>>
      /\ pc = step /\ pc' \in {next, afterError}
  BY DEF Mesh
<1>2. CASE CleanUp(c, status) /\ pc' = next
  BY <1>1, <1>2, CleanUpFacts DEF Accounted
<1>3. CASE NothingToDo(c, status) /\ pc' = next
  BY <1>1, <1>3, NothingToDoFacts DEF Accounted
<1>4. CASE Configure(c, status) /\ pc' = next
  BY <1>1, <1>4, ConfigureFacts DEF Accounted
<1>5. CASE ConfigureFails(c, status)
  BY <1>1, <1>5, ConfigureFailsFacts DEF Accounted
<1> QED
  BY <1>2, <1>3, <1>4, <1>5 DEF Mesh

-----------------------------------------------------------------------------
(***************************************************************************)
(* Types.                                                                  *)
(***************************************************************************)

LEMMA MeshType ==
    ASSUME TypeOK, NEW c \in Component, NEW status \in Status,
           NEW step, NEW next \in {"tokens", "agWorkload", "oaConnection", "write"},
           NEW afterError \in {"write", "kmConnection", "oaConnection"},
           Mesh(c, status, step, next, afterError)
    PROVE  TypeOK'
<1>1. /\ UNCHANGED <<spec, tenant, workload, stored, dk, edited, unreachable, changes>>
      /\ pc' \in {next, afterError} /\ OnlyOf(c, status)
  BY MeshFacts
<1>2. leaked' \subseteq Component
  BY <1>1 DEF OnlyOf, TypeOK
<1> QED
  BY <1>1, <1>2 DEF OnlyOf, StatusOf, TypeOK

\* the endpoints a status may have taken over
LEMMA EndpointFacts ==
    ASSUME TypeOK
    PROVE  /\ tenant.oneagent \in Endpoints \cup {{}} /\ tenant.activegate \in Endpoints \cup {{}}
           /\ Advertised(dk) \in Endpoints \cup {{}}
           /\ {} \in Endpoints \cup {{}}
           /\ dk.activeGate \in BOOLEAN
BY DEF TypeOK, Tenant, Settings, Advertised

LEMMA StatusType ==
    ASSUME TypeOK
    PROVE  /\ \A e \in Endpoints \cup {{}} :
                 /\ [st EXCEPT !.oneAgent = e] \in Status
                 /\ [st EXCEPT !.activeGate = e] \in Status
                 /\ [st EXCEPT !.kubemon = e] \in Status
           /\ \A b \in BOOLEAN : [st EXCEPT !.statefulSet = b] \in Status
<1> st \in Status
  BY DEF TypeOK
<1> QED
  BY DEF Status

LEMMA StepType ==
    ASSUME TypeOK, NEW step, NEW next \in {"agConnection", "agMesh", "agWorkload", "kmConnection", "kmMesh",
                                           "oaConnection", "oaMesh", "write"}
    PROVE  /\ Goes(step, next) /\ st' \in Status => TypeOK'
           /\ Fails(step, next) => TypeOK'
           /\ Step(step, next) /\ Failing /\ workload' \in BOOLEAN /\ st' \in Status => TypeOK'
<1>1. ASSUME Goes(step, next), st' \in Status PROVE TypeOK'
  BY <1>1 DEF Goes, Step, TypeOK
<1>2. ASSUME Step(step, next), Failing, workload' \in BOOLEAN, st' \in Status PROVE TypeOK'
  <2>1. faults' \in 0..MaxFaults /\ quiet' \in 0..2
    BY <1>2, BoundAssumption DEF Failing, TypeOK
  <2>2. unreachable' \in BOOLEAN
    BY <1>2 DEF Failing, TypeOK
  <2>3. /\ UNCHANGED <<spec, tenant, entries, dk, edited, leaked, changes, stored>>
        /\ pc' = next
    BY <1>2 DEF Failing, Step
  <2> QED
    BY <1>2, <2>1, <2>2, <2>3 DEF TypeOK
<1>3. ASSUME Fails(step, next) PROVE TypeOK'
  BY <1>2, <1>3 DEF Fails, TypeOK
<1> QED
  BY <1>1, <1>2, <1>3

LEMMA InitType == Init => TypeOK
<1> SUFFICES ASSUME Init PROVE TypeOK
  OBVIOUS
<1>1. spec \in Settings /\ dk \in Settings /\ tenant \in Tenant
  BY SpecsAssumption DEF Init
<1>2. NoStatus \in Status
  BY DEF NoStatus, Status
<1>3. stored \in Status /\ entries \in [Component -> [Call -> SUBSET Host]] /\ leaked \subseteq Component
  <2>1. CASE stored = NoStatus /\ entries = [c \in Component |-> NoEntry] /\ leaked = {}
    BY <1>2, <2>1, EntriesForFacts
  <2>2. CASE /\ stored = [NoStatus EXCEPT !.conditions[Deprecated] = "True", !.oneAgent = tenant.oneagent]
             /\ Parses(tenant.oneagent)
             /\ entries = [c \in Component |-> IF c = "oneagent" THEN EntriesFor(tenant.oneagent) ELSE NoEntry]
             /\ leaked = {"oneagent"}
    <3>1. tenant.oneagent \in Endpoints
      BY <1>1 DEF Tenant
    <3>2. tenant.oneagent \in SUBSET Host
      BY <2>2, <3>1, EndpointsAssumption DEF Parses
    <3>3. stored \in Status
      <4>1. [NoStatus EXCEPT !.conditions[Deprecated] = "True"] \in Status
        BY <1>2, NameFacts DEF Status, Deprecated
      <4> DEFINE first == [NoStatus EXCEPT !.conditions[Deprecated] = "True"]
      <4>2. stored = [first EXCEPT !.oneAgent = tenant.oneagent]
        BY <2>2
      <4> HIDE DEF first
      <4>3. first \in Status
        BY <4>1 DEF first
      <4> QED
        BY <3>1, <4>2, <4>3 DEF Status
    <3>4. entries \in [Component -> [Call -> SUBSET Host]]
      <4>1. EntriesFor(tenant.oneagent) \in [Call -> SUBSET Host] /\ NoEntry \in [Call -> SUBSET Host]
        BY <3>2, EntriesForFacts
      <4> QED
        BY <2>2, <4>1
    <3> QED
      BY <2>2, <3>3, <3>4 DEF Component, Agent
  <2>3. \/ stored = NoStatus /\ entries = [c \in Component |-> NoEntry] /\ leaked = {}
        \/ /\ stored = [NoStatus EXCEPT !.conditions[Deprecated] = "True", !.oneAgent = tenant.oneagent]
           /\ Parses(tenant.oneagent)
           /\ entries = [c \in Component |-> IF c = "oneagent" THEN EntriesFor(tenant.oneagent) ELSE NoEntry]
           /\ leaked = {"oneagent"}
    BY DEF Init
  <2> QED
    BY <2>1, <2>2, <2>3
<1> QED
  <2>1. 0 \in 0..2 /\ 0 \in 0..MaxChanges /\ 0 \in 0..MaxFaults
    BY BoundAssumption
  <2>2. /\ st = stored /\ workload = FALSE /\ pc = "idle" /\ edited = FALSE /\ unreachable = FALSE
        /\ quiet = 0 /\ changes = 0 /\ faults = 0
    BY DEF Init
  <2> QED
    BY <1>1, <1>3, <2>1, <2>2 DEF TypeOK

LEMMA ReconcileType ==
    ASSUME TypeOK
    PROVE  /\ Begin => TypeOK'
           /\ ReconcileAPIURL => TypeOK'
           /\ SetupTokensAndClient => TypeOK'
           /\ ReconcileActiveGateConnection => TypeOK'
           /\ ReconcileActiveGate => TypeOK'
           /\ ReconcileActiveGateWorkload => TypeOK'
           /\ ReconcileKubemonConnection => TypeOK'
           /\ ReconcileKubemon => TypeOK'
           /\ ReconcileOneAgentConnection => TypeOK'
           /\ ReconcileCodeModules => TypeOK'
           /\ Write => TypeOK'
<1>0. st \in Status /\ Component = {"operator", "oneagent", "activegate"}
  BY DEF TypeOK, Component, Agent
<1>1. Begin => TypeOK'
  BY DEF Begin, TypeOK
<1>2. ReconcileAPIURL => TypeOK'
  BY <1>0, MeshType DEF ReconcileAPIURL
<1>3. SetupTokensAndClient => TypeOK'
  BY <1>0, StepType DEF SetupTokensAndClient
<1>4. ASSUME ReconcileActiveGateConnection PROVE TypeOK'
  <2>1. CASE Goes("agConnection", "agMesh") /\ st' = [st EXCEPT !.activeGate = IF dk.activeGate THEN tenant.activegate ELSE {}]
    <3>1. st' \in Status
      BY <2>1, EndpointFacts, StatusType
    <3> QED
      BY <2>1, <3>1, StepType
  <2>2. CASE Goes("agConnection", "kmConnection") /\ UNCHANGED st
    BY <1>0, <2>2, StepType
  <2>3. CASE Fails("agConnection", "kmConnection")
    BY <2>3, StepType
  <2> QED
    BY <1>4, <2>1, <2>2, <2>3 DEF ReconcileActiveGateConnection
<1>5. ReconcileActiveGate => TypeOK'
  BY <1>0, MeshType DEF ReconcileActiveGate
<1>6. ASSUME ReconcileActiveGateWorkload PROVE TypeOK'
  <2>1. /\ \A b \in BOOLEAN : [st EXCEPT !.statefulSet = b] \in Status
        /\ st.statefulSet \in BOOLEAN /\ dk.activeGate \in BOOLEAN
    BY <1>0, EndpointFacts, StatusType DEF Status
  <2>2. CASE DeployActiveGate \/ RemoveActiveGate
    <3>1. /\ Step("agWorkload", "kmConnection") /\ UNCHANGED <<stored, unreachable, quiet, faults>>
          /\ workload' \in BOOLEAN /\ st' \in Status
      BY <2>1, <2>2 DEF DeployActiveGate, RemoveActiveGate
    <3> QED
      BY <3>1 DEF Step, TypeOK
  <2>3. CASE ActiveGateWorkloadFails
    <3>1. /\ Step("agWorkload", "kmConnection") /\ Failing
          /\ workload' \in BOOLEAN /\ st' \in Status
      BY <2>1, <2>3 DEF ActiveGateWorkloadFails, TypeOK
    <3> QED
      BY <3>1, StepType
  <2> QED
    BY <1>6, <2>2, <2>3 DEF ReconcileActiveGateWorkload
<1>7. ASSUME ReconcileKubemonConnection PROVE TypeOK'
  <2>1. [st EXCEPT !.kubemon = {}] \in Status /\ [st EXCEPT !.kubemon = tenant.activegate] \in Status
    BY EndpointFacts, StatusType
  <2> DEFINE next == IF dk.activeGate THEN "oaConnection" ELSE "kmMesh"
  <2>2. next \in {"oaConnection", "kmMesh"}
    OBVIOUS
  <2>3. (Goes("kmConnection", "oaConnection") \/ Goes("kmConnection", next)) /\ st' \in Status => TypeOK'
    <3> HIDE DEF next
    <3> QED
      BY <2>2, StepType
  <2>4. Fails("kmConnection", "oaConnection") => TypeOK'
    BY StepType
  <2> QED
    BY <1>0, <1>7, <2>1, <2>3, <2>4 DEF ReconcileKubemonConnection
<1>8. ReconcileKubemon => TypeOK'
  BY <1>0, MeshType DEF ReconcileKubemon
<1>9. ASSUME ReconcileOneAgentConnection PROVE TypeOK'
  <2>1. [st EXCEPT !.oneAgent = {}] \in Status /\ [st EXCEPT !.oneAgent = Advertised(dk)] \in Status
    BY EndpointFacts, StatusType
  <2>2. CASE Goes("oaConnection", "oaMesh") /\ st' = [st EXCEPT !.oneAgent = {}]
    BY <2>1, <2>2, StepType
  <2>3. CASE Goes("oaConnection", "write") /\ st' = [st EXCEPT !.oneAgent = Advertised(dk)]
    BY <2>1, <2>3, StepType
  <2>4. CASE Fails("oaConnection", "write")
    BY <2>4, StepType
  <2>5. CASE /\ Step("oaConnection", "oaMesh")
             /\ st' = [st EXCEPT !.oneAgent = Advertised(dk)]
             /\ stored' = IF st' # st /\ ~edited THEN st' ELSE stored
             /\ UNCHANGED <<workload, unreachable, quiet, faults>>
    <3>1. st' \in Status /\ stored' \in {st', stored}
      BY <2>1, <2>5
    <3> QED
      BY <2>5, <3>1 DEF Step, TypeOK
  <2> QED
    BY <1>9, <2>2, <2>3, <2>4, <2>5 DEF ReconcileOneAgentConnection
<1>10. ReconcileCodeModules => TypeOK'
  BY <1>0, MigrateFacts, MeshType DEF ReconcileCodeModules
<1>11. ASSUME Write PROVE TypeOK'
  <2>1. stored' \in {st, stored} /\ leaked' \subseteq Component /\ quiet' \in 0..2
    BY <1>11 DEF Write, Forgotten, Component, TypeOK
  <2>2. pc' = "idle" /\ UNCHANGED <<spec, tenant, entries, workload, dk, st, edited, unreachable, changes, faults>>
    BY <1>11 DEF Write
  <2> QED
    BY <2>1, <2>2 DEF TypeOK
<1> QED
  BY <1>1, <1>2, <1>3, <1>4, <1>5, <1>6, <1>7, <1>8, <1>9, <1>10, <1>11

LEMMA DisturbanceType ==
    ASSUME TypeOK
    PROVE  /\ EditSpec => TypeOK'
           /\ TenantChanges => TypeOK'
           /\ Crash => TypeOK'
<1>1. ASSUME EditSpec PROVE TypeOK'
  <2>1. changes' \in 0..MaxChanges /\ spec' \in Settings /\ quiet' = 0 /\ edited' = TRUE
    BY <1>1, BoundAssumption, SpecsAssumption DEF EditSpec, Disturbed, TypeOK
  <2>2. UNCHANGED <<tenant, entries, workload, stored, pc, dk, st, unreachable, leaked, faults>>
    BY <1>1 DEF EditSpec
  <2> QED
    BY <2>1, <2>2 DEF TypeOK
<1>2. ASSUME TenantChanges PROVE TypeOK'
  <2>1. changes' \in 0..MaxChanges /\ quiet' = 0
    BY <1>2, BoundAssumption DEF TenantChanges, Disturbed, TypeOK
  <2>2. tenant' \in Tenant
    BY <1>2 DEF TenantChanges, TypeOK, Tenant
  <2>3. UNCHANGED <<spec, entries, workload, stored, pc, dk, st, edited, unreachable, leaked, faults>>
    BY <1>2 DEF TenantChanges
  <2> QED
    BY <2>1, <2>2, <2>3 DEF TypeOK
<1>3. ASSUME Crash PROVE TypeOK'
  <2>1. faults' \in 0..MaxFaults /\ quiet' = 0 /\ pc' = "idle"
    BY <1>3, BoundAssumption DEF Crash, Disturbed, TypeOK
  <2>2. leaked' \subseteq Component
    BY <1>3 DEF Crash, Forgotten, Component, TypeOK
  <2>3. UNCHANGED <<spec, tenant, entries, workload, stored, dk, st, edited, unreachable, changes>>
    BY <1>3 DEF Crash
  <2> QED
    BY <2>1, <2>2, <2>3 DEF TypeOK
<1> QED
  BY <1>1, <1>2, <1>3

LEMMA NextType == TypeOK /\ [Next]_vars => TypeOK'
<1>1. TypeOK /\ UNCHANGED vars => TypeOK'
  BY DEF TypeOK, vars
<1> QED
  BY <1>1, ReconcileType, DisturbanceType DEF Next

\* Specs, statuses and entries keep their shape, whatever the tenant
\* advertises and however often the calls fail.
THEOREM TypeCorrect == Spec => []TypeOK
<1> QED
  BY InitType, NextType, PTL DEF Spec

-----------------------------------------------------------------------------
(***************************************************************************)
(* The inductive invariant.  That the entries agree is decided in the      *)
(* steps of one reconcile, so it says for each point of an undisturbed one *)
(* what it works on, what it has read and which entries it has dealt with. *)
(* Which entries the status has forgotten is known at every step, disturbed *)
(* or not.                                                                 *)
(***************************************************************************)

\* no disturbance since the reconcile before this one, or since this one began
Undisturbed == quiet = 2 \/ (quiet = 1 /\ pc # "idle")

LeakInv ==
    /\ pc = "idle" => Forgotten \subseteq leaked
    /\ pc # "idle" => \A c \in Agent : Accounted(c, st)
    /\ pc \in {"api", "tokens", "agConnection"} /\ entries["activegate"] # NoEntry /\ Unknown(st, "activegate") =>
          "activegate" \in leaked

SpecInv ==
    Undisturbed => /\ dk = spec
                   /\ pc # "idle" => ~edited /\ ~unreachable
                   /\ pc = "idle" => st = stored

StepInv ==
    Undisturbed => /\ pc = "agMesh" /\ dk.activeGate => st.activeGate = tenant.activegate
                   /\ pc = "kmMesh" => dk.gate /\ ~dk.activeGate /\ (dk.kubemon => st.kubemon = tenant.activegate)
                   /\ pc = "oaMesh" /\ dk.oneAgent # "none" => st.oneAgent = Advertised(dk)

\* the entries of an agent that no longer talks are gone, but for forgotten ones
Gone(c) == entries[c] = NoEntry \/ (c \in leaked /\ Unknown(st, c))

PostponedNow(c) ==
    IF c = "oneagent" THEN dk.oneAgent # "none" /\ IsPostponed(dk, st)
    ELSE ~dk.activeGate /\ dk.kubemon /\ tenant.activegate = {}

Agrees(c, hosts) ==
    /\ IsNeeded(dk, c) /\ Parses(hosts) /\ ~PostponedNow(c) => entries[c] = EntriesFor(hosts)
    /\ ~IsNeeded(dk, c) /\ ~PostponedNow(c) => Gone(c)

\* the last of the two steps that deal with the entries of the ActiveGate is over
GateDone ==
    \/ pc \in {"oaConnection", "oaMesh", "write", "idle"}
    \/ pc \in {"agWorkload", "kmConnection"} /\ (dk.activeGate \/ ~dk.gate)

MeshInv ==
    Undisturbed => /\ pc # "api" /\ dk.istio => entries["operator"] = EntriesFor({dk.api})
                   /\ GateDone => Agrees("activegate", tenant.activegate)
                   /\ pc = "agWorkload" /\ ~IsNeeded(dk, "activegate") =>
                         entries["activegate"] = NoEntry \/ ("activegate" \in leaked /\ Absent(st, "activegate"))
                   /\ pc \in {"write", "idle"} => Agrees("oneagent", Advertised(dk))

Inv == TypeOK /\ LeakInv /\ SpecInv /\ StepInv /\ MeshInv

\* where the invariant is claimed from, and where nothing is claimed
LEMMA StillUndisturbed ==
    ASSUME pc # "idle", quiet' \in {quiet, 0}, Undisturbed', TypeOK
    PROVE  Undisturbed /\ quiet' # 0 /\ quiet' = quiet
BY DEF Undisturbed, TypeOK

LEMMA NothingClaimed == quiet' = 0 => SpecInv' /\ StepInv' /\ MeshInv'
BY DEF Undisturbed, SpecInv, StepInv, MeshInv

LEMMA AgentFacts == Agent \subseteq Component /\ "oneagent" \in Agent /\ "activegate" \in Agent /\ "operator" \in Component \ Agent
BY DEF Agent, Component

\* an agent whose entries and condition are left alone
LEMMA AgreementKept ==
    ASSUME NEW c \in Agent, UNCHANGED <<spec, dk, tenant>>, entries'[c] = entries[c], leaked \subseteq leaked',
           st'.conditions[ConditionOf[c]] = st.conditions[ConditionOf[c]], st'.statefulSet = st.statefulSet
    PROVE  /\ Gone(c) => Gone(c)'
           /\ PostponedNow(c)' = PostponedNow(c)
           /\ Agrees(c, tenant.activegate) => Agrees(c, tenant.activegate)'
           /\ Agrees(c, Advertised(dk)) => Agrees(c, Advertised(dk))'
<1>1. Gone(c) => Gone(c)'
  BY DEF Gone, Unknown
<1>2. PostponedNow(c)' = PostponedNow(c)
  BY DEF PostponedNow, IsPostponed, ZoneUnknown
<1>3. Advertised(dk)' = Advertised(dk) /\ (tenant.activegate)' = tenant.activegate
  BY DEF Advertised, ZoneUnknown
<1>4. ASSUME NEW hosts, Agrees(c, hosts) PROVE Agrees(c, hosts)'
  BY <1>1, <1>2, <1>4 DEF Agrees
<1> QED
  BY <1>1, <1>2, <1>3, <1>4 DEF Agrees

(***************************************************************************)
(* The reconciler of entries.                                              *)
(***************************************************************************)

LEMMA MeshLeak ==
    ASSUME Inv, NEW c \in Component, NEW status \in Status, SameBut("operator", st, status),
           NEW step \in {"api", "agMesh", "kmMesh", "oaMesh"}, NEW next, NEW afterError,
           Mesh(c, status, step, next, afterError)
    PROVE  \A d \in Agent : Accounted(d, status) /\ Accounted(d, st)'
<1> SUFFICES ASSUME NEW d \in Agent PROVE Accounted(d, status) /\ Accounted(d, st)'
  OBVIOUS
<1>1. pc = step /\ pc # "idle" /\ OnlyOf(c, status)
  BY MeshFacts DEF Inv
<1>2. Accounted(d, st)
  BY <1>1 DEF Inv, LeakInv
<1>3. d \in Component \ {"operator"}
  BY DEF Agent, Component
<1>4. Accounted(d, status)
  BY <1>2, <1>3 DEF Accounted, Absent, SameBut
<1>5. CASE d = c
  BY <1>4, <1>5, MeshFacts DEF Inv
<1>6. CASE d # c
  <2>1. /\ entries'[d] = entries[d] /\ leaked \subseteq leaked'
        /\ st'.conditions[ConditionOf[d]] = status.conditions[ConditionOf[d]]
    BY <1>1, <1>3, <1>6 DEF OnlyOf, StatusOf, SameBut
  <2> QED
    BY <1>4, <2>1 DEF Accounted, Absent
<1> QED
  BY <1>4, <1>5, <1>6

LEMMA SpecKept ==
    ASSUME Inv, pc # "idle", pc' # "idle", quiet' \in {quiet, 0}, UNCHANGED <<spec, dk, edited, unreachable>>
    PROVE  SpecInv'
BY StillUndisturbed DEF Inv, SpecInv

\* what holds of the other agents after the entries of c
LEMMA OthersKept ==
    ASSUME Inv, NEW c \in Component, NEW status \in Status, SameBut("operator", st, status), OnlyOf(c, status),
           UNCHANGED <<spec, tenant, dk>>, NEW d \in Agent, d # c
    PROVE  /\ Agrees(d, tenant.activegate) => Agrees(d, tenant.activegate)'
           /\ Agrees(d, Advertised(dk)) => Agrees(d, Advertised(dk))'
<1>1. d \in Component \ {"operator"} /\ d \in Component \ {c}
  BY DEF Agent, Component
<1>2. entries'[d] = entries[d] /\ leaked \subseteq leaked'
  BY <1>1 DEF OnlyOf
<1>3. /\ st'.conditions[ConditionOf[d]] = st.conditions[ConditionOf[d]]
      /\ st'.statefulSet = st.statefulSet
  BY <1>1 DEF OnlyOf, StatusOf, SameBut
<1> QED
  BY <1>2, <1>3, AgreementKept

LEMMA ReconcileAPIURLInv == ASSUME Inv, ReconcileAPIURL PROVE Inv'
<1>0. /\ TypeOK /\ "operator" \in Component /\ st \in Status
      /\ "operator" \notin Agent /\ SameBut("operator", st, st)
      /\ Mesh("operator", st, "api", "tokens", "write")
  BY AgentFacts DEF Inv, TypeOK, SameBut, ReconcileAPIURL
<1>1. /\ UNCHANGED <<spec, tenant, workload, stored, dk, edited, unreachable, changes>>
      /\ pc = "api" /\ pc' \in {"tokens", "write"}
      /\ OnlyOf("operator", st)
  BY <1>0, MeshFacts
<1>2. quiet' # 0 /\ IsNeeded(dk, "operator") /\ Parses(HostsOf("operator", st)) =>
         entries'["operator"] = EntriesFor(HostsOf("operator", st))
  BY <1>0, MeshFacts
<1>3. quiet' # 0 /\ pc' # "tokens" => ~Parses(HostsOf("operator", st))
  BY <1>0, MeshFacts
<1>4. HostsOf("operator", st) = {dk.api} /\ Parses(HostsOf("operator", st))
  BY <1>0, HostAssumption DEF HostsOf, Parses, TypeOK, Settings
<1>5. dk.istio => IsNeeded(dk, "operator")
  BY DEF IsNeeded
<1>6. quiet' \in {quiet, 0}
  BY <1>1 DEF OnlyOf
<1>7. LeakInv'
  <2>1. (\A d \in Agent : Accounted(d, st))'
    BY <1>0, MeshLeak
  <2>2. Unknown(st, "activegate")' => Unknown(st, "activegate")
    BY <1>1, AgentFacts DEF Unknown, OnlyOf, StatusOf, SameBut
  <2>3. entries'["activegate"] = entries["activegate"] /\ leaked \subseteq leaked'
    BY <1>1, AgentFacts DEF OnlyOf
  <2> QED
    BY <1>1, <2>1, <2>2, <2>3 DEF LeakInv, Inv
<1>8. SpecInv'
  BY <1>1, <1>6, SpecKept
<1>9. StepInv'
  BY <1>1 DEF StepInv
<1>10. MeshInv'
  <2> SUFFICES ASSUME Undisturbed' PROVE MeshInv'
    BY DEF MeshInv
  <2>1. quiet' # 0
    BY <1>0, <1>1, <1>6, StillUndisturbed
  <2>2. pc' = "tokens"
    BY <1>1, <1>3, <1>4, <2>1
  <2>3. dk'.istio => entries'["operator"] = EntriesFor({dk'.api})
    BY <1>1, <1>2, <1>4, <1>5, <2>1
  <2> QED
    BY <2>2, <2>3 DEF MeshInv, GateDone
<1> QED
  BY <1>0, <1>7, <1>8, <1>9, <1>10, ReconcileType DEF Inv

\* an agent after its own step
LEMMA AgreesAfter ==
    ASSUME Inv, NEW c \in Agent, NEW status \in Status, SameBut("operator", st, status),
           NEW step \in {"agMesh", "kmMesh", "oaMesh"}, NEW next, NEW afterError,
           Mesh(c, status, step, next, afterError), quiet' # 0,
           NEW hosts, IsNeeded(dk, c) => HostsOf(c, status) = hosts
    PROVE  /\ Agrees(c, hosts)'
           /\ ~IsNeeded(dk, c) => entries'[c] = NoEntry \/ (c \in leaked' /\ Absent(st', c))
<1>1. c \in Component /\ Accounted(c, status)
  BY AgentFacts, MeshLeak
<1>2. dk' = dk
  BY <1>1, MeshFacts DEF Inv
<1>3. IsNeeded(dk, c) /\ Parses(hosts) => entries'[c] = EntriesFor(hosts)
  BY <1>1, MeshFacts DEF Inv
<1>4. ~IsNeeded(dk, c) => entries'[c] = NoEntry \/ (c \in leaked' /\ Absent(st', c))
  BY <1>1, MeshFacts DEF Inv
<1>5. Absent(st', c) => Unknown(st, c)'
  BY DEF Absent, Unknown
<1>6. ~IsNeeded(dk, c) => Gone(c)'
  BY <1>4, <1>5 DEF Gone
<1> QED
  BY <1>2, <1>3, <1>4, <1>6 DEF Agrees

LEMMA ReconcileActiveGateInv == ASSUME Inv, ReconcileActiveGate PROVE Inv'
<1>0. /\ TypeOK /\ "activegate" \in Component /\ "activegate" \in Agent /\ st \in Status
      /\ "operator" \in Component \ {"activegate"} /\ SameBut("operator", st, st)
      /\ Mesh("activegate", st, "agMesh", "agWorkload", "kmConnection")
  BY AgentFacts DEF Inv, TypeOK, SameBut, ReconcileActiveGate
<1>1. /\ UNCHANGED <<spec, tenant, workload, stored, dk, edited, unreachable, changes>>
      /\ pc = "agMesh" /\ pc' \in {"agWorkload", "kmConnection"}
      /\ OnlyOf("activegate", st)
  BY <1>0, MeshFacts
<1>2. quiet' \in {quiet, 0} /\ entries'["operator"] = entries["operator"]
  BY <1>0, <1>1 DEF OnlyOf
<1>3. LeakInv'
  <2>1. (\A d \in Agent : Accounted(d, st))'
    BY <1>0, MeshLeak
  <2> QED
    BY <1>1, <2>1 DEF LeakInv
<1>4. SpecInv'
  BY <1>1, <1>2, SpecKept
<1>5. StepInv'
  BY <1>1 DEF StepInv
<1>6. MeshInv'
  <2> SUFFICES ASSUME Undisturbed' PROVE MeshInv'
    BY DEF MeshInv
  <2>1. Undisturbed /\ quiet' # 0
    BY <1>0, <1>1, <1>2, StillUndisturbed
  <2>2. dk.istio => entries["operator"] = EntriesFor({dk.api})
    BY <1>1, <2>1 DEF Inv, MeshInv
  <2>3. dk.activeGate => st.activeGate = tenant.activegate
    BY <1>1, <2>1 DEF Inv, StepInv
  <2>4. dk.activeGate => HostsOf("activegate", st) = tenant.activegate
    BY <2>3 DEF HostsOf
  <2>5. ASSUME dk.activeGate \/ ~dk.gate PROVE Agrees("activegate", tenant.activegate)'
    <3>1. IsNeeded(dk, "activegate") => HostsOf("activegate", st) = tenant.activegate
      BY <2>4, <2>5 DEF IsNeeded, IsKubemonEnabled
    <3>2. \A hosts : hosts = tenant.activegate => Agrees("activegate", hosts)'
      BY <1>0, <2>1, <3>1, AgreesAfter
    <3>3. tenant' = tenant
      BY <1>1
    <3> QED
      BY <3>2, <3>3 DEF Agrees
  <2>6. ~IsNeeded(dk, "activegate") =>
            entries'["activegate"] = NoEntry \/ ("activegate" \in leaked' /\ Absent(st', "activegate"))
    BY <1>0, <2>1, AgreesAfter
  <2>7. (dk.istio => entries["operator"] = EntriesFor({dk.api}))'
    BY <1>1, <1>2, <2>2
  <2>8. (GateDone => Agrees("activegate", tenant.activegate))'
    BY <1>1, <2>5 DEF GateDone
  <2>9. (~IsNeeded(dk, "activegate") =>
            entries["activegate"] = NoEntry \/ ("activegate" \in leaked /\ Absent(st, "activegate")))'
    BY <1>1, <2>6 DEF Absent
  <2> QED
    BY <1>1, <2>7, <2>8, <2>9 DEF MeshInv
<1> QED
  BY <1>0, <1>3, <1>4, <1>5, <1>6, ReconcileType DEF Inv

LEMMA ReconcileKubemonInv == ASSUME Inv, ReconcileKubemon PROVE Inv'
<1>0. /\ TypeOK /\ "activegate" \in Component /\ "activegate" \in Agent /\ st \in Status
      /\ "operator" \in Component \ {"activegate"} /\ SameBut("operator", st, st)
      /\ Mesh("activegate", st, "kmMesh", "oaConnection", "oaConnection")
  BY AgentFacts DEF Inv, TypeOK, SameBut, ReconcileKubemon
<1>1. /\ UNCHANGED <<spec, tenant, workload, stored, dk, edited, unreachable, changes>>
      /\ pc = "kmMesh" /\ pc' = "oaConnection"
      /\ OnlyOf("activegate", st)
  BY <1>0, MeshFacts
<1>2. quiet' \in {quiet, 0} /\ entries'["operator"] = entries["operator"]
  BY <1>0, <1>1 DEF OnlyOf
<1>3. LeakInv'
  <2>1. (\A d \in Agent : Accounted(d, st))'
    BY <1>0, MeshLeak
  <2> QED
    BY <1>1, <2>1 DEF LeakInv
<1>4. SpecInv'
  BY <1>1, <1>2, SpecKept
<1>5. StepInv'
  BY <1>1 DEF StepInv
<1>6. MeshInv'
  <2> SUFFICES ASSUME Undisturbed' PROVE MeshInv'
    BY DEF MeshInv
  <2>1. Undisturbed /\ quiet' # 0
    BY <1>0, <1>1, <1>2, StillUndisturbed
  <2>2. dk.istio => entries["operator"] = EntriesFor({dk.api})
    BY <1>1, <2>1 DEF Inv, MeshInv
  <2>3. ~dk.activeGate /\ (dk.kubemon => st.kubemon = tenant.activegate)
    BY <1>1, <2>1 DEF Inv, StepInv
  <2>4. IsNeeded(dk, "activegate") => HostsOf("activegate", st) = tenant.activegate
    BY <2>3 DEF HostsOf, IsNeeded, IsKubemonEnabled
  <2>5. \A hosts : hosts = tenant.activegate => Agrees("activegate", hosts)'
    BY <1>0, <2>1, <2>4, AgreesAfter
  <2>6. Agrees("activegate", tenant.activegate)'
    BY <1>1, <2>5 DEF Agrees
  <2>7. (dk.istio => entries["operator"] = EntriesFor({dk.api}))'
    BY <1>1, <1>2, <2>2
  <2> QED
    BY <1>1, <2>6, <2>7 DEF MeshInv
<1> QED
  BY <1>0, <1>3, <1>4, <1>5, <1>6, ReconcileType DEF Inv

LEMMA ReconcileCodeModulesInv == ASSUME Inv, ReconcileCodeModules PROVE Inv'
<1> DEFINE status == MigrateDeprecatedCondition(st)
<1>0. /\ TypeOK /\ "oneagent" \in Component /\ "oneagent" \in Agent /\ "activegate" \in Agent
      /\ "operator" \in Component \ {"oneagent"}
      /\ status \in Status /\ SameBut("operator", st, status)
      /\ Mesh("oneagent", status, "oaMesh", "write", "write")
  BY AgentFacts, MigrateFacts DEF Inv, TypeOK, ReconcileCodeModules
<1> HIDE DEF status
<1>1. /\ UNCHANGED <<spec, tenant, workload, stored, dk, edited, unreachable, changes>>
      /\ pc = "oaMesh" /\ pc' = "write"
      /\ OnlyOf("oneagent", status)
  BY <1>0, MeshFacts
<1>2. quiet' \in {quiet, 0} /\ entries'["operator"] = entries["operator"]
  BY <1>0, <1>1 DEF OnlyOf
<1>3. LeakInv'
  <2>1. (\A d \in Agent : Accounted(d, st))'
    BY <1>0, MeshLeak
  <2> QED
    BY <1>1, <2>1 DEF LeakInv
<1>4. SpecInv'
  BY <1>1, <1>2, SpecKept
<1>5. StepInv'
  BY <1>1 DEF StepInv
<1>6. MeshInv'
  <2> SUFFICES ASSUME Undisturbed' PROVE MeshInv'
    BY DEF MeshInv
  <2>1. Undisturbed /\ quiet' # 0
    BY <1>0, <1>1, <1>2, StillUndisturbed
  <2>2. /\ dk.istio => entries["operator"] = EntriesFor({dk.api})
        /\ Agrees("activegate", tenant.activegate)
    BY <1>1, <2>1 DEF Inv, MeshInv, GateDone
  <2>3. dk.oneAgent # "none" => st.oneAgent = Advertised(dk)
    BY <1>1, <2>1 DEF Inv, StepInv
  <2>4. IsNeeded(dk, "oneagent") => HostsOf("oneagent", status) = Advertised(dk)
    <3>1. HostsOf("oneagent", status) = st.oneAgent
      BY <1>0 DEF HostsOf, SameBut
    <3>2. IsNeeded(dk, "oneagent") => dk.oneAgent # "none"
      BY DEF IsNeeded
    <3> QED
      BY <2>3, <3>1, <3>2
  <2>5. \A hosts : hosts = Advertised(dk) => Agrees("oneagent", hosts)'
    BY <1>0, <2>1, <2>4, AgreesAfter
  <2>6. Advertised(dk)' = Advertised(dk)
    BY <1>1 DEF Advertised, ZoneUnknown
  <2>7. Agrees("oneagent", Advertised(dk))'
    BY <2>5, <2>6 DEF Agrees
  <2>8. Agrees("activegate", tenant.activegate)'
    BY <1>0, <1>1, <2>2, OthersKept
  <2>9. (dk.istio => entries["operator"] = EntriesFor({dk.api}))'
    BY <1>1, <1>2, <2>2
  <2> QED
    BY <1>1, <2>7, <2>8, <2>9 DEF MeshInv
<1> QED
  BY <1>0, <1>3, <1>4, <1>5, <1>6, ReconcileType DEF Inv

(***************************************************************************)
(* The steps between, which change the status at most.                     *)
(***************************************************************************)
Quietly ==
    /\ UNCHANGED <<spec, tenant, entries, dk, edited, leaked, unreachable, quiet>>
    /\ \A d \in Agent : st'.conditions[ConditionOf[d]] = st.conditions[ConditionOf[d]]

LEMMA StatusFields ==
    ASSUME TypeOK, NEW e
    PROVE  /\ [st EXCEPT !.oneAgent = e].oneAgent = e
           /\ [st EXCEPT !.oneAgent = e].conditions = st.conditions
           /\ [st EXCEPT !.oneAgent = e].statefulSet = st.statefulSet
           /\ [st EXCEPT !.activeGate = e].activeGate = e
           /\ [st EXCEPT !.activeGate = e].conditions = st.conditions
           /\ [st EXCEPT !.activeGate = e].statefulSet = st.statefulSet
           /\ [st EXCEPT !.kubemon = e].kubemon = e
           /\ [st EXCEPT !.kubemon = e].conditions = st.conditions
           /\ [st EXCEPT !.kubemon = e].statefulSet = st.statefulSet
           /\ [st EXCEPT !.statefulSet = e].statefulSet = e
           /\ [st EXCEPT !.statefulSet = e].conditions = st.conditions
<1> st \in Status
  BY DEF TypeOK
<1> QED
  BY DEF Status

LEMMA GoesFacts ==
    ASSUME NEW step, NEW next, Goes(step, next)
    PROVE  /\ pc = step /\ pc' = next
           /\ UNCHANGED <<spec, tenant, entries, dk, edited, leaked, unreachable, quiet>>
BY DEF Goes, Step

LEMMA QuietStep ==
    ASSUME Inv, Quietly, pc # "idle", pc' \notin {"idle", "api"}
    PROVE  /\ (\A d \in Agent : Accounted(d, st))'
           /\ SpecInv'
           /\ Undisturbed' => Undisturbed
           /\ Undisturbed' /\ pc # "api" => (dk.istio => entries["operator"] = EntriesFor({dk.api}))'
<1>1. (\A d \in Agent : Accounted(d, st))'
  <2>1. \A d \in Agent : Accounted(d, st)
    BY DEF Inv, LeakInv
  <2> QED
    BY <2>1 DEF Quietly, Accounted, Absent
<1>2. SpecInv'
  BY SpecKept DEF Quietly
<1>3. Undisturbed' => Undisturbed
  BY StillUndisturbed DEF Quietly, Inv
<1>4. ASSUME Undisturbed', pc # "api" PROVE (dk.istio => entries["operator"] = EntriesFor({dk.api}))'
  BY <1>3, <1>4 DEF Quietly, Inv, MeshInv
<1> QED
  BY <1>1, <1>2, <1>3, <1>4

LEMMA FailsInv ==
    ASSUME Inv, NEW step \in {"tokens", "agConnection", "agWorkload", "kmConnection", "oaConnection"},
           NEW next \in {"kmConnection", "oaConnection", "write"}, Step(step, next), Failing,
           st'.conditions = st.conditions
    PROVE  LeakInv' /\ SpecInv' /\ StepInv' /\ MeshInv'
<1>1. /\ pc = step /\ pc' = next /\ quiet' = 0
      /\ UNCHANGED <<entries, leaked>>
  BY DEF Failing, Step
<1>2. \A d \in Agent : Accounted(d, st)
  BY <1>1 DEF Inv, LeakInv
<1>3. (\A d \in Agent : Accounted(d, st))'
  BY <1>1, <1>2 DEF Accounted, Absent
<1>4. LeakInv'
  BY <1>1, <1>3 DEF LeakInv
<1> QED
  BY <1>1, <1>4, NothingClaimed

LEMMA SetupTokensAndClientInv == ASSUME Inv, SetupTokensAndClient PROVE Inv'
<1>1. TypeOK'
  BY ReconcileType DEF Inv
<1>2. CASE Goes("tokens", "agConnection") /\ UNCHANGED st
  <2>1. pc = "tokens" /\ pc' = "agConnection" /\ Quietly
    BY <1>2, GoesFacts DEF Quietly
  <2>2. SpecInv' /\ (\A d \in Agent : Accounted(d, st))'
    BY <2>1, QuietStep
  <2>3. LeakInv'
    BY <1>2, <2>1, <2>2 DEF Inv, LeakInv, Unknown, Quietly
  <2>4. StepInv'
    BY <2>1 DEF StepInv
  <2>5. MeshInv'
    BY <2>1, QuietStep DEF MeshInv, GateDone
  <2> QED
    BY <1>1, <2>2, <2>3, <2>4, <2>5 DEF Inv
<1>3. CASE Fails("tokens", "write")
  BY <1>1, <1>3, FailsInv DEF Inv, Fails
<1> QED
  BY <1>2, <1>3 DEF SetupTokensAndClient

LEMMA ReconcileActiveGateConnectionInv == ASSUME Inv, ReconcileActiveGateConnection PROVE Inv'
<1>0. TypeOK /\ TypeOK'
  BY ReconcileType DEF Inv
<1>1. CASE /\ Goes("agConnection", "agMesh")
           /\ st' = [st EXCEPT !.activeGate = IF dk.activeGate THEN tenant.activegate ELSE {}]
  <2>1. /\ pc = "agConnection" /\ pc' = "agMesh"
        /\ UNCHANGED <<spec, tenant, entries, dk, edited, leaked, unreachable, quiet>>
    BY <1>1, GoesFacts
  <2>2. st'.conditions = st.conditions /\ (dk.activeGate => st'.activeGate = tenant.activegate)
    BY <1>0, <1>1, StatusFields
  <2>3. Quietly
    BY <2>1, <2>2 DEF Quietly
  <2>4. SpecInv' /\ (\A d \in Agent : Accounted(d, st))'
    BY <2>1, <2>3, QuietStep
  <2>5. LeakInv'
    BY <2>1, <2>4 DEF LeakInv
  <2>6. StepInv'
    BY <2>1, <2>2 DEF StepInv
  <2>7. MeshInv'
    BY <2>1, <2>3, QuietStep DEF MeshInv, GateDone
  <2> QED
    BY <1>0, <2>4, <2>5, <2>6, <2>7 DEF Inv
<1>2. CASE ~dk.activeGate /\ ~st.statefulSet /\ Goes("agConnection", "kmConnection") /\ UNCHANGED st
  <2>1. pc = "agConnection" /\ pc' = "kmConnection" /\ Quietly /\ UNCHANGED <<spec, tenant, entries, dk, leaked>>
    BY <1>2, GoesFacts DEF Quietly
  <2>2. SpecInv' /\ (\A d \in Agent : Accounted(d, st))'
    BY <2>1, QuietStep
  <2>3. LeakInv'
    BY <2>1, <2>2 DEF LeakInv
  <2>4. StepInv'
    BY <2>1 DEF StepInv
  <2>5. MeshInv'
    <3> SUFFICES ASSUME Undisturbed' PROVE MeshInv'
      BY DEF MeshInv
    <3>1. Undisturbed /\ (dk.istio => entries["operator"] = EntriesFor({dk.api}))'
      BY <2>1, QuietStep
    <3>2. ASSUME ~dk.gate PROVE Agrees("activegate", tenant.activegate)'
      <4>1. dk = spec /\ ~IsNeeded(dk, "activegate")
        BY <1>2, <3>1, <3>2 DEF Inv, SpecInv, IsNeeded, IsKubemonEnabled
      <4>2. Unknown(st, "activegate")
        BY <1>2, <3>2, <4>1 DEF Unknown
      <4>3. Gone("activegate")
        BY <2>1, <4>2 DEF Gone, Inv, LeakInv
      <4>4. Agrees("activegate", tenant.activegate)
        BY <4>1, <4>3 DEF Agrees
      <4> QED
        BY <1>2, <2>1, <4>4, AgreementKept, AgentFacts
    <3>3. (GateDone => Agrees("activegate", tenant.activegate))'
      BY <1>2, <2>1, <3>2 DEF GateDone
    <3> QED
      BY <2>1, <3>1, <3>3 DEF MeshInv
  <2> QED
    BY <1>0, <2>2, <2>3, <2>4, <2>5 DEF Inv
<1>3. CASE Fails("agConnection", "kmConnection")
  BY <1>0, <1>3, FailsInv DEF Inv, Fails
<1> QED
  BY <1>1, <1>2, <1>3 DEF ReconcileActiveGateConnection

LEMMA ReconcileActiveGateWorkloadInv == ASSUME Inv, ReconcileActiveGateWorkload PROVE Inv'
<1>0. TypeOK /\ TypeOK'
  BY ReconcileType DEF Inv
<1>1. CASE DeployActiveGate \/ RemoveActiveGate
  <2>1. /\ pc = "agWorkload" /\ pc' = "kmConnection"
        /\ UNCHANGED <<spec, tenant, entries, dk, edited, leaked, unreachable, quiet>>
    BY <1>1 DEF DeployActiveGate, RemoveActiveGate, Step
  <2>2. st'.conditions = st.conditions
    <3>1. PICK known : st' = [st EXCEPT !.statefulSet = known]
      BY <1>1 DEF DeployActiveGate, RemoveActiveGate
    <3> QED
      BY <1>0, <3>1, StatusFields
  <2>3. Quietly
    BY <2>1, <2>2 DEF Quietly
  <2>4. SpecInv' /\ (\A d \in Agent : Accounted(d, st))'
    BY <2>1, <2>3, QuietStep
  <2>5. LeakInv'
    BY <2>1, <2>4 DEF LeakInv
  <2>6. StepInv'
    BY <2>1 DEF StepInv
  <2>7. MeshInv'
    <3> SUFFICES ASSUME Undisturbed' PROVE MeshInv'
      BY DEF MeshInv
    <3>1. Undisturbed /\ (dk.istio => entries["operator"] = EntriesFor({dk.api}))'
      BY <2>1, <2>3, QuietStep
    <3>2. /\ GateDone => Agrees("activegate", tenant.activegate)
          /\ ~IsNeeded(dk, "activegate") =>
                entries["activegate"] = NoEntry \/ ("activegate" \in leaked /\ Absent(st, "activegate"))
      BY <2>1, <3>1 DEF Inv, MeshInv
    <3>3. GateDone' => GateDone
      BY <2>1 DEF GateDone
    <3>4. Absent(st, "activegate") => Unknown(st, "activegate")'
      BY <2>2 DEF Absent, Unknown
    <3>5. ~IsNeeded(dk, "activegate") => Gone("activegate")'
      BY <2>1, <3>2, <3>4 DEF Gone
    <3>6. PostponedNow("activegate")' = PostponedNow("activegate")
      BY <2>1 DEF PostponedNow
    <3>7. (GateDone => Agrees("activegate", tenant.activegate))'
      BY <2>1, <3>2, <3>3, <3>5, <3>6 DEF Agrees
    <3> QED
      BY <2>1, <3>1, <3>7 DEF MeshInv
  <2> QED
    BY <1>0, <2>4, <2>5, <2>6, <2>7 DEF Inv
<1>2. CASE ActiveGateWorkloadFails
  <2>1. st'.conditions = st.conditions
    <3>1. PICK known : st' = [st EXCEPT !.statefulSet = known]
      BY <1>2 DEF ActiveGateWorkloadFails
    <3> QED
      BY <1>0, <3>1, StatusFields
  <2> QED
    BY <1>0, <1>2, <2>1, FailsInv DEF Inv, ActiveGateWorkloadFails
<1> QED
  BY <1>1, <1>2 DEF ReconcileActiveGateWorkload

\* the entries of the ActiveGate that are in order stay it
LEMMA ActiveGateKept ==
    ASSUME Inv, Quietly, st'.statefulSet = st.statefulSet, Undisturbed, GateDone
    PROVE  Agrees("activegate", tenant.activegate)'
<1>1. Agrees("activegate", tenant.activegate)
  BY DEF Inv, MeshInv
<1> QED
  BY <1>1, AgentFacts, AgreementKept DEF Quietly

LEMMA ReconcileKubemonConnectionInv == ASSUME Inv, ReconcileKubemonConnection PROVE Inv'
<1> DEFINE next == IF dk.activeGate THEN "oaConnection" ELSE "kmMesh"
<1>0. TypeOK /\ TypeOK'
  BY ReconcileType DEF Inv
<1>1. ASSUME Goes("kmConnection", "oaConnection") \/ Goes("kmConnection", next),
             NEW e, st' = st \/ st' = [st EXCEPT !.kubemon = e],
             pc' = "kmMesh" => dk.gate /\ ~dk.activeGate /\ (dk.kubemon => st'.kubemon = tenant.activegate),
             pc' = "oaConnection" => \/ dk.activeGate \/ ~dk.gate
                                     \/ ~dk.activeGate /\ dk.kubemon /\ tenant.activegate = {}
      PROVE  Inv'
  <2>1. /\ pc = "kmConnection" /\ pc' \in {"oaConnection", "kmMesh"}
        /\ UNCHANGED <<spec, tenant, entries, dk, edited, leaked, unreachable, quiet>>
    BY <1>1, GoesFacts
  <2>2. st'.conditions = st.conditions /\ st'.statefulSet = st.statefulSet
    <3>1. CASE st' = st
      BY <3>1
    <3>2. CASE st' = [st EXCEPT !.kubemon = e]
      BY <1>0, <3>2, StatusFields
    <3> QED
      BY <1>1, <3>1, <3>2
  <2>3. Quietly
    BY <2>1, <2>2 DEF Quietly
  <2>4. SpecInv' /\ (\A d \in Agent : Accounted(d, st))'
    BY <2>1, <2>3, QuietStep
  <2>5. LeakInv'
    BY <2>1, <2>4 DEF LeakInv
  <2>6. StepInv'
    BY <1>1, <2>1 DEF StepInv
  <2>7. MeshInv'
    <3> SUFFICES ASSUME Undisturbed' PROVE MeshInv'
      BY DEF MeshInv
    <3>1. Undisturbed /\ (dk.istio => entries["operator"] = EntriesFor({dk.api}))'
      BY <2>1, <2>3, QuietStep
    <3>2. ASSUME pc' = "oaConnection" PROVE Agrees("activegate", tenant.activegate)'
      <4>1. CASE dk.activeGate \/ ~dk.gate
        <5>1. GateDone
          BY <2>1, <4>1 DEF GateDone
        <5> QED
          BY <2>2, <2>3, <3>1, <5>1, ActiveGateKept
      <4>2. CASE ~dk.activeGate /\ dk.kubemon /\ tenant.activegate = {}
        <5>1. PostponedNow("activegate")'
          BY <2>1, <4>2 DEF PostponedNow
        <5> QED
          BY <5>1 DEF Agrees
      <4> QED
        BY <1>1, <3>2, <4>1, <4>2
    <3>3. (GateDone => Agrees("activegate", tenant.activegate))'
      BY <2>1, <3>2 DEF GateDone
    <3> QED
      BY <2>1, <3>1, <3>3 DEF MeshInv
  <2> QED
    BY <1>0, <2>4, <2>5, <2>6, <2>7 DEF Inv
<1>2. CASE ~dk.gate /\ Goes("kmConnection", "oaConnection") /\ UNCHANGED st
  <2>1. pc' = "oaConnection"
    BY <1>2, GoesFacts
  <2> QED
    BY <1>1, <1>2, <2>1
<1>3. CASE dk.gate /\ ~dk.kubemon /\ Goes("kmConnection", next) /\ st' = [st EXCEPT !.kubemon = {}]
  <2>1. pc' = next
    BY <1>3, GoesFacts
  <2> QED
    BY <1>1, <1>3, <2>1
<1>4. CASE /\ dk.gate /\ dk.kubemon /\ tenant.activegate # {}
           /\ Goes("kmConnection", next) /\ st' = [st EXCEPT !.kubemon = tenant.activegate]
  <2>1. pc' = next
    BY <1>4, GoesFacts
  <2>2. st'.kubemon = tenant.activegate
    BY <1>0, <1>4, StatusFields
  <2> QED
    BY <1>1, <1>4, <2>1, <2>2
<1>5. CASE dk.gate /\ dk.kubemon /\ tenant.activegate = {} /\ Goes("kmConnection", "oaConnection") /\ UNCHANGED st
  <2>1. pc' = "oaConnection"
    BY <1>5, GoesFacts
  <2> QED
    BY <1>1, <1>5, <2>1
<1>6. CASE Fails("kmConnection", "oaConnection")
  BY <1>0, <1>6, FailsInv DEF Inv, Fails
<1> QED
  BY <1>2, <1>3, <1>4, <1>5, <1>6 DEF ReconcileKubemonConnection

LEMMA ReconcileOneAgentConnectionInv == ASSUME Inv, ReconcileOneAgentConnection PROVE Inv'
<1>0. TypeOK /\ TypeOK'
  BY ReconcileType DEF Inv
<1>1. ASSUME pc = "oaConnection", pc' \in {"oaMesh", "write"},
             UNCHANGED <<spec, tenant, entries, dk, edited, leaked, unreachable, quiet>>,
             NEW e, st' = [st EXCEPT !.oneAgent = e],
             pc' = "oaMesh" /\ dk.oneAgent # "none" => e = Advertised(dk),
             pc' = "write" => dk.oneAgent # "none" /\ IsPostponed(dk, st)
      PROVE  Inv'
  <2>1. st'.conditions = st.conditions /\ st'.statefulSet = st.statefulSet /\ st'.oneAgent = e
    BY <1>0, <1>1, StatusFields
  <2>2. Quietly
    BY <1>1, <2>1 DEF Quietly
  <2>3. SpecInv' /\ (\A d \in Agent : Accounted(d, st))'
    BY <1>1, <2>2, QuietStep
  <2>4. LeakInv'
    BY <1>1, <2>3 DEF LeakInv
  <2>5. StepInv'
    <3>1. Advertised(dk)' = Advertised(dk)
      BY <1>1 DEF Advertised, ZoneUnknown
    <3> QED
      BY <1>1, <2>1, <3>1 DEF StepInv
  <2>6. MeshInv'
    <3> SUFFICES ASSUME Undisturbed' PROVE MeshInv'
      BY DEF MeshInv
    <3>1. Undisturbed /\ (dk.istio => entries["operator"] = EntriesFor({dk.api}))'
      BY <1>1, <2>2, QuietStep
    <3>2. GateDone
      BY <1>1 DEF GateDone
    <3>3. Agrees("activegate", tenant.activegate)'
      BY <2>1, <2>2, <3>1, <3>2, ActiveGateKept
    <3>4. ASSUME pc' = "write" PROVE Agrees("oneagent", Advertised(dk))'
      <4>1. PostponedNow("oneagent")'
        BY <1>1, <2>1, <3>4 DEF PostponedNow, IsPostponed, ZoneUnknown
      <4> QED
        BY <4>1 DEF Agrees
    <3> QED
      BY <1>1, <3>1, <3>3, <3>4 DEF MeshInv
  <2> QED
    BY <1>0, <2>3, <2>4, <2>5, <2>6 DEF Inv
<1>2. CASE /\ dk.oneAgent = "none"
           /\ Goes("oaConnection", "oaMesh") /\ st' = [st EXCEPT !.oneAgent = {}]
  BY <1>1, <1>2, GoesFacts
<1>3. CASE /\ dk.oneAgent # "none" /\ IsPostponed(dk, st)
           /\ Goes("oaConnection", "write") /\ st' = [st EXCEPT !.oneAgent = Advertised(dk)]
  BY <1>1, <1>3, GoesFacts
<1>4. CASE /\ Step("oaConnection", "oaMesh")
           /\ st' = [st EXCEPT !.oneAgent = Advertised(dk)]
           /\ UNCHANGED <<workload, unreachable, quiet, faults>>
  BY <1>1, <1>4 DEF Step
<1>5. CASE Fails("oaConnection", "write")
  BY <1>0, <1>5, FailsInv DEF Inv, Fails
<1> QED
  BY <1>2, <1>3, <1>4, <1>5 DEF ReconcileOneAgentConnection

(***************************************************************************)
(* The two ends of a reconcile.                                            *)
(***************************************************************************)

LEMMA BeginInv == ASSUME Inv, Begin PROVE Inv'
<1>0. TypeOK'
  BY ReconcileType DEF Inv
<1>1. /\ pc = "idle" /\ pc' = "api" /\ dk' = spec /\ st' = stored /\ ~edited' /\ ~unreachable'
      /\ UNCHANGED <<spec, tenant, entries, stored, quiet, leaked>>
  BY DEF Begin
<1>2. Forgotten \subseteq leaked
  BY <1>1 DEF Inv, LeakInv
<1>3. LeakInv'
  <2>1. (\A d \in Agent : Accounted(d, st))'
    BY <1>1, <1>2 DEF Accounted, Absent, Forgotten, Unknown
  <2>2. entries["activegate"] # NoEntry /\ Unknown(stored, "activegate") => "activegate" \in leaked
    BY <1>2, AgentFacts DEF Forgotten
  <2>3. Unknown(st, "activegate")' = Unknown(stored, "activegate")
    BY <1>1 DEF Unknown
  <2> QED
    BY <1>1, <2>1, <2>2, <2>3 DEF LeakInv
<1>4. SpecInv'
  BY <1>1 DEF SpecInv
<1>5. StepInv'
  BY <1>1 DEF StepInv
<1>6. MeshInv'
  BY <1>1 DEF MeshInv, GateDone
<1> QED
  BY <1>0, <1>3, <1>4, <1>5, <1>6 DEF Inv

LEMMA WriteInv == ASSUME Inv, Write PROVE Inv'
<1>0. TypeOK /\ TypeOK'
  BY ReconcileType DEF Inv
<1>1. /\ pc = "write" /\ pc' = "idle"
      /\ UNCHANGED <<spec, tenant, entries, dk, st, edited, unreachable>>
      /\ quiet' = IF quiet = 2 THEN 2 ELSE quiet + 1
  BY DEF Write
<1>2. CASE unreachable \/ edited
  <2>1. stored' = stored /\ leaked' = leaked \cup Forgotten
    BY <1>2 DEF Write
  <2>2. Forgotten' = Forgotten
    BY <1>1, <2>1 DEF Forgotten, Unknown
  <2>3. LeakInv'
    BY <1>1, <2>1, <2>2 DEF LeakInv
  <2>4. ~Undisturbed'
    <3>1. ~Undisturbed
      BY <1>1, <1>2 DEF Inv, SpecInv
    <3> QED
      BY <1>0, <1>1, <3>1 DEF Undisturbed, TypeOK
  <2> QED
    BY <1>0, <2>3, <2>4 DEF Inv, SpecInv, StepInv, MeshInv
<1>3. CASE ~unreachable /\ ~edited
  <2>1. /\ stored' = st
        /\ leaked' = {c \in Agent : /\ entries[c] # NoEntry /\ Unknown(st, c)
                                    /\ c \in leaked \/ st.conditions[ConditionOf[c]] # "absent"}
    BY <1>3 DEF Write
  <2>2. \A c \in Agent : Accounted(c, st)
    BY <1>1 DEF Inv, LeakInv
  <2>3. \A c \in Agent : Unknown(st, c)' = Unknown(st, c) /\ Unknown(stored, c)' = Unknown(st, c)
    BY <1>1, <2>1 DEF Unknown
  <2>4. Forgotten' \subseteq leaked'
    BY <1>1, <2>1, <2>2, <2>3 DEF Forgotten, Accounted, Absent
  <2>5. LeakInv'
    BY <1>1, <2>4 DEF LeakInv
  <2>6. Undisturbed' => Undisturbed
    BY <1>0, <1>1 DEF Undisturbed, TypeOK
  <2>7. SpecInv'
    BY <1>1, <2>1, <2>6 DEF Inv, SpecInv
  <2>8. StepInv'
    BY <1>1 DEF StepInv
  <2>9. MeshInv'
    <3> SUFFICES ASSUME Undisturbed' PROVE MeshInv'
      BY DEF MeshInv
    <3>1. /\ dk.istio => entries["operator"] = EntriesFor({dk.api})
          /\ Agrees("activegate", tenant.activegate)
          /\ Agrees("oneagent", Advertised(dk))
      BY <1>1, <2>6 DEF Inv, MeshInv, GateDone
    <3>2. ASSUME NEW c \in Agent PROVE Gone(c) => Gone(c)'
      BY <1>1, <2>1, <2>3 DEF Gone
    <3>3. ASSUME NEW c \in Agent, NEW hosts, Agrees(c, hosts) PROVE Agrees(c, hosts)'
      <4>1. PostponedNow(c)' = PostponedNow(c)
        BY <1>1 DEF PostponedNow, IsPostponed, ZoneUnknown
      <4> QED
        BY <1>1, <3>2, <3>3, <4>1 DEF Agrees
    <3>4. Advertised(dk)' = Advertised(dk)
      BY <1>1 DEF Advertised, ZoneUnknown
    <3>5. Agrees("activegate", tenant.activegate)'
      BY <1>1, <3>1, <3>3, AgentFacts DEF Agrees
    <3>6. Agrees("oneagent", Advertised(dk))'
      BY <3>1, <3>3, <3>4, AgentFacts DEF Agrees
    <3> QED
      BY <1>1, <3>1, <3>5, <3>6 DEF MeshInv
  <2> QED
    BY <1>0, <2>5, <2>7, <2>8, <2>9 DEF Inv
<1> QED
  BY <1>2, <1>3

(***************************************************************************)
(* The disturbances.                                                       *)
(***************************************************************************)

LEMMA EditSpecInv == ASSUME Inv, EditSpec PROVE Inv'
<1>1. spec'.gate = spec.gate /\ quiet' = 0 /\ UNCHANGED <<entries, stored, pc, st, leaked>>
  BY DEF EditSpec, Disturbed
<1>2. \A c \in Agent : Unknown(stored, c)' = Unknown(stored, c) /\ Unknown(st, c)' = Unknown(st, c)
  BY <1>1 DEF Unknown
<1>3. LeakInv'
  BY <1>1, <1>2, AgentFacts DEF Inv, LeakInv, Forgotten, Accounted, Absent
<1> QED
  BY <1>1, <1>3, NothingClaimed, DisturbanceType DEF Inv

LEMMA TenantChangesInv == ASSUME Inv, TenantChanges PROVE Inv'
<1>1. quiet' = 0 /\ UNCHANGED <<spec, entries, stored, pc, st, leaked>>
  BY DEF TenantChanges, Disturbed
<1>2. LeakInv'
  BY <1>1 DEF Inv, LeakInv, Forgotten, Accounted, Absent, Unknown
<1> QED
  BY <1>1, <1>2, NothingClaimed, DisturbanceType DEF Inv

LEMMA CrashInv == ASSUME Inv, Crash PROVE Inv'
<1>1. pc' = "idle" /\ quiet' = 0 /\ leaked' = leaked \cup Forgotten /\ UNCHANGED <<spec, entries, stored>>
  BY DEF Crash, Disturbed
<1>2. LeakInv'
  <2>1. Forgotten' = Forgotten
    BY <1>1 DEF Forgotten, Unknown
  <2> QED
    BY <1>1, <2>1 DEF LeakInv
<1> QED
  BY <1>1, <1>2, NothingClaimed, DisturbanceType DEF Inv

LEMMA InitInv == Init => Inv
<1> SUFFICES ASSUME Init PROVE Inv
  OBVIOUS
<1>1. pc = "idle" /\ quiet = 0
  BY DEF Init
<1>2. Forgotten \subseteq leaked
  <2>1. CASE entries = [c \in Component |-> NoEntry]
    BY <2>1, AgentFacts DEF Forgotten
  <2>2. CASE /\ entries = [c \in Component |-> IF c = "oneagent" THEN EntriesFor(tenant.oneagent) ELSE NoEntry]
             /\ leaked = {"oneagent"}
    BY <2>2, AgentFacts DEF Forgotten
  <2>3. \/ entries = [c \in Component |-> NoEntry]
        \/ /\ entries = [c \in Component |-> IF c = "oneagent" THEN EntriesFor(tenant.oneagent) ELSE NoEntry]
           /\ leaked = {"oneagent"}
    BY DEF Init
  <2> QED
    BY <2>1, <2>2, <2>3
<1>3. ~Undisturbed
  BY <1>1 DEF Undisturbed
<1> QED
  BY <1>1, <1>2, <1>3, InitType DEF Inv, LeakInv, SpecInv, StepInv, MeshInv

LEMMA NextInv == Inv /\ [Next]_vars => Inv'
<1> SUFFICES ASSUME Inv, [Next]_vars PROVE Inv'
  OBVIOUS
<1>1. CASE UNCHANGED vars
  BY <1>1 DEF vars, Inv, TypeOK, LeakInv, SpecInv, StepInv, MeshInv, Undisturbed, Forgotten, Accounted, Absent, Unknown,
              Agrees, Gone, GateDone, PostponedNow, IsPostponed, ZoneUnknown, Advertised
<1> QED
  BY <1>1, BeginInv, ReconcileAPIURLInv, SetupTokensAndClientInv, ReconcileActiveGateConnectionInv,
     ReconcileActiveGateInv, ReconcileActiveGateWorkloadInv, ReconcileKubemonConnectionInv, ReconcileKubemonInv,
     ReconcileOneAgentConnectionInv, ReconcileCodeModulesInv, WriteInv, EditSpecInv, TenantChangesInv, CrashInv
     DEF Next

LEMMA InvImpliesEntriesAgree == Inv => EntriesAgree
<1> SUFFICES ASSUME Inv, Settled PROVE /\ spec.istio => entries["operator"] = EntriesFor({spec.api})
                                       /\ \A c \in Agent :
                                             /\ IsNeeded(spec, c) /\ Parses(ExpectedHosts(c)) /\ ~Postponed(c) =>
                                                   entries[c] = EntriesFor(ExpectedHosts(c))
                                             /\ ~IsNeeded(spec, c) /\ c \notin leaked /\ ~Postponed(c) => entries[c] = NoEntry
  BY DEF EntriesAgree
<1>1. pc = "idle" /\ Undisturbed
  BY DEF Settled, Undisturbed
<1>2. dk = spec /\ st = stored
  BY <1>1 DEF Inv, SpecInv
<1>3. /\ dk.istio => entries["operator"] = EntriesFor({dk.api})
      /\ Agrees("activegate", tenant.activegate)
      /\ Agrees("oneagent", Advertised(dk))
  BY <1>1 DEF Inv, MeshInv, GateDone
<1>4. \A c \in Agent : Agrees(c, ExpectedHosts(c)) /\ (PostponedNow(c) => Postponed(c))
  BY <1>2, <1>3 DEF Agent, ExpectedHosts, PostponedNow, Postponed
<1> QED
  BY <1>2, <1>3, <1>4 DEF Agrees, Gone

\* Two undisturbed reconciles register the hosts that the tenant and the spec
\* name now and withdraw all others the status knows of, whatever happened
\* before: failed calls, lost answers, crashes, edits in mid-reconcile.
THEOREM EntriesFollowTheTenant == Spec => []EntriesAgree
<1> QED
  BY InitInv, NextInv, InvImpliesEntriesAgree, PTL DEF Spec

=============================================================================
