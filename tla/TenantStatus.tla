---------------------------- MODULE TenantStatus ----------------------------
(***************************************************************************)
(* What the status of a DynaKube says about its tenant: the versions of the *)
(* components, the scopes of the token, the monitored entity of the cluster *)
(* and the settings objects the operator creates for it.  A reconcile works *)
(* on a copy (st); requests are answered from a cache of responses or put   *)
(* off by the age of a condition, both for DynatraceAPIRequestThreshold.    *)
(* Tick lets that time pass; the tenant and the users change meanwhile.     *)
(***************************************************************************)
EXTENDS Naturals, FiniteSets

CONSTANTS
    Specs,        \* the specs a user may choose from
    Latest,       \* the versions the tenant may offer, \subseteq 1..2
    Scopes,       \* the optional scopes of the token that come and go
    MaxChanges,   \* bound on the changes of users and of the tenant
    MaxFaults     \* bound on failing requests, lost answers and crashes

Component == {"oneAgent", "activeGate", "codeModules"}

\* group: which of the two sides of the status a DynaKube is about; version 0 is none
ComponentSpec == [enabled : BOOLEAN, image : BOOLEAN, version : 0..2, updates : BOOLEAN]
DynaKubeSpec ==
    [group : {"versions", "settings"}, publicRegistry : BOOLEAN, platform : BOOLEAN, registration : BOOLEAN,
     monitoring : BOOLEAN, logMonitoring : BOOLEAN, rules : BOOLEAN,
     oneAgent : ComponentSpec, activeGate : ComponentSpec, codeModules : ComponentSpec]

ASSUME SpecsAssumption == Specs \subseteq DynaKubeSpec
ASSUME LatestAssumption == Latest # {} /\ Latest \subseteq 1..2
ASSUME ScopesAssumption == Scopes \subseteq {"settings.read", "settings.write"}
ASSUME BoundAssumption == MaxChanges \in Nat /\ MaxFaults \in Nat

VARIABLES
    spec,       \* the spec in the API server
    tenant,     \* what the tenant offers and stores
    workload,   \* the StatefulSet of the ActiveGate exists
    cache,      \* cached responses, by request
    stored,     \* the status in the API server
    pc,         \* the next request of the reconcile
    dk,         \* the spec it works on
    st,         \* the status it works on
    error,      \* the first error of it, as handleError will see it
    quiet,      \* history: reconciles since the threshold passed undisturbed, capped
    changes, faults

vars == <<spec, tenant, workload, cache, stored, pc, dk, st, error, quiet, changes, faults>>

Scope == {"settings.read", "settings.write"}
Setting == {"kspm", "logMonitoring"}
ConditionType == {"entity", "rules"} \cup Setting
Request == Component \cup {"images", "scopes"}

Custom == 3     \* the version "custom-image"
Source == {"none", "custom-image", "public-registry", "custom-version", "tenant-registry"}
VersionStatus == [image : {"none", "custom", "public", "tenant"}, version : 0..Custom, source : Source]
NoVersion == [image |-> "none", version |-> 0, source |-> "none"]
NoCondition == [status |-> "absent", reason |-> "none", recent |-> FALSE]
Condition == [status : {"absent", "True", "False"}, recent : BOOLEAN,
              reason : {"none", "Updated", "Outdated", "ScopeMissing", "Skipped", "Error"}]
NoReply == {"no reply"}

\* entity: none, made (the setting is there, the entity not yet), there
Tenant == [latest : 1..2, scopes : SUBSET Scope, entity : {"none", "made", "there"},
           settings : [Setting -> 0..2], rules : 1..2]
Status == [versions : [Component -> VersionStatus], scopes : SUBSET Scope, entity : BOOLEAN,
           rules : 0..2, conditions : [ConditionType -> Condition], statefulSet : BOOLEAN]
Step == <<"tokens", "entity", "connection", "refresh", "activeGate", "capability", "kspm", "kspmCreate",
          "logMonitoring", "logMonitoringCreate", "codeModules", "rules", "oneAgent", "write">>

TypeOK ==
    /\ spec \in Specs /\ dk \in Specs
    /\ tenant \in Tenant
    /\ workload \in BOOLEAN
    /\ stored \in Status /\ st \in Status
    /\ DOMAIN cache = Request
    /\ \A r \in Request \ {"scopes"} : cache[r] \in 0..2
    /\ cache["scopes"] \in (SUBSET Scope) \cup {NoReply}
    /\ pc \in {"idle"} \cup {Step[i] : i \in DOMAIN Step}
    /\ error \in {"none", "other", "failed", "unreachable"}
    /\ quiet \in 0..2
    /\ changes \in 0..MaxChanges /\ faults \in 0..MaxFaults

EmptyCache == [r \in Request |-> IF r = "scopes" THEN NoReply ELSE 0]
NoStatus == [versions |-> [c \in Component |-> NoVersion], scopes |-> {}, entity |-> FALSE, rules |-> 0,
             conditions |-> [t \in ConditionType |-> NoCondition], statefulSet |-> FALSE]

Init ==
    /\ spec \in Specs /\ dk = spec
    /\ LET settings == spec.group = "settings"
       IN  tenant \in [latest : IF settings THEN {1} ELSE Latest,
                       scopes : {Scope} \cup (IF settings THEN {Scope \ Scopes} ELSE {}),
                       entity : {"there"} \cup (IF settings THEN {"none"} ELSE {}),
                       settings : {[s \in Setting |-> 0]}, rules : {1}]
    /\ workload = FALSE /\ cache = EmptyCache
    /\ stored = NoStatus /\ st = NoStatus
    /\ pc = "idle" /\ error = "none" /\ quiet = 0
    /\ changes = 0 /\ faults = 0

-----------------------------------------------------------------------------
(* Versions: run, with the updater of each component *)

Enabled(c) == dk[c].enabled
\* OneAgents follow the tenant unless a version or an image is set; a feature flag stops ActiveGates
AutoUpdate(c) ==
    CASE c = "oneAgent"    -> dk[c].version = 0 /\ ~dk[c].image
      [] c = "activeGate"  -> dk[c].updates
      [] c = "codeModules" -> TRUE

DetermineSource(c) ==
    IF dk[c].image THEN "custom-image"
    ELSE IF dk.publicRegistry THEN "public-registry"
    ELSE IF dk[c].version # 0 THEN "custom-version" ELSE "tenant-registry"

HeldBackAnyway(c) == ~AutoUpdate(c) /\ DetermineSource(c) # "custom-version" /\ st.versions[c] # NoVersion
HeldBack(c) ==
    /\ ~AutoUpdate(c) /\ DetermineSource(c) # "custom-version"
    /\ st.versions[c] # NoVersion /\ st.versions[c].source = DetermineSource(c)

\* the request the updater makes, if any
RequestOf(c) ==
    IF HeldBack(c) \/ DetermineSource(c) \in {"custom-image", "custom-version"} THEN "none"
    ELSE IF dk.publicRegistry THEN "images" ELSE c

\* only OneAgents are checked, and only against a version of the tenant's registry
IsUpgrade(c, version) ==
    /\ c = "oneAgent" /\ st.versions[c].image # "none" /\ st.versions[c].source = "tenant-registry"
    /\ st.versions[c].version < version
IsDowngrade(c, version) ==
    /\ c = "oneAgent" /\ st.versions[c].image # "none" /\ st.versions[c].source = "tenant-registry"
    /\ version < st.versions[c].version

\* a refused downgrade keeps the version, and yet the source becomes the new one
Updated(c, latest) ==
    LET source  == DetermineSource(c)
        version == IF source = "custom-version" THEN dk[c].version ELSE latest
    IN  IF source = "custom-image" THEN [image |-> "custom", version |-> Custom, source |-> source]
        ELSE IF HeldBack(c) THEN st.versions[c]
        ELSE IF IsDowngrade(c, version) THEN [st.versions[c] EXCEPT !.source = source]
        ELSE [image |-> IF source = "public-registry" THEN "public"
                        ELSE IF c = "codeModules" THEN "none" ELSE "tenant",
              version |-> version, source |-> source]

-----------------------------------------------------------------------------
(* Requests, conditions and the end of a step *)

\* the first error that came from the tenant decides whether it counts as unreachable
Join(new) == IF error \in {"failed", "unreachable"} \/ new = "none" THEN error ELSE new

Fault == faults < MaxFaults /\ faults' = faults + 1 /\ quiet' = 0
NoFault == UNCHANGED <<faults, quiet>>
Failure == {"failed", "unreachable"}

\* a platform token counts as having every scope until a request is refused
Available(scope) == dk.platform \/ scope \in st.scopes
Granted(scope) == scope \in tenant.scopes

\* the time of a condition moves only when its status does
SetCondition(status, t, s, reason) ==
    LET old == status.conditions[t]
    IN  [status EXCEPT !.conditions[t] = [status |-> s, reason |-> reason,
                                          recent |-> old.recent \/ old.status # s]]
RemoveCondition(status, t) == [status EXCEPT !.conditions[t] = NoCondition]
ScopeMissing(status, t) == SetCondition(status, t, "False", "ScopeMissing")

IsIncomplete(t) ==
    LET c == st.conditions[t] IN c.status = "absent" \/ (c.status = "False" /\ c.reason # "ScopeMissing")
IsOutdated(t) ==
    LET c == st.conditions[t]
    IN  c.status = "absent" \/ (c.status = "False" /\ c.reason # "ScopeMissing") \/ ~c.recent

Go(next, status, err) == pc' = next /\ st' = status /\ error' = Join(err)
Unchanged == UNCHANGED <<spec, workload, stored, dk, changes>>

-----------------------------------------------------------------------------
(* A reconcile, one request to the tenant at a time *)

Begin ==
    /\ pc = "idle"
    /\ pc' = "tokens" /\ dk' = spec /\ st' = stored /\ error' = "none"
    /\ UNCHANGED <<spec, tenant, workload, cache, stored, quiet, changes, faults>>

\* the optional scopes that some enabled feature asks for
OptionalScopes ==
    (IF dk.registration \/ dk.logMonitoring THEN Scope ELSE {})
        \cup (IF dk.codeModules.enabled \/ dk.rules THEN {"settings.read"} ELSE {})

VerifyTokens ==
    /\ pc = "tokens"
    /\ \/ /\ dk.platform
          /\ Go("entity", [st EXCEPT !.scopes = {}], "none")
          /\ UNCHANGED cache /\ NoFault
       \/ /\ ~dk.platform
          /\ LET scopes == IF cache["scopes"] = NoReply THEN tenant.scopes ELSE cache["scopes"]
             IN  /\ Go("entity", [st EXCEPT !.scopes = scopes \cap OptionalScopes], "none")
                 /\ cache' = [cache EXCEPT !["scopes"] = scopes]
          /\ NoFault
       \/ /\ ~dk.platform /\ cache["scopes"] = NoReply
          /\ \E e \in Failure : Go("write", st, e)
          /\ UNCHANGED cache /\ Fault
    /\ UNCHANGED tenant /\ Unchanged

\* the entity is asked for unless its condition is recent; a missing scope ends the reconciler
ReconcileEntity ==
    /\ pc = "entity"
    /\ LET asked == SetCondition(st, "entity", "False", "Outdated")
           there == tenant.entity = "there"
           answer == IF there THEN SetCondition([asked EXCEPT !.entity = TRUE], "entity", "True", "Updated")
                     ELSE [asked EXCEPT !.entity = FALSE]
       IN  \/ /\ ~Available("settings.read")
              /\ Go("activeGate", ScopeMissing(st, "entity"), "none") /\ NoFault
           \/ /\ Available("settings.read") /\ ~IsOutdated("entity")
              /\ Go("connection", st, "none") /\ NoFault
           \/ /\ Available("settings.read") /\ IsOutdated("entity")
              /\ \/ ~Granted("settings.read") /\ Go("activeGate", ScopeMissing(asked, "entity"), "none") /\ NoFault
                 \/ Granted("settings.read") /\ Go("connection", answer, "none") /\ NoFault
                 \/ (\E e \in Failure : Go("activeGate", asked, e)) /\ Fault
    /\ UNCHANGED <<tenant, cache>> /\ Unchanged

\* createK8sConnectionSettingIfAbsent; the entity is made by the tenant in its own time
MakeEntity == tenant' = [tenant EXCEPT !.entity = IF @ = "none" THEN "made" ELSE @]
RegistersCluster == dk.registration /\ Available("settings.write") /\ ~st.entity

CreateConnection ==
    /\ pc = "connection"
    /\ \/ ~RegistersCluster /\ Go("activeGate", st, "none") /\ UNCHANGED tenant /\ NoFault
       \/ /\ RegistersCluster
          /\ \/ ~Granted("settings.write") /\ Go("activeGate", ScopeMissing(st, "entity"), "none")
                /\ UNCHANGED tenant /\ NoFault
             \/ Granted("settings.write") /\ Go("refresh", st, "none") /\ MakeEntity /\ NoFault
             \/ /\ \E e \in Failure : Go("activeGate", st, e)
                /\ \/ UNCHANGED tenant
                   \/ Granted("settings.write") /\ MakeEntity
                /\ Fault
    /\ UNCHANGED cache /\ Unchanged

RefreshEntity ==
    /\ pc = "refresh"
    /\ \/ /\ tenant.entity = "there" /\ Granted("settings.read")
          /\ Go("activeGate", SetCondition([st EXCEPT !.entity = TRUE], "entity", "True", "Updated"), "none") /\ NoFault
       \/ tenant.entity # "there" /\ Go("activeGate", st, "other") /\ NoFault
       \/ ~Granted("settings.read") /\ Go("activeGate", st, "failed") /\ NoFault
       \/ (\E e \in Failure : Go("activeGate", st, e)) /\ Fault
    /\ UNCHANGED <<tenant, cache>> /\ Unchanged

Failed(c, ok, err, e) ==
    IF st.versions[c].image = "none" /\ st.versions[c].version = 0 THEN Go(err, st, e) ELSE Go(ok, st, "none")
UpdateVersion(c, ok, err) ==
    LET r == RequestOf(c)
        latest == IF r # "none" /\ cache[r] # 0 THEN cache[r] ELSE tenant.latest
        set(v) == [st EXCEPT !.versions[c] = v]
    IN  \/ ~Enabled(c) /\ Go(ok, set(NoVersion), "none") /\ UNCHANGED cache /\ NoFault
        \/ /\ Enabled(c)
           /\ Go(ok, set(Updated(c, latest)), "none")
           /\ cache' = IF r = "none" THEN cache ELSE [cache EXCEPT ![r] = latest]
           /\ NoFault
        \/ /\ Enabled(c) /\ r # "none" /\ cache[r] = 0
           /\ \E e \in Failure : Failed(c, ok, err, e)
           /\ UNCHANGED cache /\ Fault

\* connection information and config maps come before the version
ReconcileActiveGate ==
    /\ pc = "activeGate"
    /\ \/ ~Enabled("activeGate") /\ ~st.statefulSet /\ Go("kspm", st, "none") /\ UNCHANGED cache /\ NoFault
       \/ (Enabled("activeGate") \/ st.statefulSet) /\ UpdateVersion("activeGate", "capability", "kspm")
       \/ /\ Enabled("activeGate") \/ st.statefulSet
          /\ (\E e \in Failure : Go("kspm", st, e)) /\ UNCHANGED cache /\ Fault
    /\ UNCHANGED tenant /\ Unchanged

\* The pull secret, the token, the service and last the StatefulSet.  Its condition is set when
\* it is created or changed and when that fails, and left as it is when there is nothing to do.
ReconcileCapability ==
    /\ pc = "capability"
    /\ LET wanted == Enabled("activeGate")
           known(b) == [st EXCEPT !.statefulSet = b]
       IN  \/ /\ wanted /\ workload' = TRUE /\ NoFault
              /\ \E b \in {~workload \/ st.statefulSet, TRUE} : Go("kspm", known(b), "none")
           \/ ~wanted /\ workload' = FALSE /\ Go("kspm", known(FALSE), "none") /\ NoFault
           \/ /\ workload' \in {workload, wanted} /\ Fault
              /\ \E b \in {st.statefulSet, wanted \/ st.statefulSet}, e \in Failure : Go("kspm", known(b), e)
    /\ UNCHANGED <<spec, tenant, cache, stored, dk, changes>>

\* the settings of KSPM and of log monitoring: looked for, then created
SettingEnabled(s) == IF s = "kspm" THEN dk.monitoring ELSE dk.logMonitoring
CreateStep(s) == IF s = "kspm" THEN "kspmCreate" ELSE "logMonitoringCreate"
After(s) == IF s = "kspm" THEN "logMonitoring" ELSE "codeModules"

\* only a platform token is blamed for a refused request
Refused(s, status) == IF dk.platform THEN ScopeMissing(status, s)
                      ELSE IF s = "logMonitoring" THEN SetCondition(status, s, "False", "Error") ELSE status
Found(s) == tenant.settings[s] > 0
Exists(s, status) == SetCondition(status, s, "True", "Updated")

ReconcileSetting(s) ==
    /\ pc = s
    /\ LET fresh == RemoveCondition(st, s)
           scoped == Available("settings.read") /\ Available("settings.write")
           asks == SettingEnabled(s) /\ IsOutdated(s) /\ scoped /\ st.entity
       IN  \/ ~SettingEnabled(s) /\ Go(After(s), fresh, "none") /\ NoFault
           \/ SettingEnabled(s) /\ ~IsOutdated(s) /\ Go(After(s), st, "none") /\ NoFault
           \/ SettingEnabled(s) /\ IsOutdated(s) /\ ~scoped /\ Go(After(s), ScopeMissing(fresh, s), "none") /\ NoFault
           \/ /\ SettingEnabled(s) /\ IsOutdated(s) /\ scoped /\ ~st.entity
              /\ Go(After(s), SetCondition(fresh, s, "False", "Skipped"), "none") /\ NoFault
           \/ asks /\ ~Granted("settings.read") /\ Go(After(s), Refused(s, fresh), "none") /\ NoFault
           \/ /\ asks /\ Granted("settings.read") /\ NoFault
              /\ IF Found(s) THEN Go(After(s), Exists(s, fresh), "none")
                                           ELSE Go(CreateStep(s), fresh, "none")
           \/ asks /\ (\E e \in Failure : Go(After(s), SetCondition(fresh, s, "False", "Error"), e)) /\ Fault
           \/ (\E e \in Failure : Go(After(s), st, e)) /\ Fault     \* an earlier step of the reconciler
           \/ s = "logMonitoring" /\ Go("write", st, "none") /\ Fault   \* communication endpoints are missing
    /\ UNCHANGED <<tenant, cache>> /\ Unchanged

CreateSetting(s) ==
    /\ pc = CreateStep(s)
    /\ LET created == tenant' = [tenant EXCEPT !.settings[s] = @ + 1]
       IN  \/ ~Granted("settings.write") /\ Go(After(s), Refused(s, st), "none") /\ UNCHANGED tenant /\ NoFault
           \/ Granted("settings.write") /\ Go(After(s), Exists(s, st), "none") /\ created /\ NoFault
           \/ /\ \E e \in Failure : Go(After(s), SetCondition(st, s, "False", "Error"), e)
              /\ (UNCHANGED tenant) \/ (Granted("settings.write") /\ created)
              /\ Fault
    /\ UNCHANGED cache /\ Unchanged

\* the injection: the version of the code modules, then the rules whatever came of it
ReconcileCodeModules ==
    /\ pc = "codeModules" /\ UpdateVersion("codeModules", "rules", "rules")
    /\ UNCHANGED tenant /\ Unchanged

ReconcileRules ==
    /\ pc = "rules"
    /\ LET asked == SetCondition(st, "rules", "False", "Outdated")
           needed == dk.rules \/ dk.codeModules.enabled
           asks == needed /\ IsOutdated("rules") /\ Available("settings.read")
       IN  \/ ~needed /\ Go("oneAgent", RemoveCondition([st EXCEPT !.rules = 0], "rules"), "none") /\ NoFault
           \/ needed /\ ~IsOutdated("rules") /\ Go("oneAgent", st, "none") /\ NoFault
           \/ /\ needed /\ IsOutdated("rules") /\ ~Available("settings.read")
              /\ Go("oneAgent", ScopeMissing(asked, "rules"), "none") /\ NoFault
           \/ asks /\ ~Granted("settings.read") /\ Go("oneAgent", ScopeMissing(asked, "rules"), "none") /\ NoFault
           \/ /\ asks /\ Granted("settings.read") /\ NoFault
              /\ Go("oneAgent", SetCondition([asked EXCEPT !.rules = tenant.rules], "rules", "True", "Updated"), "none")
           \/ asks /\ (\E e \in Failure : Go("oneAgent", SetCondition(asked, "rules", "False", "Error"), e)) /\ Fault
    /\ UNCHANGED <<tenant, cache>> /\ Unchanged

ReconcileOneAgent ==
    /\ pc = "oneAgent" /\ UpdateVersion("oneAgent", "write", "write")
    /\ UNCHANGED tenant /\ Unchanged

\* handleError: nothing is written when the tenant is unreachable, or after a conflict
WriteStatus ==
    /\ pc = "write" /\ pc' = "idle" /\ st' = NoStatus /\ error' = "none" /\ dk' = spec
    /\ \/ /\ error # "unreachable" /\ spec = dk /\ stored' = st
          /\ quiet' = IF quiet \in {1, 2} /\ error = "none" THEN 2 ELSE quiet
          /\ UNCHANGED faults
       \/ (error = "unreachable" \/ spec # dk) /\ UNCHANGED <<stored, faults, quiet>>
       \/ UNCHANGED stored /\ Fault
    /\ UNCHANGED <<spec, tenant, workload, cache, changes>>

Crash ==
    /\ pc # "idle" /\ Fault
    /\ pc' = "idle" /\ st' = NoStatus /\ error' = "none" /\ dk' = spec /\ cache' = EmptyCache
    /\ UNCHANGED <<spec, tenant, workload, stored, changes>>

-----------------------------------------------------------------------------
(* Users, the tenant and time *)

Change == changes < MaxChanges /\ changes' = changes + 1 /\ quiet' = 0

EditSpec ==
    /\ Change /\ \E s \in Specs \ {spec} : s.group = spec.group /\ spec' = s
    /\ dk' = IF pc = "idle" THEN spec' ELSE dk
    /\ UNCHANGED <<tenant, workload, cache, stored, pc, st, error, faults>>

TenantChanges ==
    /\ Change
    /\ \/ \E v \in Latest \ {tenant.latest} : spec.group = "versions" /\ tenant' = [tenant EXCEPT !.latest = v]
       \/ /\ spec.group = "settings"
          /\ \/ \E s \in Scopes : tenant' = [tenant EXCEPT !.scopes = IF s \in @ THEN @ \ {s} ELSE @ \cup {s}]
             \/ tenant.entity = "there" /\ tenant' = [tenant EXCEPT !.entity = "none"]
             \/ \E s \in Setting : tenant.settings[s] > 0 /\ tenant' = [tenant EXCEPT !.settings[s] = 0]
             \/ tenant' = [tenant EXCEPT !.rules = 3 - @]
    /\ UNCHANGED <<spec, workload, cache, stored, pc, dk, st, error, faults>>

EntityAppears ==
    /\ tenant.entity = "made" /\ tenant' = [tenant EXCEPT !.entity = "there"] /\ quiet' = 0
    /\ UNCHANGED <<spec, workload, cache, stored, pc, dk, st, error, changes, faults>>

\* DynatraceAPIRequestThreshold passes while nothing is reconciled
Tick ==
    /\ pc = "idle"
    /\ cache' = EmptyCache
    /\ stored' = [stored EXCEPT !.conditions = [t \in ConditionType |-> [stored.conditions[t] EXCEPT !.recent = FALSE]]]
    /\ quiet' = IF quiet = 0 THEN 1 ELSE quiet
    /\ UNCHANGED <<spec, tenant, workload, pc, dk, st, error, changes, faults>>

Next ==
    \/ Begin \/ VerifyTokens \/ ReconcileEntity \/ CreateConnection \/ RefreshEntity
    \/ ReconcileActiveGate \/ ReconcileCapability
    \/ \E s \in Setting : ReconcileSetting(s) \/ CreateSetting(s)
    \/ ReconcileCodeModules \/ ReconcileRules \/ ReconcileOneAgent \/ WriteStatus \/ Crash
    \/ EditSpec \/ TenantChanges \/ EntityAppears \/ Tick

Spec == Init /\ [][Next]_vars

-----------------------------------------------------------------------------
(* Properties *)

\* Settled: the threshold has passed and a whole reconcile found nobody changing anything.
Settled == pc = "idle" /\ quiet = 2

\* Once settled, an enabled component has the source and the version that its
\* spec and the tenant ask for, and a disabled one has none; what is excepted is a
\* version that automatic updates must not move, a refused downgrade of OneAgents
\* (run, isDowngrade, version/updater.go:35), and the version of a disabled ActiveGate
\* without a condition of its StatefulSet, which nothing looks at any more.
WantedVersion(c) ==
    CASE DetermineSource(c) = "custom-image"   -> Custom
      [] DetermineSource(c) = "custom-version" -> spec[c].version
      [] OTHER                                 -> tenant.latest
VersionsFollowSpec ==
    Settled => \A c \in Component :
        LET v == stored.versions[c]
        IN  IF spec[c].enabled
            THEN /\ v.source = DetermineSource(c)
                 /\ \/ v.version = WantedVersion(c)
                    \/ ~AutoUpdate(c) /\ DetermineSource(c) # "custom-version"
                    \/ c = "oneAgent" /\ v.version > WantedVersion(c)
            ELSE v = NoVersion \/ (c = "activeGate" /\ ~stored.statefulSet)

\* OneAgents that follow the tenant's registry are never downgraded
\* (CheckForDowngrade, version/oneagent.go).
NoDowngrade ==
    [][LET old == stored.versions["oneAgent"]
           new == stored'.versions["oneAgent"]
       IN  old.source = "tenant-registry" /\ new.source = "tenant-registry" => new.version >= old.version]_vars

\* Once settled, the entity and the rules are the tenant's, and every feature that has
\* the scopes and an entity to attach it to has its settings object: no request is put
\* off for ever by the condition of an earlier one (IsOutdated, k8sconditions/time.go:15),
\* and no lost answer, crash or cached answer makes a second object.
MayRead == "settings.read" \in tenant.scopes /\ (dk.platform \/ "settings.read" \in OptionalScopes)
MayWrite == "settings.write" \in tenant.scopes /\ (dk.platform \/ "settings.write" \in OptionalScopes)
SettingsAreCurrent ==
    Settled /\ MayRead =>
        /\ stored.entity = (tenant.entity = "there")
        /\ dk.rules \/ dk.codeModules.enabled => stored.rules = tenant.rules
        /\ dk.registration /\ MayWrite => stored.entity
        /\ MayWrite /\ stored.entity => \A s \in Setting : SettingEnabled(s) => tenant.settings[s] = 1

=============================================================================
