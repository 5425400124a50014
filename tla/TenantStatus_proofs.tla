-------------------------- MODULE TenantStatus_proofs --------------------------
(***************************************************************************)
(* Proofs about the status of the tenant, for any set of specs, any        *)
(* versions the tenant may offer, any scopes that come and go, and any     *)
(* number of changes and faults.                                           *)
(***************************************************************************)
EXTENDS TenantStatus, TLAPS

USE SpecsAssumption, LatestAssumption, ScopesAssumption, BoundAssumption

(***************************************************************************)
(* Types, and what the helpers do to a status.                             *)
(***************************************************************************)

Steps == {Step[i] : i \in DOMAIN Step}

\* The steps of a reconcile by their names.
LEMMA StepNames ==
    Steps = {"tokens", "entity", "connection", "refresh", "activeGate", "capability", "kspm", "kspmCreate",
             "logMonitoring", "logMonitoringCreate", "codeModules", "rules", "oneAgent", "write"}
<1>1. DOMAIN Step = 1..14
  BY DEF Step
<1>2. Steps = {Step[i] : i \in 1..14}
  BY <1>1 DEF Steps
<1> QED BY <1>2 DEF Step

\* What a spec says of a component.
LEMMA ComponentSpecs ==
    ASSUME NEW d \in Specs, NEW c \in Component
    PROVE  d[c].enabled \in BOOLEAN /\ d[c].image \in BOOLEAN /\ d[c].version \in 0..2 /\ d[c].updates \in BOOLEAN
<1>1. d \in DynaKubeSpec
  OBVIOUS
<1>2. d.oneAgent \in ComponentSpec /\ d.activeGate \in ComponentSpec /\ d.codeModules \in ComponentSpec
  BY <1>1 DEF DynaKubeSpec
<1>3. d[c] \in ComponentSpec
  BY <1>2 DEF Component
<1> QED BY <1>3 DEF ComponentSpec

LEMMA SpecFlags ==
    ASSUME NEW d \in Specs
    PROVE  d.publicRegistry \in BOOLEAN /\ d.platform \in BOOLEAN /\ d.registration \in BOOLEAN /\ d.monitoring \in BOOLEAN
           /\ d.logMonitoring \in BOOLEAN /\ d.rules \in BOOLEAN
  BY DEF DynaKubeSpec

Reason == {"none", "Updated", "Outdated", "ScopeMissing", "Skipped", "Error"}

\* y is x, but perhaps for the condition t
OnlyCondition(x, y, t) ==
    /\ y \in Status
    /\ y.versions = x.versions /\ y.scopes = x.scopes /\ y.entity = x.entity /\ y.rules = x.rules
    /\ y.statefulSet = x.statefulSet
    /\ \A u \in ConditionType \ {t} : y.conditions[u] = x.conditions[u]

\* A condition is set without anything else, and keeps its time while its status stays.
LEMMA SetConditionFields ==
    ASSUME NEW x \in Status, NEW t \in ConditionType, NEW s \in {"True", "False"}, NEW reason \in Reason
    PROVE  LET y == SetCondition(x, t, s, reason)
           IN  /\ OnlyCondition(x, y, t)
               /\ y.conditions[t].status = s /\ y.conditions[t].reason = reason
               /\ y.conditions[t].recent = (x.conditions[t].recent \/ x.conditions[t].status # s)
<1> DEFINE c == [status |-> s, reason |-> reason, recent |-> x.conditions[t].recent \/ x.conditions[t].status # s]
<1>1. x.conditions \in [ConditionType -> Condition]
  BY DEF Status
<1>2. x.conditions[t] \in Condition
  BY <1>1
<1>3. x.conditions[t].recent \in BOOLEAN
  BY <1>2 DEF Condition
<1>4. c \in Condition
  BY <1>3 DEF Condition, Reason
<1> HIDE DEF c
<1>5. [x.conditions EXCEPT ![t] = c] \in [ConditionType -> Condition]
  BY <1>1, <1>4
<1>6. SetCondition(x, t, s, reason) = [x EXCEPT !.conditions[t] = c]
  BY DEF SetCondition, c
<1>7. OnlyCondition(x, [x EXCEPT !.conditions[t] = c], t)
  BY <1>1, <1>5 DEF OnlyCondition, Status
<1>8. [x EXCEPT !.conditions[t] = c].conditions[t] = c
  BY <1>1 DEF Status
<1> QED BY <1>6, <1>7, <1>8 DEF c

LEMMA RemoveConditionFields ==
    ASSUME NEW x \in Status, NEW t \in ConditionType
    PROVE  LET y == RemoveCondition(x, t) IN OnlyCondition(x, y, t) /\ y.conditions[t] = NoCondition
<1>1. x.conditions \in [ConditionType -> Condition]
  BY DEF Status
<1>2. NoCondition \in Condition
  BY DEF NoCondition, Condition
<1>3. [x.conditions EXCEPT ![t] = NoCondition] \in [ConditionType -> Condition]
  BY <1>1, <1>2
<1>4. OnlyCondition(x, [x EXCEPT !.conditions[t] = NoCondition], t)
  BY <1>1, <1>3 DEF OnlyCondition, Status
<1>5. [x EXCEPT !.conditions[t] = NoCondition].conditions[t] = NoCondition
  BY <1>1 DEF Status
<1> QED BY <1>4, <1>5 DEF RemoveCondition

\* The other fields are set one at a time.
LEMMA SetFields ==
    ASSUME NEW x \in Status
    PROVE  /\ \A v \in SUBSET Scope : [x EXCEPT !.scopes = v] \in Status
           /\ \A b \in BOOLEAN : [x EXCEPT !.entity = b] \in Status /\ [x EXCEPT !.statefulSet = b] \in Status
           /\ \A n \in 0..2 : [x EXCEPT !.rules = n] \in Status
  BY DEF Status

LEMMA SetVersion ==
    ASSUME NEW x \in Status, NEW c \in Component, NEW v \in VersionStatus
    PROVE  LET y == [x EXCEPT !.versions[c] = v]
           IN  /\ y \in Status /\ y.scopes = x.scopes /\ y.entity = x.entity /\ y.rules = x.rules
               /\ y.conditions = x.conditions /\ y.statefulSet = x.statefulSet
               /\ y.versions[c] = v /\ \A d \in Component \ {c} : y.versions[d] = x.versions[d]
<1>1. x.versions \in [Component -> VersionStatus]
  BY DEF Status
<1>2. [x.versions EXCEPT ![c] = v] \in [Component -> VersionStatus]
  BY <1>1
<1> QED BY <1>1, <1>2 DEF Status

\* What an updater finds is a version.
LEMMA UpdatedType ==
    ASSUME TypeOK, NEW c \in Component, NEW latest \in 1..2
    PROVE  Updated(c, latest) \in VersionStatus
<1>1. st.versions[c] \in VersionStatus
  BY DEF TypeOK, Status
<1>2. dk[c].version \in 0..2
  BY ComponentSpecs DEF TypeOK
<1>3. DetermineSource(c) \in Source
  BY DEF DetermineSource, Source
<1>4. [st.versions[c] EXCEPT !.source = DetermineSource(c)] \in VersionStatus
  BY <1>1, <1>3 DEF VersionStatus
<1>5. \A i \in {"none", "public", "tenant", "custom"}, n \in 0..Custom :
         [image |-> i, version |-> n, source |-> DetermineSource(c)] \in VersionStatus
  BY <1>3 DEF VersionStatus
<1>6. latest \in 0..Custom /\ dk[c].version \in 0..Custom /\ Custom \in 0..Custom
  BY <1>2 DEF Custom
<1> QED BY <1>1, <1>4, <1>5, <1>6 DEF Updated

(***************************************************************************)
(* What each step of a reconcile does.                                     *)
(***************************************************************************)

Errors == {"none", "other"} \cup Failure

\* the reconcile goes on with another status; an error stays
Walk ==
    /\ UNCHANGED <<spec, stored, dk, changes>>
    /\ pc' \in Steps /\ st' \in Status /\ error' \in Errors
    /\ error # "none" => error' # "none"
    /\ NoFault \/ Fault

\* nothing of the status moves but what belongs to the condition
Keeps(x, y) == y.versions = x.versions /\ y.scopes = x.scopes /\ y.statefulSet = x.statefulSet
KeepsConditions(x, y, t) == \A u \in ConditionType \ {t} : y.conditions[u] = x.conditions[u]
SameRest(x, y, t) == Keeps(x, y) /\ KeepsConditions(x, y, t)

LEMMA GoFields ==
    ASSUME TypeOK, NEW next \in Steps, NEW x \in Status, NEW e \in Errors, Go(next, x, e)
    PROVE  pc' = next /\ pc' \in Steps /\ st' = x /\ st' \in Status /\ error' \in Errors /\ (error # "none" => error' # "none")
           /\ (e # "none" => error' # "none")
<1>1. error \in Errors
  BY DEF TypeOK, Errors, Failure
<1>2. pc' = next /\ st' = x /\ error' = IF error \in {"failed", "unreachable"} \/ e = "none" THEN error ELSE e
  BY DEF Go, Join
<1> QED BY <1>1, <1>2

LEMMA VerifyTokensFields ==
    ASSUME TypeOK, VerifyTokens
    PROVE  /\ Walk /\ UNCHANGED tenant /\ pc = "tokens"
           /\ st'.versions = st.versions /\ st'.entity = st.entity /\ st'.rules = st.rules /\ st'.conditions = st.conditions
           /\ st'.statefulSet = st.statefulSet
           /\ \A r \in Request \ {"scopes"} : cache'[r] = cache[r]
           /\ DOMAIN cache' = Request /\ cache'["scopes"] \in (SUBSET Scope) \cup {NoReply}
           /\ \/ Fault
              \/ /\ NoFault /\ pc' = "entity"
                 /\ dk.platform => st'.scopes = {} /\ cache' = cache
                 /\ ~dk.platform =>
                      LET scopes == IF cache["scopes"] = NoReply THEN tenant.scopes ELSE cache["scopes"]
                      IN  st'.scopes = scopes \cap OptionalScopes /\ cache'["scopes"] = scopes
<1>1. st \in Status /\ DOMAIN cache = Request /\ cache["scopes"] \in (SUBSET Scope) \cup {NoReply} /\ tenant.scopes \in SUBSET Scope
  BY DEF TypeOK, Tenant
<1>2. "entity" \in Steps /\ "write" \in Steps /\ "scopes" \in Request /\ Failure \subseteq Errors /\ "none" \in Errors
  BY StepNames DEF Request, Errors
<1>3. OptionalScopes \subseteq Scope
  BY DEF OptionalScopes, Scope
<1>4. UNCHANGED <<spec, stored, dk, changes, tenant>> /\ pc = "tokens"
  BY DEF VerifyTokens, Unchanged
<1>5. CASE dk.platform /\ Go("entity", [st EXCEPT !.scopes = {}], "none") /\ UNCHANGED cache /\ NoFault
  <2>1. [st EXCEPT !.scopes = {}] \in Status
    BY <1>1, SetFields
  <2>2. pc' = "entity" /\ st' = [st EXCEPT !.scopes = {}] /\ Walk
    BY <1>2, <1>4, <1>5, <2>1, GoFields DEF Walk
  <2> QED BY <1>1, <1>4, <1>5, <2>2 DEF Status
<1>6. CASE /\ ~dk.platform
           /\ LET scopes == IF cache["scopes"] = NoReply THEN tenant.scopes ELSE cache["scopes"]
              IN  /\ Go("entity", [st EXCEPT !.scopes = scopes \cap OptionalScopes], "none")
                  /\ cache' = [cache EXCEPT !["scopes"] = scopes]
           /\ NoFault
  <2> DEFINE scopes == IF cache["scopes"] = NoReply THEN tenant.scopes ELSE cache["scopes"]
  <2>1. scopes \in SUBSET Scope
    BY <1>1
  <2> HIDE DEF scopes
  <2>2. scopes \cap OptionalScopes \in SUBSET Scope
    BY <2>1
  <2>3. [st EXCEPT !.scopes = scopes \cap OptionalScopes] \in Status
    BY <1>1, <2>2, SetFields
  <2>4. Go("entity", [st EXCEPT !.scopes = scopes \cap OptionalScopes], "none") /\ cache' = [cache EXCEPT !["scopes"] = scopes]
    BY <1>6 DEF scopes
  <2>5. pc' = "entity" /\ st' = [st EXCEPT !.scopes = scopes \cap OptionalScopes] /\ Walk
    BY <1>2, <1>4, <1>6, <2>3, <2>4, GoFields DEF Walk
  <2>6. st'.scopes = scopes \cap OptionalScopes /\ st'.versions = st.versions /\ st'.entity = st.entity /\ st'.rules = st.rules
        /\ st'.conditions = st.conditions /\ st'.statefulSet = st.statefulSet
    BY <1>1, <2>5 DEF Status
  <2>7. DOMAIN cache' = Request /\ cache'["scopes"] = scopes /\ \A r \in Request \ {"scopes"} : cache'[r] = cache[r]
    BY <1>1, <1>2, <2>4
  <2> QED BY <1>4, <1>6, <2>1, <2>5, <2>6, <2>7 DEF scopes
<1>7. CASE ~dk.platform /\ (\E e \in Failure : Go("write", st, e)) /\ UNCHANGED cache /\ Fault
  <2>1. st' = st /\ Walk
    BY <1>1, <1>2, <1>4, <1>7, GoFields DEF Walk
  <2> QED BY <1>1, <1>4, <1>7, <2>1
<1> QED BY <1>5, <1>6, <1>7 DEF VerifyTokens

LEMMA ReconcileEntityFields ==
    ASSUME TypeOK, ReconcileEntity
    PROVE  /\ Walk /\ UNCHANGED <<tenant, cache>> /\ pc = "entity" /\ pc' \in {"connection", "activeGate"}
           /\ SameRest(st, st', "entity") /\ st'.rules = st.rules
           /\ \/ Fault
              \/ NoFault /\ (~Available("settings.read") \/ ~Granted("settings.read"))
              \/ NoFault /\ pc' = "connection" /\ st' = st /\ ~IsOutdated("entity")
              \/ NoFault /\ pc' = "connection" /\ st'.entity = (tenant.entity = "there")
<1> DEFINE asked == SetCondition(st, "entity", "False", "Outdated")
           there == tenant.entity = "there"
           found == SetCondition([asked EXCEPT !.entity = TRUE], "entity", "True", "Updated")
           gone == [asked EXCEPT !.entity = FALSE]
           answer == IF there THEN found ELSE gone
<1>1. st \in Status /\ "entity" \in ConditionType /\ {"connection", "activeGate"} \subseteq Steps /\ Failure \cup {"none"} \subseteq Errors
  BY StepNames DEF TypeOK, ConditionType, Errors
<1>2. UNCHANGED <<spec, stored, dk, changes, tenant, cache>> /\ pc = "entity"
  BY DEF ReconcileEntity, Unchanged
<1>3. OnlyCondition(st, asked, "entity")
  BY <1>1, SetConditionFields DEF Reason
<1>4. OnlyCondition(st, ScopeMissing(st, "entity"), "entity")
  BY <1>1, SetConditionFields DEF Reason, ScopeMissing
<1>5. asked \in Status
  BY <1>3 DEF OnlyCondition
<1> HIDE DEF asked
<1>6. OnlyCondition(asked, ScopeMissing(asked, "entity"), "entity")
  BY <1>1, <1>5, SetConditionFields DEF Reason, ScopeMissing
<1>7. [asked EXCEPT !.entity = TRUE] \in Status /\ gone \in Status
  BY <1>5, SetFields
<1>8. OnlyCondition([asked EXCEPT !.entity = TRUE], found, "entity")
  BY <1>1, <1>7, SetConditionFields DEF Reason
<1>9. SameRest(st, asked, "entity") /\ asked.rules = st.rules
  BY <1>3 DEF OnlyCondition, SameRest, Keeps, KeepsConditions
<1>10. SameRest(st, gone, "entity") /\ gone.rules = st.rules /\ gone.entity = FALSE
  BY <1>5, <1>9 DEF SameRest, Keeps, KeepsConditions, Status
<1>11. SameRest(st, found, "entity") /\ found.rules = st.rules /\ found.entity = TRUE /\ found \in Status
  <2>1. [asked EXCEPT !.entity = TRUE].versions = asked.versions /\ [asked EXCEPT !.entity = TRUE].scopes = asked.scopes
        /\ [asked EXCEPT !.entity = TRUE].statefulSet = asked.statefulSet /\ [asked EXCEPT !.entity = TRUE].rules = asked.rules
        /\ [asked EXCEPT !.entity = TRUE].conditions = asked.conditions /\ [asked EXCEPT !.entity = TRUE].entity = TRUE
    BY <1>5 DEF Status
  <2> QED BY <1>8, <1>9, <2>1 DEF OnlyCondition, SameRest, Keeps, KeepsConditions
<1>12. SameRest(st, ScopeMissing(st, "entity"), "entity") /\ ScopeMissing(st, "entity").rules = st.rules /\ ScopeMissing(st, "entity") \in Status
  BY <1>4 DEF OnlyCondition, SameRest, Keeps, KeepsConditions
<1>13. SameRest(st, ScopeMissing(asked, "entity"), "entity") /\ ScopeMissing(asked, "entity").rules = st.rules
       /\ ScopeMissing(asked, "entity") \in Status
  BY <1>6, <1>9 DEF OnlyCondition, SameRest, Keeps, KeepsConditions
<1>14. SameRest(st, st, "entity")
  BY DEF SameRest, Keeps, KeepsConditions
<1>15. SameRest(st, answer, "entity") /\ answer.rules = st.rules /\ answer.entity = there /\ answer \in Status
  BY <1>7, <1>10, <1>11
<1> HIDE DEF answer, there
<1>16. \/ ~Available("settings.read") /\ Go("activeGate", ScopeMissing(st, "entity"), "none") /\ NoFault
       \/ ~IsOutdated("entity") /\ Go("connection", st, "none") /\ NoFault
       \/ ~Granted("settings.read") /\ Go("activeGate", ScopeMissing(asked, "entity"), "none") /\ NoFault
       \/ Go("connection", answer, "none") /\ NoFault
       \/ (\E e \in Failure : Go("activeGate", asked, e)) /\ Fault
  BY DEF ReconcileEntity, asked, answer, there
<1>17. CASE ~Available("settings.read") /\ Go("activeGate", ScopeMissing(st, "entity"), "none") /\ NoFault
  BY <1>1, <1>2, <1>12, <1>17, GoFields DEF Walk
<1>18. CASE ~IsOutdated("entity") /\ Go("connection", st, "none") /\ NoFault
  BY <1>1, <1>2, <1>14, <1>18, GoFields DEF Walk
<1>19. CASE ~Granted("settings.read") /\ Go("activeGate", ScopeMissing(asked, "entity"), "none") /\ NoFault
  BY <1>1, <1>2, <1>13, <1>19, GoFields DEF Walk
<1>20. CASE Go("connection", answer, "none") /\ NoFault
  BY <1>1, <1>2, <1>15, <1>20, GoFields DEF Walk, there
<1>21. CASE (\E e \in Failure : Go("activeGate", asked, e)) /\ Fault
  BY <1>1, <1>2, <1>5, <1>9, <1>21, GoFields DEF Walk
<1> QED BY <1>16, <1>17, <1>18, <1>19, <1>20, <1>21

\* The tenant makes the entity in its own time: nothing else of it changes, and it is not there yet.
EntityAsked ==
    /\ tenant' \in Tenant /\ tenant'.latest = tenant.latest /\ tenant'.scopes = tenant.scopes
    /\ tenant'.settings = tenant.settings /\ tenant'.rules = tenant.rules
    /\ (tenant'.entity = "there") = (tenant.entity = "there")

LEMMA CreateConnectionFields ==
    ASSUME TypeOK, CreateConnection
    PROVE  /\ Walk /\ UNCHANGED cache /\ EntityAsked /\ pc = "connection" /\ pc' \in {"activeGate", "refresh"}
           /\ OnlyCondition(st, st', "entity")
           /\ \/ Fault
              \/ NoFault /\ ~RegistersCluster /\ pc' = "activeGate" /\ st' = st
              \/ NoFault /\ ~Granted("settings.write")
              \/ NoFault /\ pc' = "refresh" /\ st' = st
<1>1. st \in Status /\ "entity" \in ConditionType /\ {"refresh", "activeGate"} \subseteq Steps /\ Failure \cup {"none"} \subseteq Errors
  BY StepNames DEF TypeOK, ConditionType, Errors
<1>2. UNCHANGED <<spec, stored, dk, changes, cache>> /\ pc = "connection"
  BY DEF CreateConnection, Unchanged
<1>3. tenant \in Tenant
  BY DEF TypeOK
<1>4. UNCHANGED tenant => EntityAsked
  BY <1>3 DEF EntityAsked
<1>5. MakeEntity => EntityAsked
  BY <1>3 DEF EntityAsked, MakeEntity, Tenant
<1>6. OnlyCondition(st, ScopeMissing(st, "entity"), "entity") /\ ScopeMissing(st, "entity") \in Status
  BY <1>1, SetConditionFields DEF Reason, ScopeMissing, OnlyCondition
<1>7. OnlyCondition(st, st, "entity")
  BY <1>1 DEF OnlyCondition
<1>8. \/ ~RegistersCluster /\ Go("activeGate", st, "none") /\ UNCHANGED tenant /\ NoFault
      \/ ~Granted("settings.write") /\ Go("activeGate", ScopeMissing(st, "entity"), "none") /\ UNCHANGED tenant /\ NoFault
      \/ Go("refresh", st, "none") /\ MakeEntity /\ NoFault
      \/ (\E e \in Failure : Go("activeGate", st, e)) /\ (UNCHANGED tenant \/ MakeEntity) /\ Fault
  BY DEF CreateConnection
<1>9. CASE ~RegistersCluster /\ Go("activeGate", st, "none") /\ UNCHANGED tenant /\ NoFault
  BY <1>1, <1>2, <1>4, <1>7, <1>9, GoFields DEF Walk
<1>10. CASE ~Granted("settings.write") /\ Go("activeGate", ScopeMissing(st, "entity"), "none") /\ UNCHANGED tenant /\ NoFault
  BY <1>1, <1>2, <1>4, <1>6, <1>10, GoFields DEF Walk
<1>11. CASE Go("refresh", st, "none") /\ MakeEntity /\ NoFault
  BY <1>1, <1>2, <1>5, <1>7, <1>11, GoFields DEF Walk
<1>12. CASE (\E e \in Failure : Go("activeGate", st, e)) /\ (UNCHANGED tenant \/ MakeEntity) /\ Fault
  BY <1>1, <1>2, <1>4, <1>5, <1>7, <1>12, GoFields DEF Walk
<1> QED BY <1>8, <1>9, <1>10, <1>11, <1>12

LEMMA RefreshEntityFields ==
    ASSUME TypeOK, RefreshEntity
    PROVE  /\ Walk /\ UNCHANGED <<tenant, cache>> /\ pc = "refresh" /\ pc' = "activeGate"
           /\ SameRest(st, st', "entity") /\ st'.rules = st.rules
           /\ \/ Fault
              \/ NoFault /\ st'.entity = TRUE /\ tenant.entity = "there"
              \/ NoFault /\ st' = st /\ error' # "none"
<1> DEFINE there == [st EXCEPT !.entity = TRUE]
           found == SetCondition(there, "entity", "True", "Updated")
<1>1. st \in Status /\ "entity" \in ConditionType /\ "activeGate" \in Steps
      /\ Failure \cup {"none", "other"} \subseteq Errors /\ "failed" \in Failure
  BY StepNames DEF TypeOK, ConditionType, Errors, Failure
<1>2. UNCHANGED <<spec, stored, dk, changes, tenant, cache>> /\ pc = "refresh"
  BY DEF RefreshEntity, Unchanged
<1>3. there \in Status
  BY <1>1, SetFields
<1>4. SameRest(st, there, "entity") /\ there.rules = st.rules /\ there.entity = TRUE
  BY <1>1 DEF SameRest, Keeps, KeepsConditions, Status
<1> HIDE DEF there
<1>5. OnlyCondition(there, found, "entity")
  BY <1>1, <1>3, SetConditionFields DEF Reason
<1>6. SameRest(st, found, "entity") /\ found.rules = st.rules /\ found.entity = TRUE /\ found \in Status
  BY <1>4, <1>5 DEF OnlyCondition, SameRest, Keeps, KeepsConditions
<1>7. SameRest(st, st, "entity")
  BY DEF SameRest, Keeps, KeepsConditions
<1> HIDE DEF found
<1>8. \/ tenant.entity = "there" /\ Go("activeGate", found, "none") /\ NoFault
      \/ Go("activeGate", st, "other") /\ NoFault
      \/ Go("activeGate", st, "failed") /\ NoFault
      \/ (\E e \in Failure : Go("activeGate", st, e)) /\ Fault
  BY DEF RefreshEntity, found, there
<1>9. CASE tenant.entity = "there" /\ Go("activeGate", found, "none") /\ NoFault
  BY <1>1, <1>2, <1>6, <1>9, GoFields DEF Walk
<1>10. CASE Go("activeGate", st, "other") /\ NoFault
  <2>1. "other" \in Errors /\ "other" # "none"
    BY <1>1
  <2> QED BY <1>1, <1>2, <1>7, <1>10, <2>1, GoFields DEF Walk
<1>11. CASE Go("activeGate", st, "failed") /\ NoFault
  <2>1. "failed" \in Errors /\ "failed" # "none"
    BY <1>1
  <2> QED BY <1>1, <1>2, <1>7, <1>11, <2>1, GoFields DEF Walk
<1>12. CASE (\E e \in Failure : Go("activeGate", st, e)) /\ Fault
  BY <1>1, <1>2, <1>7, <1>12, GoFields DEF Walk
<1> QED BY <1>8, <1>9, <1>10, <1>11, <1>12

\* y is x, but perhaps for the version of c
OnlyVersion(x, y, c) ==
    /\ y \in Status
    /\ y.scopes = x.scopes /\ y.entity = x.entity /\ y.rules = x.rules /\ y.conditions = x.conditions
    /\ y.statefulSet = x.statefulSet
    /\ \A d \in Component \ {c} : y.versions[d] = x.versions[d]

\* the answer to the request of an updater, from the cache if it is there
Answer(r) == IF r # "none" /\ cache[r] # 0 THEN cache[r] ELSE tenant.latest

CacheTypes ==
    /\ DOMAIN cache' = Request
    /\ \A r \in Request \ {"scopes"} : cache'[r] \in 0..2
    /\ cache'["scopes"] = cache["scopes"]

LEMMA UpdateVersionFields ==
    ASSUME TypeOK, NEW c \in Component, NEW ok \in Steps, NEW err \in Steps, UpdateVersion(c, ok, err), Unchanged
    PROVE  /\ Walk /\ CacheTypes /\ pc' \in {ok, err}
           /\ OnlyVersion(st, st', c)
           /\ \/ Fault /\ st' = st
              \/ NoFault /\ pc' = ok /\ ~Enabled(c) /\ st'.versions[c] = NoVersion /\ UNCHANGED cache
              \/ /\ NoFault /\ pc' = ok /\ Enabled(c)
                 /\ Answer(RequestOf(c)) \in 1..2
                 /\ st'.versions[c] = Updated(c, Answer(RequestOf(c)))
                 /\ \A r \in Request \ {"scopes"} : cache'[r] \in {cache[r], Answer(RequestOf(c))}
<1> DEFINE r == RequestOf(c)
           latest == IF r # "none" /\ cache[r] # 0 THEN cache[r] ELSE tenant.latest
           set(v) == [st EXCEPT !.versions[c] = v]
<1>1. st \in Status /\ "none" \in Errors /\ Failure \subseteq Errors /\ NoVersion \in VersionStatus
  BY DEF TypeOK, Errors, NoVersion, VersionStatus, Custom, Source
<1>2. DOMAIN cache = Request /\ \A q \in Request \ {"scopes"} : cache[q] \in 0..2
  BY DEF TypeOK
<1>3. r = "none" \/ r \in Request \ {"scopes"}
  BY DEF RequestOf, Request, Component
<1>4. tenant.latest \in 1..2
  BY DEF TypeOK, Tenant
<1>5. latest \in 1..2 /\ latest = Answer(RequestOf(c))
  BY <1>2, <1>3, <1>4 DEF Answer
<1>6. Updated(c, latest) \in VersionStatus
  BY <1>5, UpdatedType
<1>7. \A v \in VersionStatus : OnlyVersion(st, set(v), c) /\ set(v).versions[c] = v /\ set(v) \in Status
  BY <1>1, SetVersion DEF OnlyVersion
<1>8. OnlyVersion(st, st, c)
  BY <1>1 DEF OnlyVersion
<1> HIDE DEF r, latest, set
<1>9. UNCHANGED <<spec, stored, dk, changes>>
  BY DEF Unchanged
<1>10. \/ ~Enabled(c) /\ Go(ok, set(NoVersion), "none") /\ UNCHANGED cache /\ NoFault
       \/ /\ Enabled(c) /\ Go(ok, set(Updated(c, latest)), "none")
          /\ cache' = IF r = "none" THEN cache ELSE [cache EXCEPT ![r] = latest]
          /\ NoFault
       \/ (\E e \in Failure : Failed(c, ok, err, e)) /\ UNCHANGED cache /\ Fault
  BY DEF UpdateVersion, r, latest, set
<1>11. UNCHANGED cache => CacheTypes
  BY <1>2 DEF CacheTypes
<1>12. CASE ~Enabled(c) /\ Go(ok, set(NoVersion), "none") /\ UNCHANGED cache /\ NoFault
  <2>1. st' = set(NoVersion) /\ pc' = ok /\ Walk
    BY <1>1, <1>7, <1>9, <1>12, GoFields DEF Walk
  <2> QED BY <1>1, <1>7, <1>11, <1>12, <2>1
<1>13. CASE /\ Enabled(c) /\ Go(ok, set(Updated(c, latest)), "none")
            /\ cache' = IF r = "none" THEN cache ELSE [cache EXCEPT ![r] = latest]
            /\ NoFault
  <2>1. st' = set(Updated(c, latest)) /\ pc' = ok /\ Walk
    BY <1>1, <1>6, <1>7, <1>9, <1>13, GoFields DEF Walk
  <2>2. CacheTypes /\ \A q \in Request \ {"scopes"} : cache'[q] \in {cache[q], latest}
    <3>1. CASE r = "none"
      BY <1>2, <1>11, <1>13, <3>1
    <3>2. CASE r \in Request \ {"scopes"}
      <4>1. r # "none"
        BY <3>2 DEF Request, Component
      <4>2. cache' = [cache EXCEPT ![r] = latest]
        BY <1>13, <4>1
      <4>3. latest \in 0..2
        BY <1>5
      <4> QED BY <1>2, <3>2, <4>2, <4>3 DEF CacheTypes, Request
    <3> QED BY <1>3, <3>1, <3>2
  <2> QED BY <1>5, <1>6, <1>7, <1>13, <2>1, <2>2
<1>14. CASE (\E e \in Failure : Failed(c, ok, err, e)) /\ UNCHANGED cache /\ Fault
  <2>1. PICK e \in Failure : Go(err, st, e) \/ Go(ok, st, "none")
    BY <1>14 DEF Failed
  <2>2. st' = st /\ pc' \in {ok, err} /\ Walk
    <3>1. CASE Go(err, st, e)
      BY <1>1, <1>9, <1>14, <3>1, GoFields DEF Walk
    <3>2. CASE Go(ok, st, "none")
      BY <1>1, <1>9, <1>14, <3>2, GoFields DEF Walk
    <3> QED BY <2>1, <3>1, <3>2
  <2> QED BY <1>8, <1>11, <1>14, <2>2
<1> QED BY <1>10, <1>12, <1>13, <1>14

LEMMA ReconcileActiveGateFields ==
    ASSUME TypeOK, ReconcileActiveGate
    PROVE  /\ Walk /\ CacheTypes /\ UNCHANGED tenant /\ pc = "activeGate" /\ pc' \in {"capability", "kspm"}
           /\ OnlyVersion(st, st', "activeGate")
           /\ \/ Fault /\ st' = st
              \/ NoFault /\ pc' = "kspm" /\ ~Enabled("activeGate") /\ ~st.statefulSet /\ st' = st /\ UNCHANGED cache
              \/ NoFault /\ pc' = "capability" /\ ~Enabled("activeGate") /\ st'.versions["activeGate"] = NoVersion /\ UNCHANGED cache
              \/ /\ NoFault /\ pc' = "capability" /\ Enabled("activeGate")
                 /\ Answer(RequestOf("activeGate")) \in 1..2
                 /\ st'.versions["activeGate"] = Updated("activeGate", Answer(RequestOf("activeGate")))
                 /\ \A r \in Request \ {"scopes"} : cache'[r] \in {cache[r], Answer(RequestOf("activeGate"))}
<1>1. st \in Status /\ {"capability", "kspm"} \subseteq Steps /\ "activeGate" \in Component /\ Failure \cup {"none"} \subseteq Errors
  BY StepNames DEF TypeOK, Component, Errors
<1>2. Unchanged /\ UNCHANGED <<spec, stored, dk, changes, tenant>> /\ pc = "activeGate"
  BY DEF ReconcileActiveGate, Unchanged
<1>3. DOMAIN cache = Request /\ \A q \in Request \ {"scopes"} : cache[q] \in 0..2
  BY DEF TypeOK
<1>4. OnlyVersion(st, st, "activeGate")
  BY <1>1 DEF OnlyVersion
<1>5. \/ ~Enabled("activeGate") /\ ~st.statefulSet /\ Go("kspm", st, "none") /\ UNCHANGED cache /\ NoFault
      \/ UpdateVersion("activeGate", "capability", "kspm")
      \/ (\E e \in Failure : Go("kspm", st, e)) /\ UNCHANGED cache /\ Fault
  BY DEF ReconcileActiveGate
<1>6. CASE ~Enabled("activeGate") /\ ~st.statefulSet /\ Go("kspm", st, "none") /\ UNCHANGED cache /\ NoFault
  BY <1>1, <1>2, <1>3, <1>4, <1>6, GoFields DEF Walk, CacheTypes
<1>7. CASE UpdateVersion("activeGate", "capability", "kspm")
  BY <1>1, <1>2, <1>7, UpdateVersionFields
<1>8. CASE (\E e \in Failure : Go("kspm", st, e)) /\ UNCHANGED cache /\ Fault
  BY <1>1, <1>2, <1>3, <1>4, <1>8, GoFields DEF Walk, CacheTypes
<1> QED BY <1>5, <1>6, <1>7, <1>8

LEMMA ReconcileCapabilityFields ==
    ASSUME TypeOK, ReconcileCapability
    PROVE  /\ Walk /\ UNCHANGED <<tenant, cache>> /\ pc = "capability" /\ pc' = "kspm"
           /\ st'.versions = st.versions /\ st'.scopes = st.scopes /\ st'.entity = st.entity /\ st'.rules = st.rules
           /\ st'.conditions = st.conditions
           /\ Fault \/ (NoFault /\ (~Enabled("activeGate") => ~st'.statefulSet))
           /\ workload' \in BOOLEAN
<1>1. /\ st \in Status /\ "kspm" \in Steps /\ Failure \cup {"none"} \subseteq Errors /\ Enabled("activeGate") \in BOOLEAN
      /\ st.statefulSet \in BOOLEAN /\ workload \in BOOLEAN
  BY StepNames, ComponentSpecs DEF TypeOK, Errors, Enabled, Component, Status
<1>2. UNCHANGED <<spec, stored, dk, changes, tenant, cache>> /\ pc = "capability"
  BY DEF ReconcileCapability
<1>3. PICK b \in BOOLEAN, e \in Failure \cup {"none"} :
          /\ Go("kspm", [st EXCEPT !.statefulSet = b], e)
          /\ Fault \/ (NoFault /\ (~Enabled("activeGate") => ~b))
          /\ workload' \in BOOLEAN
  BY <1>1 DEF ReconcileCapability
<1>4. [st EXCEPT !.statefulSet = b] \in Status
  BY <1>1, SetFields
<1>5. st' = [st EXCEPT !.statefulSet = b] /\ pc' = "kspm" /\ Walk
  BY <1>1, <1>2, <1>3, <1>4, GoFields DEF Walk
<1>6. /\ st'.versions = st.versions /\ st'.scopes = st.scopes /\ st'.entity = st.entity /\ st'.rules = st.rules
      /\ st'.conditions = st.conditions /\ st'.statefulSet = b
  BY <1>1, <1>5 DEF Status
<1> QED BY <1>2, <1>3, <1>5, <1>6

LEMMA OnlyConditions ==
    ASSUME NEW x, NEW y, NEW z, NEW t \in ConditionType, OnlyCondition(x, y, t), OnlyCondition(y, z, t)
    PROVE  OnlyCondition(x, z, t)
  BY DEF OnlyCondition

\* the requests for a settings object are both allowed and granted
MayAsk == Available("settings.read") /\ Available("settings.write") /\ Granted("settings.read")

LEMMA ReconcileSettingFields ==
    ASSUME TypeOK, NEW s \in Setting, ReconcileSetting(s)
    PROVE  /\ Walk /\ UNCHANGED <<tenant, cache>> /\ pc = s /\ pc' \in {After(s), CreateStep(s), "write"}
           /\ OnlyCondition(st, st', s)
           /\ pc' = CreateStep(s) => tenant.settings[s] = 0
           /\ \/ Fault
              \/ NoFault /\ ~MayAsk /\ pc' \in {After(s), CreateStep(s)}
              \/ NoFault /\ pc' = After(s) /\ ~SettingEnabled(s) /\ st'.conditions[s] = NoCondition
              \/ NoFault /\ pc' = After(s) /\ ~IsOutdated(s) /\ st' = st
              \/ NoFault /\ pc' = After(s) /\ ~st.entity /\ st'.conditions[s].status = "False" /\ st'.conditions[s].reason = "Skipped"
              \/ NoFault /\ pc' = After(s) /\ tenant.settings[s] > 0 /\ st'.conditions[s].status = "True"
              \/ NoFault /\ pc' = CreateStep(s) /\ st'.conditions[s] = NoCondition
<1> DEFINE fresh == RemoveCondition(st, s)
           scoped == Available("settings.read") /\ Available("settings.write")
           missing == ScopeMissing(fresh, s)
           skipped == SetCondition(fresh, s, "False", "Skipped")
           failed == SetCondition(fresh, s, "False", "Error")
           exists == Exists(s, fresh)
           refused == Refused(s, fresh)
<1>1. st \in Status /\ s \in ConditionType /\ {After(s), CreateStep(s), "write"} \subseteq Steps
      /\ Failure \cup {"none"} \subseteq Errors
  BY StepNames DEF TypeOK, ConditionType, Setting, Errors, After, CreateStep
<1>2. UNCHANGED <<spec, stored, dk, changes, tenant, cache>> /\ pc = s
  BY DEF ReconcileSetting, Unchanged
<1>3. tenant.settings[s] \in 0..2
  BY DEF TypeOK, Tenant
<1>4. After(s) # CreateStep(s) /\ CreateStep(s) # "write"
  BY DEF After, CreateStep
<1>5. OnlyCondition(st, st, s)
  BY <1>1 DEF OnlyCondition
<1>6. OnlyCondition(st, fresh, s) /\ fresh.conditions[s] = NoCondition /\ fresh \in Status
  BY <1>1, RemoveConditionFields DEF OnlyCondition
<1> HIDE DEF fresh
<1>7. OnlyCondition(st, missing, s) /\ missing \in Status
  <2>1. OnlyCondition(fresh, missing, s)
    BY <1>1, <1>6, SetConditionFields DEF ScopeMissing, Reason
  <2> QED BY <1>1, <1>6, <2>1, OnlyConditions DEF OnlyCondition
<1>8. OnlyCondition(st, skipped, s) /\ skipped \in Status /\ skipped.conditions[s].status = "False" /\ skipped.conditions[s].reason = "Skipped"
  <2>1. OnlyCondition(fresh, skipped, s) /\ skipped.conditions[s].status = "False" /\ skipped.conditions[s].reason = "Skipped"
    BY <1>1, <1>6, SetConditionFields DEF Reason
  <2> QED BY <1>1, <1>6, <2>1, OnlyConditions DEF OnlyCondition
<1>9. OnlyCondition(st, failed, s) /\ failed \in Status
  <2>1. OnlyCondition(fresh, failed, s)
    BY <1>1, <1>6, SetConditionFields DEF Reason
  <2> QED BY <1>1, <1>6, <2>1, OnlyConditions DEF OnlyCondition
<1>10. OnlyCondition(st, exists, s) /\ exists \in Status /\ exists.conditions[s].status = "True"
  <2>1. OnlyCondition(fresh, exists, s) /\ exists.conditions[s].status = "True"
    BY <1>1, <1>6, SetConditionFields DEF Reason, Exists
  <2> QED BY <1>1, <1>6, <2>1, OnlyConditions DEF OnlyCondition
<1> HIDE DEF missing, skipped, failed, exists
<1>11. OnlyCondition(st, refused, s) /\ refused \in Status
  BY <1>6, <1>7, <1>9 DEF Refused, missing, failed
<1> HIDE DEF refused
<1>12. \/ ~SettingEnabled(s) /\ Go(After(s), fresh, "none") /\ NoFault
       \/ ~IsOutdated(s) /\ Go(After(s), st, "none") /\ NoFault
       \/ ~scoped /\ Go(After(s), missing, "none") /\ NoFault
       \/ ~st.entity /\ Go(After(s), skipped, "none") /\ NoFault
       \/ ~Granted("settings.read") /\ Go(After(s), refused, "none") /\ NoFault
       \/ Found(s) /\ Go(After(s), exists, "none") /\ NoFault
       \/ ~Found(s) /\ Go(CreateStep(s), fresh, "none") /\ NoFault
       \/ (\E e \in Failure : Go(After(s), failed, e)) /\ Fault
       \/ (\E e \in Failure : Go(After(s), st, e)) /\ Fault
       \/ Go("write", st, "none") /\ Fault
  BY DEF ReconcileSetting, fresh, missing, skipped, failed, exists, refused
<1>13. CASE ~SettingEnabled(s) /\ Go(After(s), fresh, "none") /\ NoFault
  BY <1>1, <1>2, <1>4, <1>6, <1>13, GoFields DEF Walk
<1>14. CASE ~IsOutdated(s) /\ Go(After(s), st, "none") /\ NoFault
  BY <1>1, <1>2, <1>4, <1>5, <1>14, GoFields DEF Walk
<1>15. CASE ~scoped /\ Go(After(s), missing, "none") /\ NoFault
  BY <1>1, <1>2, <1>4, <1>7, <1>15, GoFields DEF Walk, MayAsk
<1>16. CASE ~st.entity /\ Go(After(s), skipped, "none") /\ NoFault
  BY <1>1, <1>2, <1>4, <1>8, <1>16, GoFields DEF Walk
<1>17. CASE ~Granted("settings.read") /\ Go(After(s), refused, "none") /\ NoFault
  BY <1>1, <1>2, <1>4, <1>11, <1>17, GoFields DEF Walk, MayAsk
<1>18. CASE Found(s) /\ Go(After(s), exists, "none") /\ NoFault
  BY <1>1, <1>2, <1>4, <1>10, <1>18, GoFields DEF Walk, Found
<1>19. CASE ~Found(s) /\ Go(CreateStep(s), fresh, "none") /\ NoFault
  <2>1. tenant.settings[s] = 0
    BY <1>3, <1>19 DEF Found
  <2> QED BY <1>1, <1>2, <1>6, <1>19, <2>1, GoFields DEF Walk
<1>20. CASE (\E e \in Failure : Go(After(s), failed, e)) /\ Fault
  BY <1>1, <1>2, <1>4, <1>9, <1>20, GoFields DEF Walk
<1>21. CASE (\E e \in Failure : Go(After(s), st, e)) /\ Fault
  BY <1>1, <1>2, <1>4, <1>5, <1>21, GoFields DEF Walk
<1>22. CASE Go("write", st, "none") /\ Fault
  BY <1>1, <1>2, <1>4, <1>5, <1>22, GoFields DEF Walk
<1> QED BY <1>12, <1>13, <1>14, <1>15, <1>16, <1>17, <1>18, <1>19, <1>20, <1>21, <1>22

LEMMA CreateSettingFields ==
    ASSUME TypeOK, NEW s \in Setting, CreateSetting(s)
    PROVE  /\ Walk /\ UNCHANGED cache /\ pc = CreateStep(s) /\ pc' = After(s)
           /\ OnlyCondition(st, st', s)
           /\ UNCHANGED tenant \/ tenant' = [tenant EXCEPT !.settings[s] = @ + 1]
           /\ \/ Fault
              \/ NoFault /\ ~Granted("settings.write")
              \/ NoFault /\ st'.conditions[s].status = "True" /\ tenant' = [tenant EXCEPT !.settings[s] = @ + 1]
<1> DEFINE created == tenant' = [tenant EXCEPT !.settings[s] = @ + 1]
           failed == SetCondition(st, s, "False", "Error")
           exists == Exists(s, st)
           refused == Refused(s, st)
<1>1. st \in Status /\ s \in ConditionType /\ After(s) \in Steps /\ Failure \cup {"none"} \subseteq Errors
  BY StepNames DEF TypeOK, ConditionType, Setting, Errors, After
<1>2. UNCHANGED <<spec, stored, dk, changes, cache>> /\ pc = CreateStep(s)
  BY DEF CreateSetting, Unchanged
<1>3. OnlyCondition(st, st, s)
  BY <1>1 DEF OnlyCondition
<1>4. OnlyCondition(st, failed, s) /\ failed \in Status
  BY <1>1, SetConditionFields DEF Reason, OnlyCondition
<1>5. OnlyCondition(st, exists, s) /\ exists \in Status /\ exists.conditions[s].status = "True"
  BY <1>1, SetConditionFields DEF Reason, Exists, OnlyCondition
<1>6. OnlyCondition(st, ScopeMissing(st, s), s) /\ ScopeMissing(st, s) \in Status
  BY <1>1, SetConditionFields DEF Reason, ScopeMissing, OnlyCondition
<1> HIDE DEF exists
<1>7. OnlyCondition(st, refused, s) /\ refused \in Status
  BY <1>1, <1>3, <1>4, <1>6 DEF Refused
<1> HIDE DEF failed, refused
<1>8. \/ ~Granted("settings.write") /\ Go(After(s), refused, "none") /\ UNCHANGED tenant /\ NoFault
      \/ Go(After(s), exists, "none") /\ created /\ NoFault
      \/ (\E e \in Failure : Go(After(s), failed, e)) /\ (UNCHANGED tenant \/ created) /\ Fault
  BY DEF CreateSetting, failed, exists, refused
<1> HIDE DEF created
<1>9. CASE ~Granted("settings.write") /\ Go(After(s), refused, "none") /\ UNCHANGED tenant /\ NoFault
  BY <1>1, <1>2, <1>7, <1>9, GoFields DEF Walk
<1>10. CASE Go(After(s), exists, "none") /\ created /\ NoFault
  BY <1>1, <1>2, <1>5, <1>10, GoFields DEF Walk, created
<1>11. CASE (\E e \in Failure : Go(After(s), failed, e)) /\ (UNCHANGED tenant \/ created) /\ Fault
  BY <1>1, <1>2, <1>4, <1>11, GoFields DEF Walk, created
<1> QED BY <1>8, <1>9, <1>10, <1>11

RulesNeeded == dk.rules \/ dk.codeModules.enabled

LEMMA ReconcileRulesFields ==
    ASSUME TypeOK, ReconcileRules
    PROVE  /\ Walk /\ UNCHANGED <<tenant, cache>> /\ pc = "rules" /\ pc' = "oneAgent"
           /\ SameRest(st, st', "rules") /\ st'.entity = st.entity
           /\ \/ Fault
              \/ NoFault /\ (~Available("settings.read") \/ ~Granted("settings.read")) /\ RulesNeeded
              \/ NoFault /\ ~RulesNeeded /\ st'.conditions["rules"] = NoCondition
              \/ NoFault /\ ~IsOutdated("rules") /\ st' = st
              \/ NoFault /\ RulesNeeded /\ st'.rules = tenant.rules
<1> DEFINE none == [st EXCEPT !.rules = 0]
           removed == RemoveCondition(none, "rules")
           asked == SetCondition(st, "rules", "False", "Outdated")
           missing == ScopeMissing(asked, "rules")
           failed == SetCondition(asked, "rules", "False", "Error")
           read == [asked EXCEPT !.rules = tenant.rules]
           updated == SetCondition(read, "rules", "True", "Updated")
<1>1. st \in Status /\ "rules" \in ConditionType /\ "oneAgent" \in Steps /\ Failure \cup {"none"} \subseteq Errors
      /\ tenant.rules \in 0..2
  BY StepNames DEF TypeOK, ConditionType, Errors, Tenant
<1>2. UNCHANGED <<spec, stored, dk, changes, tenant, cache>> /\ pc = "rules"
  BY DEF ReconcileRules, Unchanged
<1>3. SameRest(st, st, "rules")
  BY DEF SameRest, Keeps, KeepsConditions
<1>4. none \in Status /\ SameRest(st, none, "rules") /\ none.entity = st.entity
  <2>1. none \in Status
    <3>1. 0 \in 0..2 /\ \A n \in 0..2 : [st EXCEPT !.rules = n] \in Status
      BY <1>1, SetFields
    <3> QED BY <3>1
  <2> QED BY <1>1, <2>1 DEF SameRest, Keeps, KeepsConditions, Status
<1> HIDE DEF none
<1>5. removed \in Status /\ SameRest(st, removed, "rules") /\ removed.entity = st.entity /\ removed.conditions["rules"] = NoCondition
  <2>1. OnlyCondition(none, removed, "rules") /\ removed.conditions["rules"] = NoCondition
    BY <1>1, <1>4, RemoveConditionFields
  <2> QED BY <1>4, <2>1 DEF OnlyCondition, SameRest, Keeps, KeepsConditions
<1>6. asked \in Status /\ SameRest(st, asked, "rules") /\ asked.entity = st.entity
  <2>1. OnlyCondition(st, asked, "rules")
    BY <1>1, SetConditionFields DEF Reason
  <2> QED BY <2>1 DEF OnlyCondition, SameRest, Keeps, KeepsConditions
<1> HIDE DEF removed, asked
<1>7. missing \in Status /\ SameRest(st, missing, "rules") /\ missing.entity = st.entity
  <2>1. OnlyCondition(asked, missing, "rules")
    BY <1>1, <1>6, SetConditionFields DEF Reason, ScopeMissing
  <2> QED BY <1>6, <2>1 DEF OnlyCondition, SameRest, Keeps, KeepsConditions
<1>8. failed \in Status /\ SameRest(st, failed, "rules") /\ failed.entity = st.entity
  <2>1. OnlyCondition(asked, failed, "rules")
    BY <1>1, <1>6, SetConditionFields DEF Reason
  <2> QED BY <1>6, <2>1 DEF OnlyCondition, SameRest, Keeps, KeepsConditions
<1>9. read \in Status /\ SameRest(st, read, "rules") /\ read.entity = st.entity /\ read.rules = tenant.rules
  <2>1. read \in Status
    BY <1>1, <1>6, SetFields
  <2>2. SameRest(asked, read, "rules") /\ read.entity = asked.entity /\ read.rules = tenant.rules
    BY <1>6 DEF SameRest, Keeps, KeepsConditions, Status
  <2> QED BY <1>6, <2>1, <2>2 DEF SameRest, Keeps, KeepsConditions
<1> HIDE DEF read
<1>10. updated \in Status /\ SameRest(st, updated, "rules") /\ updated.entity = st.entity /\ updated.rules = tenant.rules
  <2>1. OnlyCondition(read, updated, "rules")
    BY <1>1, <1>9, SetConditionFields DEF Reason
  <2> QED BY <1>9, <2>1 DEF OnlyCondition, SameRest, Keeps, KeepsConditions
<1> HIDE DEF missing, failed, updated
<1>11. \/ ~RulesNeeded /\ Go("oneAgent", removed, "none") /\ NoFault
       \/ ~IsOutdated("rules") /\ Go("oneAgent", st, "none") /\ NoFault
       \/ RulesNeeded /\ (~Available("settings.read") \/ ~Granted("settings.read")) /\ Go("oneAgent", missing, "none") /\ NoFault
       \/ RulesNeeded /\ Go("oneAgent", updated, "none") /\ NoFault
       \/ (\E e \in Failure : Go("oneAgent", failed, e)) /\ Fault
  BY DEF ReconcileRules, removed, none, asked, missing, failed, read, updated, RulesNeeded
<1>12. CASE ~RulesNeeded /\ Go("oneAgent", removed, "none") /\ NoFault
  BY <1>1, <1>2, <1>5, <1>12, GoFields DEF Walk
<1>13. CASE ~IsOutdated("rules") /\ Go("oneAgent", st, "none") /\ NoFault
  BY <1>1, <1>2, <1>3, <1>13, GoFields DEF Walk
<1>14. CASE RulesNeeded /\ (~Available("settings.read") \/ ~Granted("settings.read")) /\ Go("oneAgent", missing, "none") /\ NoFault
  BY <1>1, <1>2, <1>7, <1>14, GoFields DEF Walk
<1>15. CASE RulesNeeded /\ Go("oneAgent", updated, "none") /\ NoFault
  BY <1>1, <1>2, <1>10, <1>15, GoFields DEF Walk
<1>16. CASE (\E e \in Failure : Go("oneAgent", failed, e)) /\ Fault
  BY <1>1, <1>2, <1>8, <1>16, GoFields DEF Walk
<1> QED BY <1>11, <1>12, <1>13, <1>14, <1>15, <1>16

LEMMA ReconcileCodeModulesFields ==
    ASSUME TypeOK, ReconcileCodeModules
    PROVE  /\ Walk /\ CacheTypes /\ UNCHANGED tenant /\ pc = "codeModules" /\ pc' = "rules"
           /\ OnlyVersion(st, st', "codeModules")
           /\ \/ Fault /\ st' = st
              \/ NoFault /\ ~Enabled("codeModules") /\ st'.versions["codeModules"] = NoVersion /\ UNCHANGED cache
              \/ /\ NoFault /\ Enabled("codeModules")
                 /\ Answer(RequestOf("codeModules")) \in 1..2
                 /\ st'.versions["codeModules"] = Updated("codeModules", Answer(RequestOf("codeModules")))
                 /\ \A r \in Request \ {"scopes"} : cache'[r] \in {cache[r], Answer(RequestOf("codeModules"))}
<1>1. "rules" \in Steps /\ "codeModules" \in Component
  BY StepNames DEF Component
<1>2. UpdateVersion("codeModules", "rules", "rules") /\ Unchanged /\ UNCHANGED tenant /\ pc = "codeModules"
  BY DEF ReconcileCodeModules
<1> QED BY <1>1, <1>2, UpdateVersionFields

LEMMA ReconcileOneAgentFields ==
    ASSUME TypeOK, ReconcileOneAgent
    PROVE  /\ Walk /\ CacheTypes /\ UNCHANGED tenant /\ pc = "oneAgent" /\ pc' = "write"
           /\ OnlyVersion(st, st', "oneAgent")
           /\ \/ Fault /\ st' = st
              \/ NoFault /\ ~Enabled("oneAgent") /\ st'.versions["oneAgent"] = NoVersion /\ UNCHANGED cache
              \/ /\ NoFault /\ Enabled("oneAgent")
                 /\ Answer(RequestOf("oneAgent")) \in 1..2
                 /\ st'.versions["oneAgent"] = Updated("oneAgent", Answer(RequestOf("oneAgent")))
                 /\ \A r \in Request \ {"scopes"} : cache'[r] \in {cache[r], Answer(RequestOf("oneAgent"))}
<1>1. "write" \in Steps /\ "oneAgent" \in Component
  BY StepNames DEF Component
<1>2. UpdateVersion("oneAgent", "write", "write") /\ Unchanged /\ UNCHANGED tenant /\ pc = "oneAgent"
  BY DEF ReconcileOneAgent
<1> QED BY <1>1, <1>2, UpdateVersionFields

\* The end of a reconcile: its status is stored, or nothing is.
LEMMA WriteStatusFields ==
    ASSUME TypeOK, WriteStatus
    PROVE  /\ UNCHANGED <<spec, tenant, cache, changes>> /\ pc = "write" /\ pc' = "idle"
           /\ st' = NoStatus /\ error' = "none" /\ dk' = spec
           /\ \/ /\ spec = dk /\ stored' = st /\ UNCHANGED faults
                 /\ quiet' = IF quiet \in {1, 2} /\ error = "none" THEN 2 ELSE quiet
              \/ UNCHANGED stored /\ NoFault
              \/ UNCHANGED stored /\ Fault
  BY DEF WriteStatus, NoFault

LEMMA CrashFields ==
    ASSUME Crash
    PROVE  /\ UNCHANGED <<spec, tenant, stored, changes>> /\ pc' = "idle" /\ st' = NoStatus /\ error' = "none" /\ dk' = spec
           /\ cache' = EmptyCache /\ Fault
  BY DEF Crash

LEMMA BeginFields ==
    ASSUME Begin
    PROVE  /\ UNCHANGED <<spec, tenant, cache, stored, quiet, changes, faults>>
           /\ pc = "idle" /\ pc' = "tokens" /\ dk' = spec /\ st' = stored /\ error' = "none"
  BY DEF Begin

LEMMA EditSpecFields ==
    ASSUME EditSpec
    PROVE  /\ UNCHANGED <<tenant, cache, stored, pc, st, error, faults>> /\ Change
           /\ spec' \in Specs /\ dk' = IF pc = "idle" THEN spec' ELSE dk
  BY DEF EditSpec

LEMMA TenantChangesFields ==
    ASSUME TypeOK, TenantChanges
    PROVE  /\ UNCHANGED <<spec, cache, stored, pc, dk, st, error, faults>> /\ Change /\ tenant' \in Tenant
           /\ \A s \in Setting : tenant'.settings[s] = tenant.settings[s] \/ tenant'.settings[s] = 0
<1>1. tenant \in Tenant
  BY DEF TypeOK
<1>2. UNCHANGED <<spec, cache, stored, pc, dk, st, error, faults>> /\ Change
  BY DEF TenantChanges
<1>3. \/ \E v \in Latest : tenant' = [tenant EXCEPT !.latest = v]
      \/ \E s \in Scopes : tenant' = [tenant EXCEPT !.scopes = IF s \in @ THEN @ \ {s} ELSE @ \cup {s}]
      \/ tenant' = [tenant EXCEPT !.entity = "none"]
      \/ \E s \in Setting : tenant' = [tenant EXCEPT !.settings[s] = 0]
      \/ tenant' = [tenant EXCEPT !.rules = 3 - @]
  BY DEF TenantChanges
<1>4. ASSUME NEW v \in Latest, tenant' = [tenant EXCEPT !.latest = v] PROVE tenant' \in Tenant /\ tenant'.settings = tenant.settings
  BY <1>1, <1>4 DEF Tenant
<1>5. ASSUME NEW s \in Scopes, tenant' = [tenant EXCEPT !.scopes = IF s \in @ THEN @ \ {s} ELSE @ \cup {s}]
      PROVE  tenant' \in Tenant /\ tenant'.settings = tenant.settings
  <2> DEFINE scopes == IF s \in tenant.scopes THEN tenant.scopes \ {s} ELSE tenant.scopes \cup {s}
  <2>1. s \in Scope
    BY DEF Scope
  <2>2. scopes \in SUBSET Scope
    BY <1>1, <2>1 DEF Tenant
  <2>3. tenant' = [tenant EXCEPT !.scopes = scopes]
    BY <1>5
  <2> HIDE DEF scopes
  <2> QED BY <1>1, <2>2, <2>3 DEF Tenant
<1>6. ASSUME tenant' = [tenant EXCEPT !.entity = "none"] PROVE tenant' \in Tenant /\ tenant'.settings = tenant.settings
  BY <1>1, <1>6 DEF Tenant
<1>7. ASSUME NEW s \in Setting, tenant' = [tenant EXCEPT !.settings[s] = 0]
      PROVE  tenant' \in Tenant /\ \A t \in Setting : tenant'.settings[t] = IF t = s THEN 0 ELSE tenant.settings[t]
  BY <1>1, <1>7 DEF Tenant
<1>8. ASSUME tenant' = [tenant EXCEPT !.rules = 3 - @] PROVE tenant' \in Tenant /\ tenant'.settings = tenant.settings
  BY <1>1, <1>8 DEF Tenant
<1> QED BY <1>2, <1>3, <1>4, <1>5, <1>6, <1>7, <1>8

LEMMA EntityAppearsFields ==
    ASSUME TypeOK, EntityAppears
    PROVE  /\ UNCHANGED <<spec, cache, stored, pc, dk, st, error, changes, faults>> /\ quiet' = 0
           /\ tenant' \in Tenant /\ tenant'.settings = tenant.settings
  BY DEF EntityAppears, TypeOK, Tenant

\* The threshold passes: no reply is cached and no condition is recent.
LEMMA TickFields ==
    ASSUME TypeOK, Tick
    PROVE  /\ UNCHANGED <<spec, tenant, pc, dk, st, error, changes, faults>> /\ pc = "idle" /\ cache' = EmptyCache
           /\ stored' \in Status /\ Keeps(stored, stored') /\ stored'.entity = stored.entity /\ stored'.rules = stored.rules
           /\ \A t \in ConditionType : ~stored'.conditions[t].recent
           /\ quiet' = IF quiet = 0 THEN 1 ELSE quiet
<1> DEFINE later == [t \in ConditionType |-> [stored.conditions[t] EXCEPT !.recent = FALSE]]
<1>1. stored \in Status /\ stored.conditions \in [ConditionType -> Condition]
  BY DEF TypeOK, Status
<1>2. \A t \in ConditionType : [stored.conditions[t] EXCEPT !.recent = FALSE] \in Condition
                                /\ [stored.conditions[t] EXCEPT !.recent = FALSE].recent = FALSE
  <2> TAKE t \in ConditionType
  <2>1. stored.conditions[t] \in Condition
    BY <1>1
  <2> QED BY <2>1 DEF Condition
<1>3. later \in [ConditionType -> Condition] /\ \A t \in ConditionType : ~later[t].recent
  BY <1>2
<1>4. stored' = [stored EXCEPT !.conditions = later]
  BY DEF Tick
<1> HIDE DEF later
<1>5. stored' \in Status /\ Keeps(stored, stored') /\ stored'.entity = stored.entity /\ stored'.rules = stored.rules
      /\ stored'.conditions = later
  BY <1>1, <1>3, <1>4 DEF Status, Keeps
<1> QED BY <1>3, <1>5 DEF Tick

(***************************************************************************)
(* Types, and that no settings object is ever made twice.                  *)
(***************************************************************************)

\* An object is created only by the step that did not find one, and nobody else creates any.
SettingInv == \A s \in Setting : tenant.settings[s] \in 0..1 /\ (pc = CreateStep(s) => tenant.settings[s] = 0)

CacheTyped(c) ==
    /\ DOMAIN c = Request
    /\ \A r \in Request \ {"scopes"} : c[r] \in 0..2
    /\ c["scopes"] \in (SUBSET Scope) \cup {NoReply}

LEMMA CacheKeepsType ==
    ASSUME TypeOK, CacheTypes \/ UNCHANGED cache
    PROVE  CacheTyped(cache)' /\ CacheTyped(cache)
<1>1. CacheTyped(cache)
  BY DEF TypeOK, CacheTyped
<1> QED BY <1>1 DEF CacheTyped, CacheTypes

LEMMA WalkTypes ==
    ASSUME TypeOK, Walk, tenant' \in Tenant, workload' \in BOOLEAN, CacheTyped(cache)'
    PROVE  TypeOK'
<1>1. quiet' \in 0..2 /\ faults' \in 0..MaxFaults
  <2>1. quiet \in 0..2 /\ faults \in 0..MaxFaults
    BY DEF TypeOK
  <2>2. CASE NoFault
    BY <2>1, <2>2 DEF NoFault
  <2>3. CASE Fault
    BY <2>1, <2>3 DEF Fault
  <2> QED BY <2>2, <2>3 DEF Walk
<1>2. spec' \in Specs /\ dk' \in Specs /\ stored' \in Status /\ st' \in Status /\ changes' \in 0..MaxChanges
  BY DEF TypeOK, Walk
<1>3. pc' \in {"idle"} \cup {Step[i] : i \in DOMAIN Step} /\ error' \in {"none", "other", "failed", "unreachable"}
  BY DEF Walk, Steps, Errors, Failure
<1> QED BY <1>1, <1>2, <1>3 DEF TypeOK, CacheTyped

LEMMA EmptyTypes == CacheTyped(EmptyCache) /\ NoStatus \in Status
<1>1. CacheTyped(EmptyCache)
  BY DEF CacheTyped, EmptyCache, Request
<1>2. NoVersion \in VersionStatus /\ NoCondition \in Condition
  BY DEF NoVersion, VersionStatus, Custom, Source, NoCondition, Condition
<1> QED BY <1>1, <1>2 DEF NoStatus, Status

\* a step of the reconcile
Reconciles ==
    \/ VerifyTokens \/ ReconcileEntity \/ CreateConnection \/ RefreshEntity \/ ReconcileActiveGate \/ ReconcileCapability
    \/ \E s \in Setting : ReconcileSetting(s) \/ CreateSetting(s)
    \/ ReconcileCodeModules \/ ReconcileRules \/ ReconcileOneAgent

LEMMA CreatedTenant ==
    ASSUME TypeOK, SettingInv, NEW s \in Setting, pc = CreateStep(s), tenant' = [tenant EXCEPT !.settings[s] = @ + 1]
    PROVE  /\ tenant' \in Tenant /\ tenant'.settings[s] = 1 /\ \A t \in Setting \ {s} : tenant'.settings[t] = tenant.settings[t]
           /\ tenant'.latest = tenant.latest /\ tenant'.scopes = tenant.scopes /\ tenant'.entity = tenant.entity
           /\ tenant'.rules = tenant.rules
<1>1. tenant \in Tenant /\ tenant.settings \in [Setting -> 0..2] /\ tenant.settings[s] = 0
  BY DEF TypeOK, Tenant, SettingInv
<1>2. [tenant.settings EXCEPT ![s] = 1] \in [Setting -> 0..2]
  BY <1>1
<1>3. tenant' = [tenant EXCEPT !.settings[s] = 1]
  BY <1>1
<1> QED BY <1>1, <1>2, <1>3 DEF Tenant

\* Only the step of the capability touches the StatefulSet.
LEMMA WorkloadType ==
    ASSUME TypeOK, Reconciles
    PROVE  workload' \in BOOLEAN
<1>1. workload \in BOOLEAN
  BY DEF TypeOK
<1>2. CASE ReconcileCapability
  BY <1>2, ReconcileCapabilityFields
<1>3. CASE VerifyTokens \/ ReconcileEntity \/ CreateConnection \/ RefreshEntity \/ ReconcileActiveGate
  BY <1>1, <1>3 DEF VerifyTokens, ReconcileEntity, CreateConnection, RefreshEntity, ReconcileActiveGate, Unchanged
<1>4. CASE \E s \in Setting : ReconcileSetting(s) \/ CreateSetting(s)
  BY <1>1, <1>4 DEF ReconcileSetting, CreateSetting, Unchanged
<1>5. CASE ReconcileCodeModules \/ ReconcileRules \/ ReconcileOneAgent
  BY <1>1, <1>5 DEF ReconcileCodeModules, ReconcileRules, ReconcileOneAgent, Unchanged
<1> QED BY <1>2, <1>3, <1>4, <1>5 DEF Reconciles

LEMMA ReconcilesTypes ==
    ASSUME TypeOK, SettingInv, Reconciles
    PROVE  Walk /\ TypeOK'
<1>0. tenant \in Tenant /\ workload' \in BOOLEAN
  BY WorkloadType DEF TypeOK
<1>1. CASE VerifyTokens
  <2>1. CacheTyped(cache)'
    <3>1. \A r \in Request \ {"scopes"} : cache[r] \in 0..2
      BY DEF TypeOK
    <3> QED BY <1>1, <3>1, VerifyTokensFields DEF CacheTyped
  <2> QED BY <1>0, <1>1, <2>1, VerifyTokensFields, WalkTypes
<1>2. CASE ReconcileEntity
  BY <1>0, <1>2, ReconcileEntityFields, CacheKeepsType, WalkTypes
<1>3. CASE CreateConnection
  BY <1>0, <1>3, CreateConnectionFields, CacheKeepsType, WalkTypes DEF EntityAsked
<1>4. CASE RefreshEntity
  BY <1>0, <1>4, RefreshEntityFields, CacheKeepsType, WalkTypes
<1>5. CASE ReconcileActiveGate
  BY <1>0, <1>5, ReconcileActiveGateFields, CacheKeepsType, WalkTypes
<1>6. CASE ReconcileCapability
  BY <1>0, <1>6, ReconcileCapabilityFields, CacheKeepsType, WalkTypes
<1>7. ASSUME NEW s \in Setting, ReconcileSetting(s) PROVE Walk /\ TypeOK'
  BY <1>0, <1>7, ReconcileSettingFields, CacheKeepsType, WalkTypes
<1>8. ASSUME NEW s \in Setting, CreateSetting(s) PROVE Walk /\ TypeOK'
  <2>1. tenant' \in Tenant
    BY <1>0, <1>8, CreateSettingFields, CreatedTenant
  <2> QED BY <1>0, <1>8, <2>1, CreateSettingFields, CacheKeepsType, WalkTypes
<1>9. CASE ReconcileCodeModules
  BY <1>0, <1>9, ReconcileCodeModulesFields, CacheKeepsType, WalkTypes
<1>10. CASE ReconcileRules
  BY <1>0, <1>10, ReconcileRulesFields, CacheKeepsType, WalkTypes
<1>11. CASE ReconcileOneAgent
  BY <1>0, <1>11, ReconcileOneAgentFields, CacheKeepsType, WalkTypes
<1> QED BY <1>1, <1>2, <1>3, <1>4, <1>5, <1>6, <1>7, <1>8, <1>9, <1>10, <1>11 DEF Reconciles

\* What is no step of the reconcile.
Others == Begin \/ WriteStatus \/ Crash \/ EditSpec \/ TenantChanges \/ EntityAppears \/ Tick

LEMMA NextIs == Next <=> Reconciles \/ Others
  BY DEF Next, Reconciles, Others

LEMMA OthersTypes ==
    ASSUME TypeOK, Others
    PROVE  TypeOK'
<1>0. /\ spec \in Specs /\ dk \in Specs /\ tenant \in Tenant /\ stored \in Status /\ st \in Status /\ CacheTyped(cache)
      /\ pc \in {"idle"} \cup {Step[i] : i \in DOMAIN Step} /\ error \in {"none", "other", "failed", "unreachable"}
      /\ quiet \in 0..2 /\ changes \in 0..MaxChanges /\ faults \in 0..MaxFaults
      /\ workload' \in BOOLEAN
  BY DEF TypeOK, CacheTyped, Others, Begin, WriteStatus, Crash, EditSpec, TenantChanges, EntityAppears, Tick
<1>1. \A c, d, t, x, y, p, e, q, n, f :
         /\ c \in Specs /\ d \in Specs /\ t \in Tenant /\ x \in Status /\ y \in Status
         /\ p \in {"idle"} \cup {Step[i] : i \in DOMAIN Step} /\ e \in {"none", "other", "failed", "unreachable"}
         /\ q \in 0..2 /\ n \in 0..MaxChanges /\ f \in 0..MaxFaults
         /\ spec' = c /\ dk' = d /\ tenant' = t /\ stored' = x /\ st' = y /\ pc' = p /\ error' = e /\ quiet' = q /\ changes' = n
         /\ faults' = f /\ CacheTyped(cache)'
         => TypeOK'
  BY <1>0 DEF TypeOK, CacheTyped
<1>2. "tokens" \in Steps /\ NoStatus \in Status /\ CacheTyped(EmptyCache) /\ (cache' = EmptyCache => CacheTyped(cache)')
      /\ (cache' = cache => CacheTyped(cache)')
  BY <1>0, StepNames, EmptyTypes
<1>3. CASE Begin
  BY <1>0, <1>1, <1>2, <1>3, BeginFields DEF Steps
<1>4. CASE WriteStatus
  <2>1. quiet' \in 0..2 /\ faults' \in 0..MaxFaults
    BY <1>0, <1>4, WriteStatusFields DEF Fault, NoFault
  <2> QED BY <1>0, <1>1, <1>2, <1>4, <2>1, WriteStatusFields
<1>5. CASE Crash
  <2>1. quiet' \in 0..2 /\ faults' \in 0..MaxFaults
    BY <1>0, <1>5, CrashFields DEF Fault
  <2> QED BY <1>0, <1>1, <1>2, <1>5, <2>1, CrashFields
<1>6. CASE EditSpec
  <2>1. quiet' \in 0..2 /\ changes' \in 0..MaxChanges
    BY <1>0, <1>6, EditSpecFields DEF Change
  <2>2. dk' \in Specs
    BY <1>0, <1>6, EditSpecFields
  <2> QED BY <1>0, <1>1, <1>2, <1>6, <2>1, <2>2, EditSpecFields
<1>7. CASE TenantChanges
  <2>1. quiet' \in 0..2 /\ changes' \in 0..MaxChanges
    BY <1>0, <1>7, TenantChangesFields DEF Change
  <2> QED BY <1>0, <1>1, <1>2, <1>7, <2>1, TenantChangesFields
<1>8. CASE EntityAppears
  BY <1>0, <1>1, <1>2, <1>8, EntityAppearsFields
<1>9. CASE Tick
  BY <1>0, <1>1, <1>2, <1>9, TickFields
<1> QED BY <1>3, <1>4, <1>5, <1>6, <1>7, <1>8, <1>9 DEF Others

LEMMA SettingStep ==
    ASSUME TypeOK, SettingInv, Next
    PROVE  SettingInv'
<1>0. /\ \A s \in Setting : After(s) \notin {CreateStep("kspm"), CreateStep("logMonitoring")} /\ CreateStep(s) # "write"
      /\ CreateStep("kspm") # CreateStep("logMonitoring") /\ Setting = {"kspm", "logMonitoring"}
      /\ \A s \in Setting : CreateStep(s) \in {"kspmCreate", "logMonitoringCreate"}
  BY DEF After, CreateStep, Setting
<1>1. ASSUME tenant'.settings = tenant.settings, \A s \in Setting : pc' # CreateStep(s) \/ pc' = pc PROVE SettingInv'
  BY <1>1 DEF SettingInv
<1>2. CASE VerifyTokens \/ ReconcileEntity \/ RefreshEntity \/ ReconcileActiveGate \/ ReconcileCapability
           \/ ReconcileCodeModules \/ ReconcileRules \/ ReconcileOneAgent
  <2>1. tenant' = tenant /\ pc' \notin {"kspmCreate", "logMonitoringCreate"}
    <3>1. VerifyTokens => tenant' = tenant /\ pc' \notin {"kspmCreate", "logMonitoringCreate"}
      BY DEF VerifyTokens, Go
    <3> QED BY <1>2, <3>1, ReconcileEntityFields, RefreshEntityFields, ReconcileActiveGateFields, ReconcileCapabilityFields,
               ReconcileCodeModulesFields, ReconcileRulesFields, ReconcileOneAgentFields
  <2> QED BY <1>0, <1>1, <2>1
<1>3. CASE CreateConnection
  BY <1>0, <1>1, <1>3, CreateConnectionFields DEF EntityAsked
<1>4. ASSUME NEW s \in Setting, ReconcileSetting(s) PROVE SettingInv'
  <2>1. tenant' = tenant /\ pc' \in {After(s), CreateStep(s), "write"} /\ (pc' = CreateStep(s) => tenant.settings[s] = 0)
    BY <1>4, ReconcileSettingFields
  <2> QED BY <1>0, <2>1 DEF SettingInv
<1>5. ASSUME NEW s \in Setting, CreateSetting(s) PROVE SettingInv'
  <2>1. pc = CreateStep(s) /\ pc' = After(s) /\ (tenant' = tenant \/ tenant' = [tenant EXCEPT !.settings[s] = @ + 1])
    BY <1>5, CreateSettingFields
  <2>2. \A t \in Setting : tenant'.settings[t] \in 0..1
    BY <2>1, CreatedTenant DEF SettingInv
  <2> QED BY <1>0, <2>1, <2>2 DEF SettingInv
<1>6. CASE Begin \/ WriteStatus \/ Crash \/ EditSpec \/ EntityAppears \/ Tick
  <2>1. tenant'.settings = tenant.settings /\ (pc' \in {"idle", "tokens"} \/ pc' = pc)
    BY <1>6, BeginFields, WriteStatusFields, CrashFields, EditSpecFields, EntityAppearsFields, TickFields
  <2> QED BY <1>0, <1>1, <2>1
<1>7. CASE TenantChanges
  BY <1>7, TenantChangesFields DEF SettingInv
<1> QED BY <1>2, <1>3, <1>4, <1>5, <1>6, <1>7 DEF Next

(***************************************************************************)
(* What a reconcile works on, and the versions it finds.                   *)
(***************************************************************************)

\* Between reconciles nothing is worked on; nobody edits the spec while it is quiet.
SpecInv ==
    /\ pc = "idle" \/ quiet > 0 => dk = spec
    /\ pc = "idle" => st = NoStatus /\ error = "none"

LEMMA Quiet ==
    ASSUME TypeOK, Walk
    PROVE  /\ quiet' > 0 => NoFault /\ quiet' = quiet
           /\ quiet' # 0 => quiet' > 0
           /\ Fault => ~(quiet' > 0)
  BY DEF Walk, NoFault, Fault, TypeOK

LEMMA SpecStep ==
    ASSUME TypeOK, SettingInv, SpecInv, Next
    PROVE  SpecInv'
<1>1. CASE Reconciles
  <2>1. Walk /\ pc' # "idle"
    BY <1>1, ReconcilesTypes, StepNames DEF Walk
  <2>2. quiet' > 0 => quiet > 0
    BY <2>1, Quiet
  <2> QED BY <2>1, <2>2 DEF SpecInv, Walk
<1>2. CASE Begin \/ WriteStatus \/ Crash
  BY <1>2, BeginFields, WriteStatusFields, CrashFields DEF SpecInv
<1>3. CASE EditSpec
  <2>1. ~(quiet' > 0)
    BY <1>3, EditSpecFields DEF Change
  <2> QED BY <1>3, <2>1, EditSpecFields DEF SpecInv
<1>4. CASE TenantChanges \/ EntityAppears
  <2>1. ~(quiet' > 0)
    BY <1>4, TenantChangesFields, EntityAppearsFields DEF Change
  <2> QED BY <1>4, <2>1, TenantChangesFields, EntityAppearsFields DEF SpecInv
<1>5. CASE Tick
  BY <1>5, TickFields DEF SpecInv
<1> QED BY <1>1, <1>2, <1>3, <1>4, <1>5, NextIs DEF Others

\* A version from the tenant's registry has an image, which is what the check for a downgrade looks at.
HasImage(x) == x.versions["oneAgent"].source = "tenant-registry" => x.versions["oneAgent"].image # "none"
\* the same source before and after, and an older version
Downgrades(old, new) ==
    old.source = "tenant-registry" /\ new.source = "tenant-registry" /\ ~(new.version >= old.version)

ImageInv == HasImage(stored) /\ HasImage(st)
OldVersionInv ==
    LET old == stored.versions["oneAgent"]
        new == st.versions["oneAgent"]
    IN  pc # "idle" => new = old \/ (pc = "write" /\ ~Downgrades(old, new))

LEMMA NoDowngradeFound ==
    ASSUME TypeOK, HasImage(st), NEW latest \in 1..2
    PROVE  LET new == Updated("oneAgent", latest)
           IN  /\ ~Downgrades(st.versions["oneAgent"], new)
               /\ new.source = "tenant-registry" => new.image # "none"
<1> DEFINE old == st.versions["oneAgent"]
           source == DetermineSource("oneAgent")
           version == IF source = "custom-version" THEN dk["oneAgent"].version ELSE latest
           new == Updated("oneAgent", latest)
<1>1. old \in VersionStatus /\ old.version \in 0..3
  BY DEF TypeOK, Status, VersionStatus, Component, Custom
<1>2. version \in 0..2
  BY ComponentSpecs DEF TypeOK, Component
<1>3. CASE source = "custom-image"
  <2>1. new = [image |-> "custom", version |-> Custom, source |-> "custom-image"]
    BY <1>3 DEF Updated
  <2>2. new.source = "custom-image"
    BY <2>1
  <2> QED BY <2>2 DEF Downgrades
<1>4. CASE source # "custom-image" /\ HeldBack("oneAgent")
  BY <1>1, <1>4 DEF Updated, Downgrades, HasImage
<1>5. CASE source # "custom-image" /\ ~HeldBack("oneAgent") /\ IsDowngrade("oneAgent", version)
  <2>1. new = [old EXCEPT !.source = source]
    BY <1>5 DEF Updated
  <2>2. old.image # "none"
    BY <1>5 DEF IsDowngrade
  <2> HIDE DEF new, old
  <2>3. new.version = old.version /\ new.image = old.image
    BY <1>1, <2>1 DEF VersionStatus
  <2>4. new.image # "none" /\ (new.version >= old.version)
    BY <1>1, <2>2, <2>3
  <2> QED BY <2>4 DEF Downgrades, new, old
<1>6. CASE source # "custom-image" /\ ~HeldBack("oneAgent") /\ ~IsDowngrade("oneAgent", version)
  <2>1. new = [image |-> IF source = "public-registry" THEN "public" ELSE "tenant", version |-> version, source |-> source]
    BY <1>6 DEF Updated
  <2>2. new.image # "none" /\ new.version = version
    BY <2>1
  <2>3. old.source = "tenant-registry" => ~(version < old.version)
    BY <1>6 DEF IsDowngrade, HasImage
  <2> QED BY <1>1, <1>2, <2>2, <2>3 DEF Downgrades
<1> QED BY <1>3, <1>4, <1>5, <1>6

LEMMA NoOldVersion == NoVersion.source = "none" /\ HasImage(NoStatus) /\ \A v : ~Downgrades(v, NoVersion)
  BY DEF NoVersion, HasImage, NoStatus, Downgrades, Component

LEMMA OldVersionStep ==
    ASSUME TypeOK, SettingInv, SpecInv, ImageInv, OldVersionInv, Next
    PROVE  ImageInv' /\ OldVersionInv'
<1>1. ASSUME stored'.versions["oneAgent"] = stored.versions["oneAgent"], st'.versions["oneAgent"] = st.versions["oneAgent"],
             pc # "idle", pc # "write"
      PROVE  ImageInv' /\ OldVersionInv'
  BY <1>1 DEF ImageInv, HasImage, OldVersionInv
<1>2. ASSUME stored'.versions["oneAgent"] = stored.versions["oneAgent"], pc' = "idle", st' = NoStatus
      PROVE  ImageInv' /\ OldVersionInv'
  BY <1>2, NoOldVersion DEF ImageInv, HasImage, OldVersionInv
<1>3. "oneAgent" \in Component \ {"activeGate"} /\ "oneAgent" \in Component \ {"codeModules"}
      /\ \A s \in Setting : s \notin {"idle", "write"} /\ CreateStep(s) \notin {"idle", "write"}
  BY DEF Component, Setting, CreateStep
<1>4. CASE VerifyTokens \/ ReconcileEntity \/ CreateConnection \/ RefreshEntity \/ ReconcileCapability \/ ReconcileRules
  <2>1. stored' = stored /\ pc \notin {"idle", "write"} /\ st'.versions = st.versions
    BY <1>4, VerifyTokensFields, ReconcileEntityFields, CreateConnectionFields, RefreshEntityFields, ReconcileCapabilityFields,
       ReconcileRulesFields DEF Walk, SameRest, Keeps, OnlyCondition
  <2> QED BY <1>1, <2>1
<1>5. ASSUME NEW s \in Setting, ReconcileSetting(s) \/ CreateSetting(s) PROVE ImageInv' /\ OldVersionInv'
  <2>1. stored' = stored /\ pc \notin {"idle", "write"} /\ st'.versions = st.versions
    BY <1>3, <1>5, ReconcileSettingFields, CreateSettingFields DEF Walk, OnlyCondition
  <2> QED BY <1>1, <2>1
<1>6. CASE ReconcileActiveGate \/ ReconcileCodeModules
  <2>1. stored' = stored /\ pc \notin {"idle", "write"} /\ st'.versions["oneAgent"] = st.versions["oneAgent"]
    BY <1>3, <1>6, ReconcileActiveGateFields, ReconcileCodeModulesFields DEF Walk, OnlyVersion
  <2> QED BY <1>1, <2>1
<1>7. CASE ReconcileOneAgent
  <2>1. stored' = stored /\ pc = "oneAgent" /\ pc' = "write"
        /\ \/ st' = st
           \/ st'.versions["oneAgent"] = NoVersion
           \/ \E latest \in 1..2 : st'.versions["oneAgent"] = Updated("oneAgent", latest)
    BY <1>7, ReconcileOneAgentFields DEF Walk
  <2>2. st.versions["oneAgent"] = stored.versions["oneAgent"]
    BY <2>1 DEF OldVersionInv
  <2>3. CASE st' = st
    BY <2>1, <2>2, <2>3 DEF ImageInv, OldVersionInv
  <2>4. CASE st'.versions["oneAgent"] = NoVersion
    BY <2>1, <2>4, NoOldVersion DEF ImageInv, OldVersionInv, HasImage
  <2>5. ASSUME NEW latest \in 1..2, st'.versions["oneAgent"] = Updated("oneAgent", latest) PROVE ImageInv' /\ OldVersionInv'
    <3>1. ~Downgrades(stored.versions["oneAgent"], st'.versions["oneAgent"])
      BY <2>2, <2>5, NoDowngradeFound DEF ImageInv
    <3>2. HasImage(st)'
      BY <2>5, NoDowngradeFound DEF ImageInv, HasImage
    <3> QED BY <2>1, <3>1, <3>2 DEF ImageInv, OldVersionInv, HasImage
  <2> QED BY <2>1, <2>3, <2>4, <2>5
<1>8. CASE Begin
  BY <1>8, BeginFields DEF ImageInv, OldVersionInv
<1>9. CASE WriteStatus
  <2>1. pc' = "idle" /\ st' = NoStatus /\ stored' \in {st, stored}
    BY <1>9, WriteStatusFields
  <2> QED BY <2>1, NoOldVersion DEF ImageInv, OldVersionInv
<1>10. CASE Crash
  BY <1>2, <1>10, CrashFields
<1>11. CASE EditSpec \/ TenantChanges \/ EntityAppears
  BY <1>11, EditSpecFields, TenantChangesFields, EntityAppearsFields DEF ImageInv, OldVersionInv
<1>12. CASE Tick
  <2>1. stored'.versions = stored.versions /\ pc' = "idle" /\ st' = NoStatus
    BY <1>12, TickFields DEF Keeps, SpecInv
  <2> QED BY <1>2, <2>1
<1> QED BY <1>4, <1>5, <1>6, <1>7, <1>8, <1>9, <1>10, <1>11, <1>12 DEF Next

\* The stored version changes only at the end of a reconcile.
LEMMA StoredStep ==
    ASSUME TypeOK, SettingInv, OldVersionInv, Next
    PROVE  ~Downgrades(stored.versions["oneAgent"], stored'.versions["oneAgent"])
<1>1. ASSUME NEW v \in VersionStatus PROVE ~Downgrades(v, v)
  BY DEF Downgrades, VersionStatus, Custom
<1>2. stored.versions["oneAgent"] \in VersionStatus
  BY DEF TypeOK, Status, Component
<1>3. CASE WriteStatus
  <2>1. pc = "write" /\ stored' \in {st, stored}
    BY <1>3, WriteStatusFields
  <2> QED BY <1>1, <1>2, <2>1 DEF OldVersionInv
<1>4. CASE ~WriteStatus
  <2>1. stored'.versions = stored.versions
    BY <1>4, ReconcilesTypes, NextIs, BeginFields, CrashFields, EditSpecFields, TenantChangesFields, EntityAppearsFields,
       TickFields DEF Walk, Others, Keeps
  <2> QED BY <1>1, <1>2, <2>1
<1> QED BY <1>3, <1>4

(***************************************************************************)
(* While it is quiet: what is cached, the scopes and the versions.         *)
(***************************************************************************)

\* What is left of the tenant during a reconcile, but for the settings objects.
SameTenant ==
    /\ tenant'.latest = tenant.latest /\ tenant'.scopes = tenant.scopes /\ tenant'.rules = tenant.rules
    /\ (tenant'.entity = "there") = (tenant.entity = "there")

LEMMA ReconcilesTenant ==
    ASSUME TypeOK, SettingInv, Reconciles
    PROVE  SameTenant
<1>1. ASSUME NEW s \in Setting, CreateSetting(s) PROVE SameTenant
  BY <1>1, CreateSettingFields, CreatedTenant DEF SameTenant
<1>2. ASSUME NEW s \in Setting, ReconcileSetting(s) PROVE SameTenant
  BY <1>2, ReconcileSettingFields DEF SameTenant
<1>3. CreateConnection => SameTenant
  BY CreateConnectionFields DEF SameTenant, EntityAsked
<1>4. \/ VerifyTokens \/ ReconcileEntity \/ RefreshEntity \/ ReconcileActiveGate \/ ReconcileCapability
      \/ ReconcileCodeModules \/ ReconcileRules \/ ReconcileOneAgent
      => SameTenant
  BY VerifyTokensFields, ReconcileEntityFields, RefreshEntityFields, ReconcileActiveGateFields, ReconcileCapabilityFields,
     ReconcileCodeModulesFields, ReconcileRulesFields, ReconcileOneAgentFields DEF SameTenant
<1> QED BY <1>1, <1>2, <1>3, <1>4 DEF Reconciles

\* A step of the reconcile after which it is still quiet met no fault.
LEMMA QuietWalk ==
    ASSUME TypeOK, SettingInv, Reconciles, quiet' > 0
    PROVE  Walk /\ NoFault /\ ~Fault /\ quiet > 0 /\ quiet' = quiet /\ dk' = dk /\ stored' = stored /\ SameTenant /\ pc' # "idle"
<1>1. Walk /\ SameTenant
  BY ReconcilesTypes, ReconcilesTenant
<1>2. pc' # "idle"
  BY <1>1, StepNames DEF Walk
<1> QED BY <1>1, <1>2, Quiet DEF Walk

\* Of the other steps only these leave it quiet, and a reconcile that ends counts for nothing before the threshold.
LEMMA QuietOthers ==
    ASSUME TypeOK, Others, quiet' > 0
    PROVE  /\ UNCHANGED <<spec, tenant>>
           /\ \/ Begin /\ quiet' = quiet /\ quiet > 0
              \/ WriteStatus /\ quiet > 0 /\ (quiet' = quiet \/ (quiet' = 2 /\ stored' = st /\ error = "none"))
              \/ Tick
<1>1. ~(Crash \/ EditSpec \/ TenantChanges \/ EntityAppears)
  <2>1. Crash => ~(quiet' > 0)
    BY CrashFields DEF Fault
  <2>2. EditSpec \/ TenantChanges => ~(quiet' > 0)
    BY EditSpecFields, TenantChangesFields DEF Change
  <2>3. EntityAppears => ~(quiet' > 0)
    BY EntityAppearsFields
  <2> QED BY <2>1, <2>2, <2>3
<1>2. quiet \in 0..2
  BY DEF TypeOK
<1>3. CASE Begin
  BY <1>3, BeginFields
<1>4. CASE WriteStatus
  <2>1. \/ stored' = st /\ quiet' = IF quiet \in {1, 2} /\ error = "none" THEN 2 ELSE quiet
        \/ quiet' = quiet
        \/ ~(quiet' > 0)
    BY <1>4, WriteStatusFields DEF NoFault, Fault
  <2> QED BY <1>2, <1>4, <2>1, WriteStatusFields
<1>5. CASE Tick
  BY <1>5, TickFields
<1> QED BY <1>1, <1>3, <1>4, <1>5 DEF Others

\* What is cached is what the tenant would answer.
CacheInv ==
    quiet > 0 =>
        /\ \A r \in Request \ {"scopes"} : cache[r] \in {0, tenant.latest}
        /\ cache["scopes"] \in {NoReply, tenant.scopes}

LEMMA LatestAnswer ==
    ASSUME CacheInv, quiet > 0, NEW c \in Component
    PROVE  Answer(RequestOf(c)) = tenant.latest
<1>1. RequestOf(c) = "none" \/ RequestOf(c) \in Request \ {"scopes"}
  BY DEF RequestOf, Request, Component
<1> QED BY <1>1 DEF Answer, CacheInv

LEMMA CacheStep ==
    ASSUME TypeOK, SettingInv, CacheInv, Next
    PROVE  CacheInv'
<1> SUFFICES ASSUME quiet' > 0
             PROVE  /\ \A r \in Request \ {"scopes"} : cache'[r] \in {0, tenant'.latest}
                    /\ cache'["scopes"] \in {NoReply, tenant'.scopes}
  BY DEF CacheInv
<1>1. CASE Reconciles
  <2>1. quiet > 0 /\ ~Fault /\ SameTenant
    BY <1>1, QuietWalk
  <2>2. (\A r \in Request \ {"scopes"} : cache[r] \in {0, tenant.latest}) /\ cache["scopes"] \in {NoReply, tenant.scopes}
    BY <2>1 DEF CacheInv
  <2>3. \A c \in Component : Answer(RequestOf(c)) = tenant.latest
    BY <2>1, LatestAnswer
  <2>4. CASE VerifyTokens
    <3>1. \A r \in Request \ {"scopes"} : cache'[r] = cache[r]
      BY <2>4, VerifyTokensFields
    <3>2. cache'["scopes"] \in {cache["scopes"], tenant.scopes}
      BY <2>1, <2>4, VerifyTokensFields
    <3> QED BY <2>1, <2>2, <3>1, <3>2 DEF SameTenant
  <2>5. CASE ReconcileActiveGate \/ ReconcileCodeModules \/ ReconcileOneAgent
    <3>1. "activeGate" \in Component /\ "codeModules" \in Component /\ "oneAgent" \in Component
      BY DEF Component
    <3>2. CacheTypes /\ (UNCHANGED cache \/ \A r \in Request \ {"scopes"} : cache'[r] \in {cache[r], tenant.latest})
      BY <2>1, <2>3, <2>5, <3>1, ReconcileActiveGateFields, ReconcileCodeModulesFields, ReconcileOneAgentFields
    <3> QED BY <2>1, <2>2, <3>2 DEF SameTenant, CacheTypes
  <2>6. CASE cache' = cache
    BY <2>1, <2>2, <2>6 DEF SameTenant
  <2>7. ReconcileEntity \/ CreateConnection \/ RefreshEntity \/ ReconcileCapability \/ ReconcileRules => cache' = cache
    BY ReconcileEntityFields, CreateConnectionFields, RefreshEntityFields, ReconcileCapabilityFields, ReconcileRulesFields
  <2>8. ASSUME NEW s \in Setting, ReconcileSetting(s) \/ CreateSetting(s) PROVE cache' = cache
    BY <2>8, ReconcileSettingFields, CreateSettingFields
  <2> QED BY <1>1, <2>4, <2>5, <2>6, <2>7, <2>8 DEF Reconciles
<1>2. CASE Others
  <2>1. CASE (Begin \/ WriteStatus) /\ quiet > 0
    BY <2>1, BeginFields, WriteStatusFields DEF CacheInv
  <2>2. CASE Tick
    <3>1. (\A r \in Request \ {"scopes"} : EmptyCache[r] = 0) /\ EmptyCache["scopes"] = NoReply
      BY DEF EmptyCache, Request
    <3> QED BY <2>2, <3>1, TickFields
  <2> QED BY <1>2, <2>1, <2>2, QuietOthers
<1> QED BY <1>1, <1>2, NextIs

\* The scopes a reconcile works with are those of the token.
ScopesInv ==
    quiet > 0 /\ pc \notin {"idle", "tokens"} =>
        st.scopes = IF dk.platform THEN {} ELSE tenant.scopes \cap OptionalScopes

LEMMA ScopesStep ==
    ASSUME TypeOK, SettingInv, CacheInv, ScopesInv, Next
    PROVE  ScopesInv'
<1> SUFFICES ASSUME quiet' > 0, pc' \notin {"idle", "tokens"}
             PROVE  (st.scopes = IF dk.platform THEN {} ELSE tenant.scopes \cap OptionalScopes)'
  BY DEF ScopesInv
<1>1. CASE Reconciles
  <2>1. quiet > 0 /\ ~Fault /\ SameTenant /\ dk' = dk
    BY <1>1, QuietWalk
  <2>2. OptionalScopes' = OptionalScopes
    BY <2>1 DEF OptionalScopes
  <2>3. CASE VerifyTokens
    <3>1. dk.platform \in BOOLEAN /\ cache["scopes"] \in {NoReply, tenant.scopes}
      BY <2>1, SpecFlags DEF TypeOK, CacheInv
    <3>2. st'.scopes = IF dk.platform THEN {} ELSE tenant.scopes \cap OptionalScopes
      BY <2>1, <2>3, <3>1, VerifyTokensFields
    <3> QED BY <2>1, <2>2, <3>2 DEF SameTenant
  <2>4. CASE st'.scopes = st.scopes /\ pc \notin {"idle", "tokens"}
    BY <2>1, <2>2, <2>4 DEF SameTenant, ScopesInv
  <2>5. \/ ReconcileEntity \/ CreateConnection \/ RefreshEntity \/ ReconcileActiveGate \/ ReconcileCapability
        \/ ReconcileCodeModules \/ ReconcileRules \/ ReconcileOneAgent
        => st'.scopes = st.scopes /\ pc \notin {"idle", "tokens"}
    BY ReconcileEntityFields, CreateConnectionFields, RefreshEntityFields, ReconcileActiveGateFields, ReconcileCapabilityFields,
       ReconcileCodeModulesFields, ReconcileRulesFields, ReconcileOneAgentFields DEF SameRest, Keeps, OnlyCondition, OnlyVersion
  <2>6. ASSUME NEW s \in Setting, ReconcileSetting(s) \/ CreateSetting(s) PROVE st'.scopes = st.scopes /\ pc \notin {"idle", "tokens"}
    BY <2>6, ReconcileSettingFields, CreateSettingFields DEF OnlyCondition, Setting, CreateStep
  <2> QED BY <1>1, <2>3, <2>4, <2>5, <2>6 DEF Reconciles
<1>2. CASE Others
  <2>1. pc' \in {"idle", "tokens"}
    BY <1>2, QuietOthers, BeginFields, WriteStatusFields, TickFields
  <2> QED BY <2>1
<1> QED BY <1>1, <1>2, NextIs

\* The version that the spec and the tenant ask for, of the spec the reconcile works on.
Asked(c) ==
    IF DetermineSource(c) = "custom-image" THEN Custom
    ELSE IF DetermineSource(c) = "custom-version" THEN dk[c].version ELSE tenant.latest
Follows(v, c) ==
    /\ v.source = DetermineSource(c)
    /\ \/ v.version = Asked(c)
       \/ ~AutoUpdate(c) /\ DetermineSource(c) # "custom-version"
       \/ c = "oneAgent" /\ v.version > Asked(c)
VersionOK(x, c) ==
    IF Enabled(c) THEN Follows(x.versions[c], c)
    ELSE x.versions[c] = NoVersion \/ (c = "activeGate" /\ ~x.statefulSet)

LEMMA UpdatedFollows ==
    ASSUME TypeOK, NEW c \in Component
    PROVE  Follows(Updated(c, tenant.latest), c)
<1> DEFINE old == st.versions[c]
           source == DetermineSource(c)
           version == IF source = "custom-version" THEN dk[c].version ELSE tenant.latest
           new == Updated(c, tenant.latest)
<1>1. old \in VersionStatus
  BY DEF TypeOK, Status
<1>2. source # "custom-image" => version = Asked(c)
  BY DEF Asked
<1>3. CASE source = "custom-image"
  <2>1. new = [image |-> "custom", version |-> Custom, source |-> source]
    BY <1>3 DEF Updated
  <2> QED BY <1>3, <2>1 DEF Follows, Asked
<1>4. CASE source # "custom-image" /\ HeldBack(c)
  <2>1. new = old
    BY <1>4 DEF Updated
  <2> QED BY <1>4, <2>1 DEF Follows, HeldBack
<1>5. CASE source # "custom-image" /\ ~HeldBack(c) /\ IsDowngrade(c, version)
  <2>1. new = [old EXCEPT !.source = source]
    BY <1>5 DEF Updated
  <2>2. c = "oneAgent" /\ version < old.version
    BY <1>5 DEF IsDowngrade
  <2>3. tenant.latest \in 0..2 /\ dk[c].version \in 0..2
    BY ComponentSpecs DEF TypeOK, Tenant
  <2>4. version \in 0..2
    BY <2>3
  <2> HIDE DEF new, old, version
  <2>5. new.source = source /\ new.version = old.version /\ old.version \in 0..3
    BY <1>1, <2>1 DEF VersionStatus, Custom
  <2>6. new.version > version
    BY <2>2, <2>4, <2>5
  <2> QED BY <1>2, <1>5, <2>2, <2>5, <2>6 DEF Follows, new
<1>6. CASE source # "custom-image" /\ ~HeldBack(c) /\ ~IsDowngrade(c, version)
  <2>1. new = [image |-> IF source = "public-registry" THEN "public" ELSE IF c = "codeModules" THEN "none" ELSE "tenant",
               version |-> version, source |-> source]
    BY <1>6 DEF Updated
  <2>2. new.version = version /\ new.source = source
    BY <2>1
  <2> QED BY <1>2, <1>6, <2>2 DEF Follows
<1> QED BY <1>3, <1>4, <1>5, <1>6

\* As long as the spec and the tenant stay, so does what is right.
LEMMA SameFollows ==
    ASSUME dk' = dk, tenant'.latest = tenant.latest, NEW c \in Component
    PROVE  /\ DetermineSource(c)' = DetermineSource(c)
           /\ AutoUpdate(c)' <=> AutoUpdate(c)
           /\ Asked(c)' = Asked(c)
           /\ Enabled(c)' <=> Enabled(c)
<1>1. DetermineSource(c)' = DetermineSource(c)
  BY DEF DetermineSource
<1>2. AutoUpdate(c)' <=> AutoUpdate(c)
  BY DEF AutoUpdate
<1>3. Asked(c)' = Asked(c)
  BY <1>1 DEF Asked
<1> QED BY <1>1, <1>2, <1>3 DEF Enabled

LEMMA VersionKept ==
    ASSUME dk' = dk, tenant'.latest = tenant.latest, NEW c \in Component
    PROVE  /\ st'.versions[c] = st.versions[c] /\ st'.statefulSet = st.statefulSet /\ VersionOK(st, c) => VersionOK(st, c)'
           /\ stored'.versions[c] = stored.versions[c] /\ stored'.statefulSet = stored.statefulSet /\ VersionOK(stored, c)
              => VersionOK(stored, c)'
           /\ stored' = st /\ VersionOK(st, c) => VersionOK(stored, c)'
  BY SameFollows DEF VersionOK, Follows

\* An updater that meets no fault leaves the version as it should be.
LEMMA VersionFound ==
    ASSUME TypeOK, dk' = dk, tenant'.latest = tenant.latest, NEW c \in Component,
           \/ ~Enabled(c) /\ st'.versions[c] = NoVersion
           \/ Enabled(c) /\ st'.versions[c] = Updated(c, tenant.latest)
    PROVE  VersionOK(st, c)'
  BY SameFollows, UpdatedFollows DEF VersionOK, Follows

ActiveGateFound == pc \notin {"idle", "tokens", "entity", "connection", "refresh", "activeGate"}
VersionInv ==
    quiet > 0 =>
        /\ ActiveGateFound => VersionOK(st, "activeGate")
        /\ pc \in {"rules", "oneAgent", "write"} => VersionOK(st, "codeModules")
        /\ pc = "write" => VersionOK(st, "oneAgent")
        /\ quiet = 2 => \A c \in Component : VersionOK(stored, c)

LEMMA VersionStep ==
    ASSUME TypeOK, SettingInv, SpecInv, CacheInv, VersionInv, Next
    PROVE  VersionInv'
<1>0. "activeGate" \in Component /\ "codeModules" \in Component /\ "oneAgent" \in Component
      /\ Component = {"oneAgent", "activeGate", "codeModules"}
  BY DEF Component
<1>1. ASSUME quiet' > 0, Reconciles PROVE VersionInv'
  <2>1. quiet > 0 /\ quiet' = quiet /\ ~Fault /\ dk' = dk /\ tenant'.latest = tenant.latest /\ stored' = stored
    BY <1>1, QuietWalk DEF SameTenant
  <2>2. quiet' = 2 => \A c \in Component : VersionOK(stored, c)'
    BY <2>1, VersionKept DEF VersionInv
  <2>3. \A c \in Component : Answer(RequestOf(c)) = tenant.latest
    BY <2>1, LatestAnswer
  <2>4. ASSUME NEW c \in Component, st'.versions[c] = st.versions[c], st'.statefulSet = st.statefulSet, VersionOK(st, c)
        PROVE  VersionOK(st, c)'
    BY <2>1, <2>4, VersionKept
  <2>5. CASE VerifyTokens \/ ReconcileEntity \/ CreateConnection \/ RefreshEntity
    <3>1. pc' \in {"entity", "connection", "refresh", "activeGate"}
      BY <2>1, <2>5, VerifyTokensFields, ReconcileEntityFields, CreateConnectionFields, RefreshEntityFields
    <3> QED BY <2>2, <3>1 DEF VersionInv, ActiveGateFound
  <2>6. CASE ReconcileActiveGate
    <3>1. CASE st' = st /\ ~Enabled("activeGate") /\ ~st.statefulSet /\ pc' = "kspm"
      <4>1. VersionOK(st, "activeGate")
        BY <3>1 DEF VersionOK
      <4>2. VersionOK(st, "activeGate")'
        BY <1>0, <2>4, <3>1, <4>1
      <4> QED BY <2>2, <3>1, <4>2 DEF VersionInv
    <3>2. CASE /\ pc' = "capability"
               /\ \/ ~Enabled("activeGate") /\ st'.versions["activeGate"] = NoVersion
                  \/ Enabled("activeGate") /\ st'.versions["activeGate"] = Updated("activeGate", tenant.latest)
      <4>1. VersionOK(st, "activeGate")'
        BY <1>0, <2>1, <3>2, VersionFound
      <4> QED BY <2>2, <3>2, <4>1 DEF VersionInv
    <3> QED BY <1>0, <2>1, <2>3, <2>6, <3>1, <3>2, ReconcileActiveGateFields
  <2>7. CASE ReconcileCapability
    <3>1. pc' = "kspm" /\ pc = "capability" /\ st'.versions = st.versions
          /\ (~Enabled("activeGate") => ~st'.statefulSet)
      BY <2>1, <2>7, ReconcileCapabilityFields
    <3>2. VersionOK(st, "activeGate")
      BY <2>1, <3>1 DEF VersionInv, ActiveGateFound
    <3>3. VersionOK(st, "activeGate")'
      BY <1>0, <2>1, <3>1, <3>2, SameFollows DEF VersionOK, Follows
    <3> QED BY <2>2, <3>1, <3>3 DEF VersionInv
  <2>8. ASSUME NEW s \in Setting, ReconcileSetting(s) \/ CreateSetting(s) PROVE VersionInv'
    <3>1. pc \in {s, CreateStep(s)} /\ pc' \in {After(s), CreateStep(s)} /\ OnlyCondition(st, st', s)
      BY <2>1, <2>8, ReconcileSettingFields, CreateSettingFields
    <3>2. pc \in {"kspm", "kspmCreate", "logMonitoring", "logMonitoringCreate"}
          /\ pc' \in {"kspmCreate", "logMonitoring", "logMonitoringCreate", "codeModules"}
      BY <3>1 DEF Setting, CreateStep, After
    <3>3. VersionOK(st, "activeGate")
      BY <2>1, <3>2 DEF VersionInv, ActiveGateFound
    <3>4. VersionOK(st, "activeGate")'
      BY <1>0, <2>4, <3>1, <3>3 DEF OnlyCondition
    <3> QED BY <2>2, <3>2, <3>4 DEF VersionInv
  <2>9. CASE ReconcileCodeModules
    <3>1. pc = "codeModules" /\ pc' = "rules" /\ OnlyVersion(st, st', "codeModules")
          /\ \/ ~Enabled("codeModules") /\ st'.versions["codeModules"] = NoVersion
             \/ Enabled("codeModules") /\ st'.versions["codeModules"] = Updated("codeModules", tenant.latest)
      BY <1>0, <2>1, <2>3, <2>9, ReconcileCodeModulesFields
    <3>2. VersionOK(st, "codeModules")'
      BY <1>0, <2>1, <3>1, VersionFound
    <3>3. VersionOK(st, "activeGate")'
      BY <1>0, <2>1, <2>4, <3>1 DEF VersionInv, ActiveGateFound, OnlyVersion
    <3> QED BY <2>2, <3>1, <3>2, <3>3 DEF VersionInv
  <2>10. CASE ReconcileRules
    <3>1. pc = "rules" /\ pc' = "oneAgent" /\ st'.versions = st.versions /\ st'.statefulSet = st.statefulSet
      BY <2>10, ReconcileRulesFields DEF SameRest, Keeps
    <3>2. VersionOK(st, "activeGate")' /\ VersionOK(st, "codeModules")'
      BY <1>0, <2>1, <2>4, <3>1 DEF VersionInv, ActiveGateFound
    <3> QED BY <2>2, <3>1, <3>2 DEF VersionInv
  <2>11. CASE ReconcileOneAgent
    <3>1. pc = "oneAgent" /\ pc' = "write" /\ OnlyVersion(st, st', "oneAgent")
          /\ \/ ~Enabled("oneAgent") /\ st'.versions["oneAgent"] = NoVersion
             \/ Enabled("oneAgent") /\ st'.versions["oneAgent"] = Updated("oneAgent", tenant.latest)
      BY <1>0, <2>1, <2>3, <2>11, ReconcileOneAgentFields
    <3>2. VersionOK(st, "oneAgent")'
      BY <1>0, <2>1, <3>1, VersionFound
    <3>3. VersionOK(st, "activeGate")' /\ VersionOK(st, "codeModules")'
      BY <1>0, <2>1, <2>4, <3>1 DEF VersionInv, ActiveGateFound, OnlyVersion
    <3> QED BY <2>2, <3>1, <3>2, <3>3 DEF VersionInv
  <2> QED BY <1>1, <2>5, <2>6, <2>7, <2>8, <2>9, <2>10, <2>11 DEF Reconciles
<1>2. ASSUME quiet' > 0, Others PROVE VersionInv'
  <2>1. tenant' = tenant /\ spec' = spec
    BY <1>2, QuietOthers
  <2>2. CASE Begin /\ quiet' = quiet /\ quiet > 0
    <3>1. dk' = dk /\ stored' = stored /\ pc' = "tokens"
      BY <2>2, BeginFields DEF SpecInv
    <3>2. quiet' = 2 => \A c \in Component : VersionOK(stored, c)'
      BY <2>1, <2>2, <3>1, VersionKept DEF VersionInv
    <3> QED BY <3>1, <3>2 DEF VersionInv, ActiveGateFound
  <2>3. CASE WriteStatus /\ quiet > 0 /\ (quiet' = quiet \/ (quiet' = 2 /\ stored' = st /\ error = "none"))
    <3>1. pc = "write" /\ pc' = "idle" /\ dk' = spec /\ (stored' = st \/ stored' = stored) /\ dk' = dk
      BY <2>3, WriteStatusFields DEF SpecInv
    <3>2. \A c \in Component : VersionOK(st, c)
      BY <1>0, <2>3, <3>1 DEF VersionInv, ActiveGateFound
    <3>3. ASSUME quiet' = 2, NEW c \in Component PROVE VersionOK(stored, c)'
      <4>1. CASE stored' = st
        BY <2>1, <3>1, <3>2, <4>1, VersionKept
      <4>2. CASE stored' = stored /\ quiet = 2
        BY <2>1, <2>3, <3>1, <4>2, VersionKept DEF VersionInv
      <4> QED BY <2>3, <3>1, <3>3, <4>1, <4>2
    <3> QED BY <3>1, <3>3 DEF VersionInv, ActiveGateFound
  <2>4. CASE Tick
    <3>1. pc' = "idle" /\ dk' = dk /\ stored'.versions = stored.versions /\ stored'.statefulSet = stored.statefulSet
          /\ (quiet' = 2 => quiet = 2)
      BY <2>4, TickFields DEF Keeps
    <3>2. quiet' = 2 => \A c \in Component : VersionOK(stored, c)'
      BY <2>1, <3>1, VersionKept DEF VersionInv
    <3> QED BY <3>1, <3>2 DEF VersionInv, ActiveGateFound
  <2> QED BY <1>2, <2>2, <2>3, <2>4, QuietOthers
<1>3. CASE ~(quiet' > 0)
  BY <1>3 DEF VersionInv
<1> QED BY <1>1, <1>2, <1>3, NextIs

(***************************************************************************)
(* While it is quiet: the entity, the rules and the settings objects.      *)
(***************************************************************************)

LEMMA SameMay ==
    ASSUME dk' = dk, SameTenant
    PROVE  /\ MayRead' <=> MayRead
           /\ MayWrite' <=> MayWrite
           /\ RulesNeeded' <=> RulesNeeded
           /\ \A s \in Setting : SettingEnabled(s)' <=> SettingEnabled(s)
<1>1. OptionalScopes' = OptionalScopes
  BY DEF OptionalScopes
<1> QED BY <1>1 DEF SameTenant, MayRead, MayWrite, RulesNeeded, SettingEnabled

\* A scope that the token has and some feature asks for is available, and requests with it are granted.
LEMMA Asking ==
    ASSUME ScopesInv, quiet > 0, pc \notin {"idle", "tokens"}
    PROVE  /\ MayRead => Available("settings.read") /\ Granted("settings.read")
           /\ MayWrite => Available("settings.write") /\ Granted("settings.write")
  BY DEF ScopesInv, MayRead, MayWrite, Available, Granted

\* During a reconcile no settings object goes away.
LEMMA ReconcilesSettings ==
    ASSUME TypeOK, SettingInv, Reconciles, NEW t \in Setting, tenant.settings[t] = 1
    PROVE  tenant'.settings[t] = 1
<1>1. ASSUME NEW s \in Setting, CreateSetting(s) PROVE tenant'.settings[t] = 1
  BY <1>1, CreateSettingFields, CreatedTenant
<1>2. ASSUME NEW s \in Setting, ReconcileSetting(s) PROVE tenant'.settings[t] = 1
  BY <1>2, ReconcileSettingFields
<1>3. CreateConnection => tenant'.settings[t] = 1
  BY CreateConnectionFields DEF EntityAsked
<1>4. \/ VerifyTokens \/ ReconcileEntity \/ RefreshEntity \/ ReconcileActiveGate \/ ReconcileCapability
      \/ ReconcileCodeModules \/ ReconcileRules \/ ReconcileOneAgent
      => tenant'.settings[t] = 1
  BY VerifyTokensFields, ReconcileEntityFields, RefreshEntityFields, ReconcileActiveGateFields, ReconcileCapabilityFields,
     ReconcileCodeModulesFields, ReconcileRulesFields, ReconcileOneAgentFields
<1> QED BY <1>1, <1>2, <1>3, <1>4 DEF Reconciles

\* A recent condition puts a request off: what the request would find is known.
EntityKnown(x) == x.conditions["entity"].recent => x.entity = (tenant.entity = "there")
RulesKnown(x) == x.conditions["rules"].recent => x.rules = tenant.rules
SettingKnown(x, s) ==
    x.conditions[s].recent =>
        IF x.conditions[s].status = "True" THEN tenant.settings[s] = 1
        ELSE x.conditions[s].status = "False" /\ x.conditions[s].reason # "ScopeMissing"
ConditionOK(x) == EntityKnown(x) /\ RulesKnown(x) /\ (MayWrite => \A s \in Setting : SettingKnown(x, s))

ConditionInv == quiet > 0 /\ MayRead => ConditionOK(st) /\ ConditionOK(stored)

\* Nothing is put off after the threshold, nor where there is no status yet.
LEMMA NoRecent ==
    /\ st' = NoStatus => ConditionOK(st)'
    /\ (\A t \in ConditionType : ~stored'.conditions[t].recent) => ConditionOK(stored)'
<1>1. \A t \in ConditionType : ~NoStatus.conditions[t].recent
  BY DEF NoStatus, NoCondition
<1> QED BY <1>1 DEF ConditionOK, EntityKnown, RulesKnown, SettingKnown, ConditionType

\* x is what it was, as far as the conditions are about it.
Same(x, y) == y.conditions = x.conditions /\ y.entity = x.entity /\ y.rules = x.rules

LEMMA KnownKept ==
    ASSUME dk' = dk, SameTenant, \A s \in Setting : tenant.settings[s] = 1 => tenant'.settings[s] = 1
    PROVE  /\ Same(st, st') /\ ConditionOK(st) => ConditionOK(st)'
           /\ Same(stored, stored') /\ ConditionOK(stored) => ConditionOK(stored)'
           /\ stored' = st /\ ConditionOK(st) => ConditionOK(stored)'
           /\ st' = stored /\ ConditionOK(stored) => ConditionOK(st)'
  BY SameMay DEF Same, SameTenant, ConditionOK, EntityKnown, RulesKnown, SettingKnown

DoneEntity == pc \notin {"idle", "tokens", "entity"}
DoneConnection == pc \notin {"idle", "tokens", "entity", "connection", "refresh"}
DoneRules == pc \in {"oneAgent", "write"}
DoneSetting(s) ==
    \/ pc \in {"codeModules", "rules", "oneAgent", "write"}
    \/ s = "kspm" /\ pc \in {"logMonitoring", "logMonitoringCreate"}

ProgressInv == quiet > 0 /\ MayRead =>
    /\ DoneEntity => st.entity = (tenant.entity = "there")
    /\ DoneConnection /\ dk.registration /\ MayWrite => st.entity \/ error # "none"
    /\ DoneRules /\ RulesNeeded => st.rules = tenant.rules
    /\ MayWrite /\ st.entity => \A s \in Setting : DoneSetting(s) /\ SettingEnabled(s) => tenant.settings[s] = 1

\* The setting of s is now known for good, or there is none to be had.
SettingDone(s) == MayWrite /\ st.entity /\ SettingEnabled(s) => tenant.settings[s] = 1

\* The steps before the settings: the entity.
LEMMA EntityStep ==
    ASSUME TypeOK, SettingInv, ScopesInv, ConditionInv, ProgressInv, quiet' > 0, MayRead,
           VerifyTokens \/ ReconcileEntity \/ CreateConnection \/ RefreshEntity
    PROVE  ConditionOK(st)' /\ ProgressInv'
<1>1. /\ quiet > 0 /\ ~Fault /\ dk' = dk /\ SameTenant
      /\ \A s \in Setting : tenant.settings[s] = 1 => tenant'.settings[s] = 1
  BY QuietWalk, ReconcilesSettings DEF Reconciles
<1>2. ConditionOK(st)
  BY <1>1 DEF ConditionInv
<1>3. Same(st, st') => ConditionOK(st)'
  BY <1>1, <1>2, KnownKept
<1>4. CASE VerifyTokens
  <2>1. pc' = "entity" /\ Same(st, st')
    BY <1>1, <1>4, VerifyTokensFields DEF Same
  <2> QED BY <1>3, <2>1 DEF ProgressInv, DoneEntity, DoneConnection, DoneRules, DoneSetting
<1>5. CASE ReconcileEntity
  <2>1. pc = "entity" /\ Available("settings.read") /\ Granted("settings.read")
    BY <1>1, <1>5, ReconcileEntityFields, Asking
  <2>2. /\ pc' = "connection" /\ SameRest(st, st', "entity") /\ st'.rules = st.rules /\ tenant' = tenant
        /\ (st' = st /\ ~IsOutdated("entity")) \/ st'.entity = (tenant.entity = "there")
    BY <1>1, <1>5, <2>1, ReconcileEntityFields
  <2>3. ~IsOutdated("entity") => st.conditions["entity"].recent
    BY DEF IsOutdated
  <2>4. st'.entity = (tenant.entity = "there")
    BY <1>2, <2>2, <2>3 DEF ConditionOK, EntityKnown
  <2>5. \A u \in ConditionType \ {"entity"} : st'.conditions[u] = st.conditions[u]
    BY <2>2 DEF SameRest, KeepsConditions
  <2>6. RulesKnown(st)' /\ (MayWrite => \A s \in Setting : SettingKnown(st, s)')
    BY <1>2, <2>2, <2>5 DEF ConditionOK, RulesKnown, SettingKnown, ConditionType, Setting
  <2>7. ConditionOK(st)'
    BY <1>1, <2>2, <2>4, <2>6, SameMay DEF ConditionOK, EntityKnown
  <2> QED BY <2>2, <2>4, <2>7 DEF ProgressInv, DoneEntity, DoneConnection, DoneRules, DoneSetting
<1>6. CASE CreateConnection
  <2>1. /\ pc = "connection" /\ pc' \in {"activeGate", "refresh"} /\ OnlyCondition(st, st', "entity")
        /\ \/ ~RegistersCluster /\ st' = st
           \/ ~Granted("settings.write")
           \/ pc' = "refresh" /\ st' = st
    BY <1>1, <1>6, CreateConnectionFields
  <2>2. st'.entity = (tenant'.entity = "there") /\ st'.entity = st.entity
    BY <1>1, <2>1 DEF ProgressInv, DoneEntity, OnlyCondition, SameTenant
  <2>3. MayWrite => Available("settings.write") /\ Granted("settings.write")
    BY <1>1, <2>1, Asking
  <2>4. pc' = "activeGate" /\ dk.registration /\ MayWrite => st'.entity
    BY <2>1, <2>2, <2>3 DEF RegistersCluster
  <2>5. RulesKnown(st)' /\ (MayWrite => \A s \in Setting : SettingKnown(st, s)')
    BY <1>1, <1>2, <2>1
    DEF ConditionOK, RulesKnown, SettingKnown, ConditionType, Setting, OnlyCondition, SameTenant
  <2>6. ConditionOK(st)'
    BY <1>1, <2>2, <2>5, SameMay DEF ConditionOK, EntityKnown
  <2> QED BY <1>1, <2>1, <2>2, <2>4, <2>6, SameMay DEF ProgressInv, DoneEntity, DoneConnection, DoneRules, DoneSetting
<1>7. CASE RefreshEntity
  <2>1. /\ pc = "refresh" /\ pc' = "activeGate" /\ SameRest(st, st', "entity") /\ st'.rules = st.rules /\ tenant' = tenant
        /\ (st'.entity = TRUE /\ tenant.entity = "there") \/ (st' = st /\ error' # "none")
    BY <1>1, <1>7, RefreshEntityFields
  <2>2. st'.entity = (tenant'.entity = "there") /\ (st'.entity \/ error' # "none")
    BY <1>1, <2>1 DEF ProgressInv, DoneEntity
  <2>3. RulesKnown(st)' /\ (MayWrite => \A s \in Setting : SettingKnown(st, s)')
    BY <1>2, <2>1 DEF ConditionOK, RulesKnown, SettingKnown, ConditionType, Setting, SameRest, KeepsConditions
  <2>4. ConditionOK(st)'
    BY <1>1, <2>2, <2>3, SameMay DEF ConditionOK, EntityKnown
  <2> QED BY <2>1, <2>2, <2>4 DEF ProgressInv, DoneEntity, DoneConnection, DoneRules, DoneSetting
<1> QED BY <1>4, <1>5, <1>6, <1>7

\* After the entity only the settings and the rules are asked for.
LEMMA ProgressKept ==
    ASSUME ProgressInv, quiet > 0, MayRead, dk' = dk, SameTenant, DoneConnection, DoneConnection', st'.entity = st.entity,
           error # "none" => error' # "none",
           DoneRules' /\ RulesNeeded => st'.rules = tenant.rules,
           \A s \in Setting : tenant.settings[s] = 1 => tenant'.settings[s] = 1,
           \A s \in Setting : DoneSetting(s)' => DoneSetting(s) \/ SettingDone(s)'
    PROVE  ProgressInv'
<1>1. st'.entity = (tenant'.entity = "there") /\ (dk.registration /\ MayWrite => st'.entity \/ error' # "none")
  BY DEF ProgressInv, DoneEntity, DoneConnection, SameTenant
<1>2. ASSUME MayWrite, st'.entity, NEW s \in Setting, DoneSetting(s)', SettingEnabled(s) PROVE tenant'.settings[s] = 1
  <2>1. CASE DoneSetting(s)
    BY <1>2, <2>1 DEF ProgressInv
  <2>2. CASE SettingDone(s)'
    BY <1>2, <2>2, SameMay DEF SettingDone
  <2> QED BY <1>2, <2>1, <2>2
<1> QED BY <1>1, <1>2, SameMay DEF ProgressInv, SameTenant

LEMMA VersionsProgress ==
    ASSUME TypeOK, SettingInv, ConditionInv, ProgressInv, quiet' > 0, MayRead,
           ReconcileActiveGate \/ ReconcileCapability \/ ReconcileCodeModules \/ ReconcileOneAgent
    PROVE  ConditionOK(st)' /\ ProgressInv'
<1>1. /\ quiet > 0 /\ ~Fault /\ dk' = dk /\ SameTenant /\ (error # "none" => error' # "none")
      /\ \A s \in Setting : tenant.settings[s] = 1 => tenant'.settings[s] = 1
  BY QuietWalk, ReconcilesSettings DEF Reconciles, Walk
<1>2. Same(st, st')
  BY ReconcileActiveGateFields, ReconcileCapabilityFields, ReconcileCodeModulesFields, ReconcileOneAgentFields
  DEF Same, OnlyVersion
<1>3. ConditionOK(st)'
  BY <1>1, <1>2, KnownKept DEF ConditionInv
<1>4. \/ pc = "activeGate" /\ pc' \in {"capability", "kspm"}
      \/ pc = "capability" /\ pc' = "kspm"
      \/ pc = "codeModules" /\ pc' = "rules"
      \/ pc = "oneAgent" /\ pc' = "write"
  BY ReconcileActiveGateFields, ReconcileCapabilityFields, ReconcileCodeModulesFields, ReconcileOneAgentFields
<1>5. /\ DoneConnection /\ DoneConnection' /\ (\A s \in Setting : DoneSetting(s)' => DoneSetting(s)) /\ (DoneRules' => DoneRules)
  BY <1>4 DEF DoneConnection, DoneSetting, DoneRules
<1>6. ProgressInv'
  BY <1>1, <1>2, <1>5, ProgressKept DEF ProgressInv, Same
<1> QED BY <1>3, <1>6

LEMMA SettingsProgress ==
    ASSUME TypeOK, SettingInv, ScopesInv, ConditionInv, ProgressInv, quiet' > 0, MayRead,
           NEW s \in Setting, ReconcileSetting(s) \/ CreateSetting(s)
    PROVE  ConditionOK(st)' /\ ProgressInv'
<1>1. /\ quiet > 0 /\ ~Fault /\ dk' = dk /\ SameTenant /\ (error # "none" => error' # "none")
      /\ \A t \in Setting : tenant.settings[t] = 1 => tenant'.settings[t] = 1
  BY QuietWalk, ReconcilesSettings DEF Reconciles, Walk
<1>2. ConditionOK(st)
  BY <1>1 DEF ConditionInv
<1>3. pc \in {s, CreateStep(s)} /\ pc' \in {After(s), CreateStep(s)} /\ OnlyCondition(st, st', s)
  BY <1>1, ReconcileSettingFields, CreateSettingFields
<1>4. /\ pc \in {"kspm", "kspmCreate", "logMonitoring", "logMonitoringCreate"}
      /\ pc' \in {"kspmCreate", "logMonitoring", "logMonitoringCreate", "codeModules"}
  BY <1>3 DEF Setting, CreateStep, After
<1>5. MayWrite => MayAsk /\ Granted("settings.write")
  BY <1>1, <1>4, Asking DEF MayAsk
<1>6. pc' = After(s) => After(s) # CreateStep(s)
  BY DEF After, CreateStep
\* what is known of the setting afterwards
<1>7. ASSUME MayWrite PROVE SettingKnown(st, s)' /\ (pc' = After(s) => SettingDone(s)')
  <2>1. SettingEnabled(s)' <=> SettingEnabled(s)
    BY <1>1, SameMay
  <2>2. st'.entity = st.entity
    BY <1>3 DEF OnlyCondition
  <2>3. CASE CreateSetting(s)
    <3>1. st'.conditions[s].status = "True" /\ tenant' = [tenant EXCEPT !.settings[s] = @ + 1] /\ pc = CreateStep(s)
      BY <1>1, <1>5, <1>7, <2>3, CreateSettingFields
    <3>2. tenant'.settings[s] = 1
      BY <3>1, CreatedTenant
    <3> QED BY <3>1, <3>2 DEF SettingKnown, SettingDone
  <2>4. CASE ReconcileSetting(s)
    <3>1. tenant' = tenant
      BY <2>4, ReconcileSettingFields
    <3>2. CASE ~SettingEnabled(s) /\ st'.conditions[s] = NoCondition
      BY <2>1, <3>2 DEF SettingKnown, SettingDone, NoCondition
    <3>3. CASE ~IsOutdated(s) /\ st' = st
      <4>1. SettingKnown(st, s)
        BY <1>2, <1>7 DEF ConditionOK
      <4>2. st.conditions[s].recent /\ st.conditions[s].status # "absent"
            /\ ~(st.conditions[s].status = "False" /\ st.conditions[s].reason # "ScopeMissing")
        BY <3>3 DEF IsOutdated
      <4>3. tenant.settings[s] = 1
        BY <4>1, <4>2 DEF SettingKnown
      <4> QED BY <3>1, <3>3, <4>1, <4>3 DEF SettingKnown, SettingDone
    <3>4. CASE ~st.entity /\ st'.conditions[s].status = "False" /\ st'.conditions[s].reason = "Skipped"
      BY <2>2, <3>4 DEF SettingKnown, SettingDone
    <3>5. CASE tenant.settings[s] > 0 /\ st'.conditions[s].status = "True"
      <4>1. tenant.settings[s] = 1
        BY <3>5 DEF SettingInv
      <4> QED BY <3>1, <3>5, <4>1 DEF SettingKnown, SettingDone
    <3>6. CASE pc' = CreateStep(s) /\ st'.conditions[s] = NoCondition
      BY <1>6, <3>6 DEF SettingKnown, NoCondition
    <3> QED BY <1>1, <1>5, <1>7, <2>4, <3>2, <3>3, <3>4, <3>5, <3>6, ReconcileSettingFields
  <2> QED BY <2>3, <2>4
<1>8. ConditionOK(st)'
  <2>1. ASSUME MayWrite, NEW t \in Setting PROVE SettingKnown(st, t)'
    <3>1. CASE t = s
      BY <1>7, <2>1, <3>1
    <3>2. CASE t # s
      <4>1. SettingKnown(st, t) /\ st'.conditions[t] = st.conditions[t]
        BY <1>2, <1>3, <2>1, <3>2 DEF ConditionOK, OnlyCondition, ConditionType
      <4> QED BY <1>1, <4>1 DEF SettingKnown
    <3> QED BY <3>1, <3>2
  <2>2. EntityKnown(st)' /\ RulesKnown(st)'
    <3>1. "entity" \in ConditionType \ {s} /\ "rules" \in ConditionType \ {s}
      BY DEF ConditionType, Setting
    <3> QED BY <1>1, <1>2, <1>3, <3>1 DEF ConditionOK, EntityKnown, RulesKnown, OnlyCondition, SameTenant
  <2> QED BY <1>1, <2>1, <2>2, SameMay DEF ConditionOK
<1>9. ProgressInv'
  <2>1. DoneConnection /\ DoneConnection' /\ ~DoneRules'
    BY <1>4 DEF DoneConnection, DoneRules
  <2>2. ASSUME NEW t \in Setting, DoneSetting(t)' PROVE DoneSetting(t) \/ SettingDone(t)'
    <3>1. CASE t = s
      <4>1. pc' = After(s)
        BY <1>3, <2>2, <3>1 DEF DoneSetting, CreateStep, Setting
      <4>2. MayWrite' => SettingDone(s)'
        BY <1>1, <1>7, <4>1, SameMay
      <4> QED BY <3>1, <4>2 DEF SettingDone
    <3>2. CASE t # s
      BY <1>3, <2>2, <3>2 DEF DoneSetting, CreateStep, After, Setting
    <3> QED BY <3>1, <3>2
  <2>3. st'.entity = st.entity
    BY <1>3 DEF OnlyCondition
  <2> QED BY <1>1, <2>1, <2>2, <2>3, ProgressKept
<1> QED BY <1>8, <1>9

LEMMA RulesProgress ==
    ASSUME TypeOK, SettingInv, ScopesInv, ConditionInv, ProgressInv, quiet' > 0, MayRead, ReconcileRules
    PROVE  ConditionOK(st)' /\ ProgressInv'
<1>1. /\ quiet > 0 /\ ~Fault /\ dk' = dk /\ SameTenant /\ (error # "none" => error' # "none")
      /\ \A s \in Setting : tenant.settings[s] = 1 => tenant'.settings[s] = 1
  BY QuietWalk, ReconcilesSettings DEF Reconciles, Walk
<1>2. ConditionOK(st)
  BY <1>1 DEF ConditionInv
<1>3. tenant' = tenant /\ pc = "rules" /\ pc' = "oneAgent" /\ SameRest(st, st', "rules") /\ st'.entity = st.entity
  BY ReconcileRulesFields
<1>4. Available("settings.read") /\ Granted("settings.read")
  BY <1>1, <1>3, Asking
<1>5. \/ ~RulesNeeded /\ st'.conditions["rules"] = NoCondition
      \/ ~IsOutdated("rules") /\ st' = st
      \/ RulesNeeded /\ st'.rules = tenant.rules
  BY <1>1, <1>4, ReconcileRulesFields
<1>6. ~IsOutdated("rules") => st.rules = tenant.rules
  BY <1>2 DEF IsOutdated, ConditionOK, RulesKnown
<1>7. RulesKnown(st)' /\ (RulesNeeded => st'.rules = tenant.rules)
  BY <1>3, <1>5, <1>6 DEF RulesKnown, NoCondition
<1>8. EntityKnown(st)' /\ (MayWrite => \A s \in Setting : SettingKnown(st, s)')
  <2>1. \A u \in ConditionType \ {"rules"} : st'.conditions[u] = st.conditions[u]
    BY <1>3 DEF SameRest, KeepsConditions
  <2> QED BY <1>2, <1>3, <2>1 DEF ConditionOK, EntityKnown, SettingKnown, ConditionType, Setting
<1>9. ConditionOK(st)'
  BY <1>1, <1>7, <1>8, SameMay DEF ConditionOK
<1>10. DoneConnection /\ DoneConnection' /\ (\A s \in Setting : DoneSetting(s)' => DoneSetting(s))
  BY <1>3 DEF DoneConnection, DoneSetting
<1>11. ProgressInv'
  BY <1>1, <1>3, <1>7, <1>10, ProgressKept
<1> QED BY <1>9, <1>11

LEMMA ProgressStep ==
    ASSUME TypeOK, SettingInv, SpecInv, ScopesInv, ConditionInv, ProgressInv, Next
    PROVE  ConditionInv' /\ ProgressInv'
<1>1. ASSUME quiet' > 0, MayRead', Reconciles PROVE ConditionInv' /\ ProgressInv'
  <2>1. /\ quiet > 0 /\ dk' = dk /\ SameTenant /\ stored' = stored
        /\ \A s \in Setting : tenant.settings[s] = 1 => tenant'.settings[s] = 1
    BY <1>1, QuietWalk, ReconcilesSettings
  <2>2. MayRead
    BY <1>1, <2>1, SameMay
  <2>3. ConditionOK(st)' /\ ProgressInv'
    BY <1>1, <2>2, EntityStep, VersionsProgress, SettingsProgress, RulesProgress DEF Reconciles
  <2>4. ConditionOK(stored)'
    BY <2>1, <2>2, KnownKept DEF ConditionInv, Same
  <2> QED BY <2>3, <2>4 DEF ConditionInv
<1>2. ASSUME quiet' > 0, MayRead', Others PROVE ConditionInv' /\ ProgressInv'
  <2>1. tenant' = tenant /\ SameTenant /\ spec' = spec
    BY <1>2, QuietOthers DEF SameTenant
  <2>2. pc' \in {"idle", "tokens"}
    BY <1>2, QuietOthers, BeginFields, WriteStatusFields, TickFields
  <2>3. ProgressInv'
    BY <2>2 DEF ProgressInv, DoneEntity, DoneConnection, DoneRules, DoneSetting
  <2>4. CASE Begin /\ quiet > 0
    <3>1. dk' = dk /\ stored' = stored /\ st' = stored
      BY <2>4, BeginFields DEF SpecInv
    <3>2. ConditionOK(stored)
      BY <1>2, <2>1, <2>4, <3>1, SameMay DEF ConditionInv
    <3> QED BY <2>1, <2>3, <3>1, <3>2, KnownKept DEF ConditionInv, Same
  <2>5. CASE WriteStatus /\ quiet > 0
    <3>1. dk' = dk /\ (stored' = stored \/ stored' = st) /\ st' = NoStatus
      BY <2>5, WriteStatusFields DEF SpecInv
    <3>2. ConditionOK(stored) /\ ConditionOK(st)
      BY <1>2, <2>1, <2>5, <3>1, SameMay DEF ConditionInv
    <3>3. ConditionOK(stored)'
      BY <2>1, <3>1, <3>2, KnownKept DEF Same
    <3>4. ConditionOK(st)'
      BY <3>1, NoRecent
    <3> QED BY <2>3, <3>3, <3>4 DEF ConditionInv
  <2>6. CASE Tick
    <3>1. st' = NoStatus /\ \A t \in ConditionType : ~stored'.conditions[t].recent
      BY <2>6, TickFields DEF SpecInv
    <3>2. ConditionOK(stored)' /\ ConditionOK(st)'
      BY <3>1, NoRecent
    <3> QED BY <2>3, <3>2 DEF ConditionInv
  <2> QED BY <1>2, <2>4, <2>5, <2>6, QuietOthers
<1>3. CASE ~(quiet' > 0 /\ MayRead')
  BY <1>3 DEF ConditionInv, ProgressInv
<1> QED BY <1>1, <1>2, <1>3, NextIs

\* What a status that is settled says of the tenant, with the spec that is worked on.
Current(x) ==
    /\ x.entity = (tenant.entity = "there")
    /\ RulesNeeded => x.rules = tenant.rules
    /\ dk.registration /\ MayWrite => x.entity
    /\ MayWrite /\ x.entity => \A s \in Setting : SettingEnabled(s) => tenant.settings[s] = 1
SettledInv == quiet = 2 /\ MayRead => Current(stored)

LEMMA CurrentKept ==
    ASSUME dk' = dk, SameTenant, \A s \in Setting : tenant.settings[s] = 1 => tenant'.settings[s] = 1
    PROVE  /\ stored'.entity = stored.entity /\ stored'.rules = stored.rules /\ Current(stored) => Current(stored)'
           /\ stored' = st /\ Current(st) => Current(stored)'
  BY SameMay DEF SameTenant, Current

LEMMA SettledStep ==
    ASSUME TypeOK, SettingInv, SpecInv, ProgressInv, SettledInv, Next
    PROVE  SettledInv'
<1>1. ASSUME quiet' = 2, MayRead', Reconciles PROVE SettledInv'
  <2>1. /\ quiet = 2 /\ dk' = dk /\ SameTenant /\ stored' = stored
        /\ \A s \in Setting : tenant.settings[s] = 1 => tenant'.settings[s] = 1
    BY <1>1, QuietWalk, ReconcilesSettings
  <2> QED BY <1>1, <2>1, SameMay, CurrentKept DEF SettledInv
<1>2. ASSUME quiet' = 2, MayRead', Others PROVE SettledInv'
  <2>1. tenant' = tenant /\ SameTenant /\ spec' = spec
    BY <1>2, QuietOthers DEF SameTenant
  <2>2. ASSUME quiet = 2, dk' = dk, stored'.entity = stored.entity, stored'.rules = stored.rules PROVE SettledInv'
    BY <1>2, <2>1, <2>2, SameMay, CurrentKept DEF SettledInv
  <2>3. CASE Begin /\ quiet' = quiet
    BY <1>2, <2>2, <2>3, BeginFields DEF SpecInv
  <2>4. CASE WriteStatus /\ quiet > 0 /\ (quiet' = quiet \/ (quiet' = 2 /\ stored' = st /\ error = "none"))
    <3>1. pc = "write" /\ dk' = dk /\ (stored' = stored \/ stored' = st)
      BY <2>4, WriteStatusFields DEF SpecInv
    <3>2. MayRead
      BY <1>2, <2>1, <3>1, SameMay
    <3>3. CASE stored' = stored /\ quiet = 2
      BY <2>2, <3>1, <3>3
    <3>4. CASE stored' = st /\ (error = "none" \/ quiet = 2)
      <4>1. st.entity = (tenant.entity = "there") /\ (RulesNeeded => st.rules = tenant.rules)
            /\ (dk.registration /\ MayWrite => st.entity \/ error # "none")
        BY <2>4, <3>1, <3>2 DEF ProgressInv, DoneEntity, DoneConnection, DoneRules
      <4>2. MayWrite /\ st.entity => \A s \in Setting : SettingEnabled(s) => tenant.settings[s] = 1
        BY <2>4, <3>1, <3>2 DEF ProgressInv, DoneSetting
      \* an entity that was there before is there still
      <4>3. dk.registration /\ MayWrite => st.entity
        BY <3>2, <3>4, <4>1 DEF SettledInv, Current
      <4>4. Current(st)
        BY <4>1, <4>2, <4>3 DEF Current
      <4> QED BY <2>1, <3>1, <3>4, <4>4, CurrentKept DEF SettledInv
    <3> QED BY <1>2, <2>4, <3>1, <3>3, <3>4
  <2>5. CASE Tick
    <3>1. quiet = 2 /\ dk' = dk /\ stored'.entity = stored.entity /\ stored'.rules = stored.rules
      BY <1>2, <2>5, TickFields
    <3> QED BY <2>2, <3>1
  <2> QED BY <1>2, <2>3, <2>4, <2>5, QuietOthers
<1>3. CASE ~(quiet' = 2 /\ MayRead')
  BY <1>3 DEF SettledInv
<1>4. quiet' = 2 => quiet' > 0
  OBVIOUS
<1> QED BY <1>1, <1>2, <1>3, NextIs

(***************************************************************************)
(* The theorems.                                                           *)
(***************************************************************************)

TenantInv ==
    /\ TypeOK /\ SettingInv /\ SpecInv /\ ImageInv /\ OldVersionInv
    /\ CacheInv /\ ScopesInv /\ VersionInv
    /\ ConditionInv /\ ProgressInv /\ SettledInv

LEMMA InitTypes ==
    ASSUME Init
    PROVE  TypeOK
<1>1. spec \in Specs /\ dk \in Specs /\ stored \in Status /\ st \in Status /\ CacheTyped(cache)
  BY EmptyTypes DEF Init
<1>2. tenant \in Tenant
  <2> DEFINE L == IF spec.group = "settings" THEN {1} ELSE Latest
             S == {Scope} \cup (IF spec.group = "settings" THEN {Scope \ Scopes} ELSE {})
             E == {"there"} \cup (IF spec.group = "settings" THEN {"none"} ELSE {})
             N == {[s \in Setting |-> 0]}
  <2>1. tenant \in [latest : L, scopes : S, entity : E, settings : N, rules : {1}]
    BY DEF Init
  <2>2. L \subseteq 1..2 /\ E \subseteq {"none", "made", "there"}
    OBVIOUS
  <2>3. S \subseteq SUBSET Scope
    <3>1. S \subseteq {Scope, Scope \ Scopes}
      OBVIOUS
    <3>2. Scope \subseteq Scope /\ Scope \ Scopes \subseteq Scope
      OBVIOUS
    <3> QED BY <3>1, <3>2
  <2>4. N \subseteq [Setting -> 0..2]
    <3>1. [s \in Setting |-> 0] \in [Setting -> 0..2]
      OBVIOUS
    <3> QED BY <3>1
  <2> HIDE DEF L, S, E, N
  <2>5. /\ tenant.latest \in L /\ tenant.scopes \in S /\ tenant.entity \in E /\ tenant.settings \in N /\ tenant.rules = 1
        /\ tenant = [latest |-> tenant.latest, scopes |-> tenant.scopes, entity |-> tenant.entity,
                     settings |-> tenant.settings, rules |-> tenant.rules]
    BY <2>1
  <2>6. /\ tenant.latest \in 1..2 /\ tenant.entity \in {"none", "made", "there"} /\ tenant.rules \in 1..2
        /\ tenant.scopes \in SUBSET Scope /\ tenant.settings \in [Setting -> 0..2]
    <3>1. \A x \in L : x \in 1..2
      BY <2>2
    <3>2. \A x \in E : x \in {"none", "made", "there"}
      BY <2>2
    <3>3. \A x \in S : x \in SUBSET Scope
      BY <2>3
    <3>4. \A x \in N : x \in [Setting -> 0..2]
      BY <2>4
    <3> QED BY <2>5, <3>1, <3>2, <3>3, <3>4
  <2> QED BY <2>5, <2>6 DEF Tenant
<1>3. /\ spec \in Specs /\ dk = spec /\ stored = NoStatus /\ st = NoStatus /\ workload = FALSE
      /\ pc = "idle" /\ error = "none" /\ quiet = 0 /\ changes = 0 /\ faults = 0
  BY DEF Init
<1>4. pc \in {"idle"} \cup {Step[i] : i \in DOMAIN Step}
  BY <1>3
<1>5. error \in {"none", "other", "failed", "unreachable"} /\ workload \in BOOLEAN
  BY <1>3
<1>6. quiet \in 0..2
  BY <1>3
<1>7. changes \in 0..MaxChanges /\ faults \in 0..MaxFaults
  BY <1>3, BoundAssumption
<1> QED BY <1>1, <1>2, <1>4, <1>5, <1>6, <1>7 DEF TypeOK, CacheTyped

LEMMA Initially ==
    ASSUME Init
    PROVE  TenantInv
<1>1. TypeOK
  BY InitTypes
<1>2. SettingInv
  BY DEF Init, SettingInv, CreateStep
<1>3. SpecInv /\ OldVersionInv
  BY DEF Init, SpecInv, OldVersionInv
<1>4. ImageInv
  BY NoOldVersion DEF Init, ImageInv
<1>5. quiet = 0
  BY DEF Init
<1> QED BY <1>1, <1>2, <1>3, <1>4, <1>5
        DEF TenantInv, CacheInv, ScopesInv, VersionInv, ConditionInv, ProgressInv, SettledInv

LEMMA Invariance == Spec => []TenantInv
<1>1. Init => TenantInv
  BY Initially
<1>2. TenantInv /\ [Next]_vars => TenantInv'
  <2> SUFFICES ASSUME TenantInv, [Next]_vars PROVE TenantInv'
    OBVIOUS
  <2>1. CASE Next
    <3>1. TypeOK'
      BY <2>1, ReconcilesTypes, OthersTypes, NextIs DEF TenantInv
    <3>2. SettingInv' /\ SpecInv' /\ ImageInv' /\ OldVersionInv'
      BY <2>1, SettingStep, SpecStep, OldVersionStep DEF TenantInv
    <3>3. CacheInv' /\ ScopesInv' /\ VersionInv'
      BY <2>1, CacheStep, ScopesStep, VersionStep DEF TenantInv
    <3>4. ConditionInv' /\ ProgressInv' /\ SettledInv'
      BY <2>1, ProgressStep, SettledStep DEF TenantInv
    <3> QED BY <3>1, <3>2, <3>3, <3>4 DEF TenantInv
  <2>2. CASE UNCHANGED vars
    <3>1. UNCHANGED <<spec, tenant, workload, cache, stored, pc, dk, st, error, quiet, changes, faults>>
      BY <2>2 DEF vars
    <3>2. TypeOK' /\ SettingInv' /\ SpecInv' /\ ImageInv' /\ OldVersionInv'
      BY <3>1 DEF TenantInv, TypeOK, SettingInv, SpecInv, ImageInv, OldVersionInv
    <3>3. dk' = dk /\ SameTenant /\ \A s \in Setting : tenant.settings[s] = 1 => tenant'.settings[s] = 1
      BY <3>1 DEF SameTenant
    <3>4. CacheInv' /\ ScopesInv'
      <4>1. OptionalScopes' = OptionalScopes
        BY <3>1 DEF OptionalScopes
      <4> QED BY <3>1, <4>1 DEF TenantInv, CacheInv, ScopesInv
    <3>5. VersionInv'
      BY <3>1, <3>3, VersionKept DEF TenantInv, VersionInv, ActiveGateFound, SameTenant, Component
    <3>6. ConditionInv'
      BY <3>1, <3>3, KnownKept, SameMay DEF TenantInv, ConditionInv, Same
    <3>7. ProgressInv'
      BY <3>1, <3>3, SameMay DEF TenantInv, ProgressInv, DoneEntity, DoneConnection, DoneRules, DoneSetting
    <3>8. SettledInv'
      BY <3>1, <3>3, CurrentKept, SameMay DEF TenantInv, SettledInv
    <3> QED BY <3>2, <3>4, <3>5, <3>6, <3>7, <3>8 DEF TenantInv
  <2> QED BY <2>1, <2>2
<1> QED BY <1>1, <1>2, PTL DEF Spec

\* The status, the cache and what the tenant has keep their types: in particular no
\* feature ever gets a third settings object, beyond which the model does not count.
THEOREM TypeCorrect == Spec => []TypeOK
  BY Invariance, PTL DEF TenantInv

\* For all specs and any tenant: once the threshold has passed and a whole reconcile
\* was left alone, every enabled component has the source and the version its spec
\* and the tenant ask for, whatever was cached, refused or lost before
\* (run, version/updater.go:35).
THEOREM VersionsAreCurrent == Spec => []VersionsFollowSpec
<1>1. TenantInv => VersionsFollowSpec
  <2> SUFFICES ASSUME TenantInv, pc = "idle", quiet = 2, NEW c \in Component
               PROVE  LET v == stored.versions[c]
                      IN  IF spec[c].enabled
                          THEN /\ v.source = DetermineSource(c)
                               /\ \/ v.version = WantedVersion(c)
                                  \/ ~AutoUpdate(c) /\ DetermineSource(c) # "custom-version"
                                  \/ c = "oneAgent" /\ v.version > WantedVersion(c)
                          ELSE v = NoVersion \/ (c = "activeGate" /\ ~stored.statefulSet)
    BY DEF VersionsFollowSpec, Settled
  <2>1. dk = spec /\ VersionOK(stored, c)
    BY DEF TenantInv, SpecInv, VersionInv
  <2>2. WantedVersion(c) = Asked(c)
    BY <2>1 DEF WantedVersion, Asked
  <2> QED BY <2>1, <2>2 DEF VersionOK, Follows, Enabled
<1> QED BY <1>1, Invariance, PTL

\* No version of OneAgents that came from the tenant's registry is replaced by an older
\* one of it, in no step: not by an older answer of the tenant, and not by way of a
\* cached one (CheckForDowngrade, version/oneagent.go).
THEOREM VersionsNeverGoBack == Spec => NoDowngrade
<1>1. TenantInv /\ [Next]_vars =>
        [LET old == stored.versions["oneAgent"]
             new == stored'.versions["oneAgent"]
         IN  old.source = "tenant-registry" /\ new.source = "tenant-registry" => new.version >= old.version]_vars
  BY StoredStep DEF TenantInv, Downgrades
<1> QED BY <1>1, Invariance, PTL DEF Spec, NoDowngrade

\* Once settled the entity and the rules are the tenant's, a cluster that may be
\* registered is, and every enabled feature has exactly one settings object: no recent
\* condition puts off for ever a request that would find something else, and neither a
\* lost answer nor a crash makes a second object (IsOutdated, k8sconditions/time.go:15).
THEOREM SettingsFollowTenant == Spec => []SettingsAreCurrent
<1>1. TenantInv => SettingsAreCurrent
  BY DEF TenantInv, SettledInv, Current, RulesNeeded, SettingsAreCurrent, Settled
<1> QED BY <1>1, Invariance, PTL
=============================================================================
