---------------------- MODULE DynaKubeController_proofs ----------------------
(***************************************************************************)
(* Between two reconciles the stored status has the condition of every     *)
(* object that is cleaned up by its condition (NothingIsForgotten), for    *)
(* all sets of managed objects, features, broken calls and bounds.  The    *)
(* argument follows the worker through the pipeline: its copy of the       *)
(* status knows of every object, except where two objects share a          *)
(* condition (the connection information of the OneAgent is reported by    *)
(* the DaemonSet, the step after it) and where a condition is dropped long *)
(* after its object (the StatefulSet of the ActiveGate).  Both exceptions  *)
(* are safe only because of the order of the pipeline, so most lemmas say  *)
(* from where a step can be reached.                                       *)
(***************************************************************************)
EXTENDS DynaKubeController, TLAPS

PipelineLength == 33

-----------------------------------------------------------------------------
(* The order of the pipeline, and the least of a set of its steps.          *)

\* Nothing is lower than n + 1 in a set without a least element whose elements are all above n.
LEMMA AboveNext ==
    ASSUME NEW S \in SUBSET Nat,
           \A x \in S : \E y \in S : y < x,
           NEW n \in Nat, \A x \in S : n < x
    PROVE  \A x \in S : n + 1 < x
  <1> SUFFICES ASSUME NEW x \in S PROVE n + 1 # x
    OBVIOUS
  <1> QED OBVIOUS

\* The worker goes to the least of the steps that are left: there is one, unless none is left.
LEMMA LeastStep ==
    ASSUME NEW S \in SUBSET (1 .. PipelineLength), S # {}
    PROVE  /\ Min(S) \in S
           /\ \A j \in S : Min(S) <= j
<1> DEFINE Above(n) == \A x \in S : n < x
<1>1. \E x \in S : \A y \in S : x <= y
  <2> SUFFICES ASSUME \A x \in S : \E y \in S : y < x
               PROVE  FALSE
    BY DEF PipelineLength
  <2>1. \A n \in Nat : Above(n) => Above(n + 1)
    BY AboveNext DEF PipelineLength
  <2> HIDE DEF Above
  <2>2. \A n \in Nat : Above(n) => Above(n + 3)
    <3> TAKE n \in Nat
    <3> HAVE Above(n)
    <3>1. Above(n + 1) /\ n + 1 \in Nat
      BY <2>1
    <3>2. Above(n + 1 + 1) /\ n + 1 + 1 \in Nat
      BY <2>1, <3>1
    <3>3. Above(n + 1 + 1 + 1)
      BY <2>1, <3>2
    <3> QED BY <3>3, n + 1 + 1 + 1 = n + 3
  <2>3. \A n \in Nat : Above(n) => Above(n + 9)
    <3> TAKE n \in Nat
    <3> HAVE Above(n)
    <3>1. Above(n + 3) /\ n + 3 \in Nat
      BY <2>2
    <3>2. Above(n + 3 + 3) /\ n + 3 + 3 \in Nat
      BY <2>2, <3>1
    <3>3. Above(n + 3 + 3 + 3)
      BY <2>2, <3>2
    <3> QED BY <3>3, n + 3 + 3 + 3 = n + 9
  <2>4. Above(0)
    BY DEF Above, PipelineLength
  <2>5. Above(9) /\ Above(18) /\ Above(27) /\ Above(36)
    BY <2>3, <2>4
  <2>6. PICK x \in S : x \in 1 .. 33
    BY DEF PipelineLength
  <2>7. 36 < x
    BY <2>5 DEF Above
  <2> QED BY <2>6, <2>7
<1> QED BY <1>1 DEF Min
-----------------------------------------------------------------------------
\* Where the steps are that the invariant speaks of.
LEMMA Order ==
    /\ Len(Pipeline) = PipelineLength
    /\ \A i \in 1 .. PipelineLength :
          /\ Pipeline[i].object \in ManagedObject
          /\ Pipeline[i].object = "agStatefulSet" <=> i \in {10, 11, 14}
          /\ Pipeline[i].object = "oaTenantSecret" <=> i \in {26, 29, 30}
          /\ Pipeline[i].object = "oaConnectionInfo" <=> i = 32
          /\ Pipeline[i].object = "oaDaemonSet" <=> i = 33
          /\ Pipeline[i].does = "delete" <=> i = 11
          /\ Pipeline[i].does = "cleanUp" <=> i \in {12, 13}
          /\ Pipeline[i].does = "forget" <=> i = 14
    /\ \A i \in 3 .. 14 : Pipeline[i].component = "activeGate"
    /\ \A i \in {32, 33} : Pipeline[i].component = "oneAgent" /\ Pipeline[i].does = "both"
  BY DEF Pipeline, SetupSteps, ActiveGateSteps, ExtensionSteps, CollectorSteps, KSPMSteps, LogMonitoringSteps,
         InjectionSteps, OneAgentSteps, Step, PipelineLength, ManagedObject, Definition

\* What the invariant needs to know of the definition d of an object o.
Row(o, d) ==
    /\ d.condition = IF o = "oaConnectionInfo" THEN "oaDaemonSet" ELSE o
    /\ d.guarded \in BOOLEAN
    /\ d.guarded /\ o # "oaConnectionInfo" => d.reported \in {"always", "onChange", "onCreate"}
    /\ o = "oaDaemonSet" => ~d.silent
    /\ o \in {"oaConnectionInfo", "oaDaemonSet"} =>
          d.guarded /\ d.neededBy = {"oneAgent"} /\ d.unless = {} /\ d.cleanup # "never"

\* Every definition is such a row.
LEMMA Rows == \A o \in ManagedObject : Row(o, Definition[o])
<1>1. Row("deploymentMetadata", Definition["deploymentMetadata"])
  BY DEF Row, Definition, DeploymentMetadata, Config
<1>2. Row("proxySecret", Definition["proxySecret"])
  BY DEF Row, Definition, ProxySecret, Config
<1>3. Row("agTenantSecret", Definition["agTenantSecret"])
  BY DEF Row, Definition, ActiveGateTenantSecret, Config
<1>4. Row("agConnectionInfo", Definition["agConnectionInfo"])
  BY DEF Row, Definition, ActiveGateConnectionInfo, Config
<1>5. Row("agDeploymentProperties", Definition["agDeploymentProperties"])
  BY DEF Row, Definition, ActiveGateDeploymentProperties, ActiveGateConnectionInfo, Config
<1>6. Row("pullSecret", Definition["pullSecret"])
  BY DEF Row, Definition, PullSecret, Config
<1>7. Row("agAuthToken", Definition["agAuthToken"])
  BY DEF Row, Definition, ActiveGateAuthToken, Config
<1>8. Row("agService", Definition["agService"])
  BY DEF Row, Definition, ActiveGateService, Config
<1>9. Row("agTLSSecret", Definition["agTLSSecret"])
  BY DEF Row, Definition, ActiveGateTLSSecret, Config
<1>10. Row("agStatefulSet", Definition["agStatefulSet"])
  BY DEF Row, Definition, ActiveGateStatefulSet, Config
<1>11. Row("extToken", Definition["extToken"])
  BY DEF Row, Definition, ExtensionToken, Config
<1>12. Row("extService", Definition["extService"])
  BY DEF Row, Definition, ExtensionService, Config
<1>13. Row("extTLSSecret", Definition["extTLSSecret"])
  BY DEF Row, Definition, ExtensionTLSSecret, Config
<1>14. Row("eecStatefulSet", Definition["eecStatefulSet"])
  BY DEF Row, Definition, ExtensionController, Config
<1>15. Row("dbDeployments", Definition["dbDeployments"])
  BY DEF Row, Definition, DatabaseDatasources, Config
<1>16. Row("otelcService", Definition["otelcService"])
  BY DEF Row, Definition, CollectorService, Config
<1>17. Row("otelcEndpoint", Definition["otelcEndpoint"])
  BY DEF Row, Definition, CollectorEndpoint, Config
<1>18. Row("otelcConfiguration", Definition["otelcConfiguration"])
  BY DEF Row, Definition, CollectorConfiguration, Config
<1>19. Row("otelcStatefulSet", Definition["otelcStatefulSet"])
  BY DEF Row, Definition, CollectorStatefulSet, Config
<1>20. Row("kspmToken", Definition["kspmToken"])
  BY DEF Row, Definition, KSPMToken, Config
<1>21. Row("kspmDaemonSet", Definition["kspmDaemonSet"])
  BY DEF Row, Definition, KSPMDaemonSet, Config
<1>22. Row("oaTenantSecret", Definition["oaTenantSecret"])
  BY DEF Row, Definition, OneAgentTenantSecret, Config
<1>23. Row("lmConfigSecret", Definition["lmConfigSecret"])
  BY DEF Row, Definition, LogMonitoringConfig, Config
<1>24. Row("lmDaemonSet", Definition["lmDaemonSet"])
  BY DEF Row, Definition, LogMonitoringDaemonSet, Config
<1>25. Row("oaConnectionInfo", Definition["oaConnectionInfo"])
  BY DEF Row, Definition, OneAgentConnectionInfo, Config
<1>26. Row("oaDaemonSet", Definition["oaDaemonSet"])
  BY DEF Row, Definition, OneAgentDaemonSet, Config
<1> QED
  BY <1>1, <1>2, <1>3, <1>4, <1>5, <1>6, <1>7, <1>8, <1>9, <1>10, <1>11, <1>12, <1>13, <1>14,
     <1>15, <1>16, <1>17, <1>18, <1>19, <1>20, <1>21, <1>22, <1>23, <1>24, <1>25, <1>26 DEF ManagedObject, Definition

-----------------------------------------------------------------------------
(* The inductive invariant.                                                *)

\* the DaemonSet's step, which comes next, sets the condition of the connection information too
AboutToReport(o) ==
    /\ o = "oaConnectionInfo"
    /\ pc = "component"
    /\ Pipeline[at].object = "oaDaemonSet"
    /\ Needed(o, specRead)

\* the copy of the status knows of every object that is cleaned up by its condition
Tracked ==
    (pc # "idle" /\ ~lost) =>
        \A o \in Guarded : Exists(o) => ConditionOf(o) # "none" \/ AboutToReport(o)

\* the shared condition goes with the DaemonSet: the connection information must be gone by then
ConnectionInfoFirst ==
    (pc = "component" /\ Pipeline[at].object = "oaDaemonSet" /\ "oaConnectionInfo" \in Objects /\ ~lost) =>
        Needed("oaConnectionInfo", specRead) \/ ~Exists("oaConnectionInfo")

\* the condition of the StatefulSet is dropped two clean-ups after it was deleted
StatefulSetFirst ==
    (pc = "component" /\ Pipeline[at].does \in {"cleanUp", "forget"}) =>
        Needed("agStatefulSet", specRead) \/ ~Exists("agStatefulSet")

\* who is in the middle of a component is at a step of the pipeline
Position ==
    /\ pc \in {"component", "persist"} => at \in Steps
    /\ pc = "persist" => Pipeline[at].object = "oaTenantSecret"

Inv ==
    /\ TypeOK
    /\ Position
    /\ NothingIsForgotten
    /\ Tracked
    /\ ConnectionInfoFirst
    /\ StatefulSetFirst

-----------------------------------------------------------------------------
(* The operators the actions are built from.                                *)

\* SetCondition sets one condition of the copy and leaves the rest.
LEMMA ConditionSet ==
    ASSUME status \in Status, NEW c \in Objects, NEW v \in Condition, SetCondition(c, v)
    PROVE  /\ status' \in Status
           /\ status'.conds[c] = v
           /\ \A d \in Objects : d # c => status'.conds[d] = status.conds[d]
           /\ status'.phase = status.phase
<1> DEFINE conds == [status.conds EXCEPT ![c] = v]
<1>1. status.conds \in [Objects -> Condition] /\ status.phase \in Phase
  BY DEF Status
<1>2. status' = [status EXCEPT !.conds = conds]
  BY Zenon DEF SetCondition
<1> HIDE DEF conds
<1>3. status' = [conds |-> conds, phase |-> status.phase]
  BY <1>2 DEF Status
<1> QED BY <1>1, <1>3 DEF Status, conds

\* GoTo goes to the least step of a set, or to the phase when there is none.
LEMMA Walk ==
    ASSUME NEW T \in SUBSET Steps, GoTo(T)
    PROVE  /\ T = {} => pc' = "phase" /\ at' = 0
           /\ T # {} => pc' = "component"
           /\ pc' \in {"phase", "component"}
           /\ at' \in 0 .. Len(Pipeline)
           /\ pc' = "component" => at' \in T /\ \A j \in T : at' <= j
<1>1. T \in SUBSET (1 .. PipelineLength)
  BY Order DEF Steps
<1>2. CASE T = {}
  BY <1>2, Order DEF GoTo, PipelineLength
<1>3. CASE T # {}
  <2>1. pc' = "component" /\ at' = Min(T)
    BY <1>3 DEF GoTo
  <2>2. Min(T) \in T /\ \A j \in T : Min(T) <= j
    BY <1>1, <1>3, LeastStep
  <2>3. at' \in 1 .. PipelineLength
    BY <1>1, <2>1, <2>2
  <2> QED BY <1>3, <2>1, <2>2, <2>3, Order DEF PipelineLength
<1> QED BY <1>2, <1>3

\* A reconcile starts before the StatefulSet is deleted.
LEMMA FirstStep ==
    ASSUME GoTo(Steps)
    PROVE  /\ pc' = "component"
           /\ Pipeline[at'].object # "oaDaemonSet"
           /\ Pipeline[at'].does \notin {"cleanUp", "forget"}
<1>1. 11 \in Steps
  BY Order, DynaKubeAssumption DEF Steps, PipelineLength
<1>2. at' \in Steps /\ at' <= 11 /\ pc' = "component"
  BY <1>1, Walk
<1> QED BY <1>2, Order DEF Steps, PipelineLength

\* The DaemonSet comes right after the connection information, the steps that follow the deletion of
\* the StatefulSet after that deletion or one another.
LEMMA NextStep ==
    ASSUME at \in Steps, GoTo(Following(at))
    PROVE  /\ pc' = "component" => at' \in Steps
           /\ (pc' = "component" /\ Pipeline[at'].object = "oaDaemonSet" /\ "oaConnectionInfo" \in Objects) =>
                 Pipeline[at].object = "oaConnectionInfo"
           /\ (pc' = "component" /\ Pipeline[at'].does \in {"cleanUp", "forget"}) =>
                 Pipeline[at].does \in {"delete", "cleanUp"}
           /\ Pipeline[at].object = "oaConnectionInfo" =>
                 pc' = "component" /\ Pipeline[at'].object = "oaDaemonSet"
<1>1. /\ at \in 1 .. 33
      /\ pc' = "component" => at' \in Steps /\ at' \in at + 1 .. 33 /\ \A j \in Steps : j > at => at' <= j
      /\ \A j \in Steps : j > at => pc' = "component"
  <2>1. Steps \subseteq 1 .. 33
    BY Order DEF Steps, PipelineLength
  <2>2. Following(at) \in SUBSET Steps
    BY DEF Following
  <2>3. /\ Following(at) # {} => pc' = "component"
        /\ pc' = "component" => at' \in Following(at) /\ \A j \in Following(at) : at' <= j
    BY <2>2, Walk
  <2>4. \A j : j \in Following(at) <=> j \in Steps /\ j > at
    BY DEF Following
  <2>5. pc' = "component" => at' \in Steps /\ at' > at /\ \A j \in Steps : j > at => at' <= j
    BY <2>3, <2>4
  <2>6. \A j \in Steps : j > at => pc' = "component"
    BY <2>3, <2>4
  <2>7. at \in 1 .. 33 /\ (pc' = "component" => at' \in 1 .. 33 /\ at' > at)
    BY <2>1, <2>5
  <2>8. pc' = "component" => at' \in at + 1 .. 33
    BY <2>7
  <2> QED BY <2>5, <2>6, <2>7, <2>8
<1>2. ASSUME pc' = "component", Pipeline[at'].object = "oaDaemonSet", "oaConnectionInfo" \in Objects
      PROVE  Pipeline[at].object = "oaConnectionInfo"
  <2>1. at' = 33
    BY <1>1, <1>2, Order DEF PipelineLength
  <2>2. 32 \in Steps
    BY <1>2, Order DEF Steps, PipelineLength
  <2> QED BY <1>1, <1>2, <2>1, <2>2, Order DEF PipelineLength
<1>3. ASSUME pc' = "component", Pipeline[at'].does \in {"cleanUp", "forget"}
      PROVE  Pipeline[at].does \in {"delete", "cleanUp"}
  <2>1. at' \in 12 .. 14
    BY <1>1, <1>3, Order DEF PipelineLength
  <2>2. 11 \in Steps
    BY Order, DynaKubeAssumption DEF Steps, PipelineLength
  <2>3. at \in 11 .. 13
    BY <1>1, <1>3, <2>1, <2>2
  <2> QED BY <2>3, Order DEF PipelineLength
<1>4. ASSUME Pipeline[at].object = "oaConnectionInfo"
      PROVE  pc' = "component" /\ Pipeline[at'].object = "oaDaemonSet"
  <2>1. at = 32
    BY <1>1, <1>4, Order DEF PipelineLength
  <2>2. "oaConnectionInfo" \in Objects
    BY <1>4 DEF Steps
  <2>3. "oaDaemonSet" \in Objects
    BY <2>2, Rows, DynaKubeAssumption DEF Row
  <2>4. 33 \in Steps
    BY <2>3, Order DEF Steps, PipelineLength
  <2> QED BY <1>1, <2>1, <2>4, Order DEF PipelineLength
<1> QED BY <1>1, <1>2, <1>3, <1>4

\* None of these steps is the first of its component.
LEMMA NextComponent ==
    ASSUME at \in Steps, GoTo(NextComponents(at))
    PROVE  /\ pc' = "component" => at' \in Steps
           /\ pc' = "component" /\ Pipeline[at'].object = "oaDaemonSet" => "oaConnectionInfo" \notin Objects
           /\ pc' = "component" => Pipeline[at'].does \notin {"cleanUp", "forget"}
<1>1. /\ at \in 1 .. 33
      /\ pc' = "component" =>
           /\ at' \in Steps /\ at' \in at + 1 .. 33 /\ Pipeline[at'].component # Pipeline[at].component
           /\ \A j \in Steps : j > at /\ Pipeline[j].component # Pipeline[at].component => at' <= j
  BY Walk, Order DEF NextComponents, Following, Steps, PipelineLength
<1>2. ASSUME pc' = "component", Pipeline[at'].object = "oaDaemonSet", "oaConnectionInfo" \in Objects
      PROVE  FALSE
  <2>1. at' = 33
    BY <1>1, <1>2, Order DEF PipelineLength
  <2>2. 32 \in Steps
    BY <1>2, Order DEF Steps, PipelineLength
  <2> QED BY <1>1, <1>2, <2>1, <2>2, Order
<1>3. ASSUME pc' = "component", Pipeline[at'].does \in {"cleanUp", "forget"}
      PROVE  FALSE
  <2>1. at' \in 12 .. 14
    BY <1>1, <1>3, Order DEF PipelineLength
  <2>2. 11 \in Steps
    BY Order, DynaKubeAssumption DEF Steps, PipelineLength
  <2> QED BY <1>1, <1>3, <2>1, <2>2, Order
<1> QED BY <1>1, <1>2, <1>3

\* After a failure the worker goes on with another component, or ends.
LEMMA ComponentEnds ==
    ASSUME at \in Steps, ComponentFails
    PROVE  /\ failed' \in BOOLEAN
           /\ pc' \in {"phase", "component"}
           /\ at' \in 0 .. Len(Pipeline)
           /\ pc' = "component" => at' \in Steps
           /\ pc' = "component" /\ Pipeline[at'].object = "oaDaemonSet" => "oaConnectionInfo" \notin Objects
           /\ pc' = "component" => Pipeline[at'].does \notin {"cleanUp", "forget"}
<1>1. CASE Pipeline[at].component = "setup"
  <2>1. GoTo({}) /\ failed'
    BY <1>1 DEF ComponentFails
  <2> QED BY <2>1, Walk DEF GoTo
<1>2. CASE Pipeline[at].component # "setup"
  <2>1. GoTo(NextComponents(at)) /\ failed'
    BY <1>2 DEF ComponentFails
  <2>2. NextComponents(at) \in SUBSET Steps
    BY DEF NextComponents, Following
  <2> QED BY <2>1, <2>2, NextComponent, Walk
<1> QED BY <1>1, <1>2

\* Types of the worker's position after a step.
LEMMA StepTypes ==
    ASSUME GoTo(Following(at))
    PROVE  pc' \in {"phase", "component"} /\ at' \in 0 .. Len(Pipeline)
<1>1. Following(at) \in SUBSET Steps
  BY DEF Following
<1> QED BY <1>1, Walk

\* The rows of the objects that are looked at.
LEMMA Definitions ==
    ASSUME NEW o \in Objects
    PROVE  /\ Definition[o].condition \in Objects
           /\ Definition[o].condition = IF o = "oaConnectionInfo" THEN "oaDaemonSet" ELSE o
           /\ o \in Guarded /\ o # "oaConnectionInfo" => Definition[o].reported \in {"always", "onChange", "onCreate"}
           /\ o = "oaDaemonSet" => ~Definition[o].silent
           /\ o \in {"oaConnectionInfo", "oaDaemonSet"} =>
                 /\ o \in Guarded
                 /\ Definition[o].cleanup # "never"
                 /\ \A features : Needed(o, features) <=> "oneAgent" \in features
  BY Rows, DynaKubeAssumption DEF Row, Guarded, Needed

\* Creating, updating and deleting a workload keeps the type of its rollout.
LEMMA RolloutTypes ==
    ASSUME TypeOK, NEW o \in Objects, RolledOut(o) \/ Deleted(o)
    PROVE  rollout' \in [Workloads -> Rollout]
  BY DEF TypeOK, RolledOut, Deleted, Rollout

\* whoever is in the middle of a component is at a step of the pipeline
LEMMA Here ==
    ASSUME Inv, pc = "component"
    PROVE  /\ at \in Steps /\ at \in 1 .. PipelineLength
           /\ Pipeline[at].object \in Objects
  BY Order DEF Inv, Position, Steps

(* The steps of the pipeline keep the invariant.                           *)

\* A disabled ActiveGate is skipped.
LEMMA KeepsAtSkippedActiveGate ==
    ASSUME Inv, SkipActiveGate
    PROVE  Inv'
<1>1. at \in Steps /\ GoTo(NextComponents(at))
  BY Here DEF SkipActiveGate
<1>2. /\ pc' \in {"phase", "component"}
      /\ at' \in 0 .. Len(Pipeline)
      /\ pc' = "component" => at' \in Steps
      /\ pc' = "component" /\ Pipeline[at'].object = "oaDaemonSet" => "oaConnectionInfo" \notin Objects
      /\ pc' = "component" => Pipeline[at'].does \notin {"cleanUp", "forget"}
  <2>1. NextComponents(at) \in SUBSET Steps
    BY DEF NextComponents, Following
  <2> QED BY <1>1, <2>1, Walk, NextComponent
<1>3. TypeOK'
  BY <1>2 DEF Inv, TypeOK, SkipActiveGate, clusterVars, PC, Status
<1>4. Tracked'
  <2>1. Pipeline[at].object # "oaDaemonSet"
    BY Here, Order DEF SkipActiveGate, ActiveGateIsSkipped, PipelineLength
  <2> QED BY <2>1 DEF Inv, Tracked, AboutToReport, SkipActiveGate, clusterVars, Exists, ConditionOf
<1> QED BY <1>2, <1>3, <1>4 DEF Inv, Position, NothingIsForgotten, ConnectionInfoFirst, StatefulSetFirst

\* Nothing to do: an object whose clean-up is skipped by its condition is not there.
LEMMA KeepsAtSkippedStep ==
    ASSUME Inv, SkipStep
    PROVE  Inv'
<1>1. at \in Steps /\ GoTo(Following(at)) /\ pc = "component"
  BY Here DEF SkipStep
<1>2. pc' \in {"phase", "component"} /\ at' \in 0 .. Len(Pipeline)
  BY <1>1, StepTypes
<1>3. TypeOK' /\ Position'
  BY <1>1, <1>2, NextStep DEF Inv, TypeOK, Position, SkipStep, clusterVars, PC, Status
<1> DEFINE o == Pipeline[at].object
<1>4. o \in Objects /\ at \in 1 .. PipelineLength
  BY <1>1, Here
<1>5. o = "oaDaemonSet" => ~Needed("oaConnectionInfo", specRead)
  <2> SUFFICES ASSUME o = "oaDaemonSet", "oneAgent" \in specRead
               PROVE  FALSE
    BY Rows, Order, <1>4 DEF Row, Needed, ManagedObject, Definition
  <2> QED BY <1>4, Order, Definitions DEF SkipStep, SetsUp, PipelineLength
<1>6. Tracked'
  BY <1>5 DEF Inv, Tracked, AboutToReport, SkipStep, clusterVars, Exists, ConditionOf
<1>7. ConnectionInfoFirst'
  <2> SUFFICES ASSUME pc' = "component", Pipeline[at'].object = "oaDaemonSet", "oaConnectionInfo" \in Objects, ~lost,
                      ~Needed("oaConnectionInfo", specRead)
               PROVE  ~Exists("oaConnectionInfo")
    BY DEF ConnectionInfoFirst, SkipStep, clusterVars, Exists
  <2>1. o = "oaConnectionInfo"
    BY <1>1, NextStep
  <2>2. ConditionOf(o) = "none" /\ o \in Guarded
    BY <1>4, <2>1, Definitions, Order DEF SkipStep, CleansUp, PipelineLength
  <2> QED BY <1>1, <2>1, <2>2 DEF Inv, Tracked, AboutToReport
<1>8. StatefulSetFirst'
  <2> SUFFICES ASSUME pc' = "component", Pipeline[at'].does \in {"cleanUp", "forget"},
                      ~Needed("agStatefulSet", specRead)
               PROVE  ~Exists("agStatefulSet")
    BY DEF StatefulSetFirst, SkipStep, clusterVars, Exists
  <2>1. Pipeline[at].does = "cleanUp"
    BY <1>1, NextStep DEF SkipStep, DeletesActiveGate
  <2> QED BY <1>1, <2>1 DEF Inv, StatefulSetFirst
<1> QED BY <1>2, <1>3, <1>6, <1>7, <1>8 DEF Inv, NothingIsForgotten

\* A set-up reports, unless the object was there before, or is the connection information.
LEMMA KeepsAtSetUp ==
    ASSUME Inv, NEW p \in Objects, SetUp(p)
    PROVE  Inv'
<1>1. /\ pc = "component" /\ at \in Steps /\ at \in 1 .. PipelineLength
      /\ Pipeline[at].object = p
      /\ Pipeline[at].does \in {"both", "setUp"} /\ Needed(p, specRead)
  BY Here DEF SetUp, AtStepOf, SetsUp
<1>2. \/ GoTo(Following(at)) /\ (p = "oaTenantSecret" => status' = status)
      \/ p = "oaTenantSecret" /\ pc' = "persist" /\ at' = at
  BY DEF SetUp
<1>3. status' \in Status
  <2>1. CASE Reported(p)
    BY <2>1, ConditionSet, Definitions DEF Inv, TypeOK, SetUp, Condition
  <2>2. CASE ~Reported(p)
    BY <2>2 DEF Inv, TypeOK, SetUp
  <2> QED BY <2>1, <2>2
<1>4. TypeOK'
  <2>1. objects' \in [Objects -> Existence]
    BY DEF Inv, TypeOK, SetUp, Existence
  <2>2. rollout' \in [Workloads -> Rollout]
    BY RolloutTypes DEF Inv, SetUp
  <2>3. pc' \in PC /\ at' \in 0 .. Len(Pipeline)
    BY <1>1, <1>2, StepTypes, Order DEF PC
  <2> QED BY <1>3, <2>1, <2>2, <2>3 DEF Inv, TypeOK, SetUp
<1>5. Position'
  BY <1>1, <1>2, NextStep DEF Position, GoTo
<1>6. Tracked'
  <2> SUFFICES ASSUME ~lost, NEW o \in Guarded, Exists(o)', ~AboutToReport(o)'
               PROVE  status'.conds[Definition[o].condition] # "none"
    BY DEF Tracked, SetUp, ConditionOf
  <2> DEFINE c == Definition[o].condition
  <2>1. o \in Objects /\ c \in Objects
    BY Definitions DEF Guarded
  <2>2. status'.conds[c] # "none" \/ status'.conds[c] = status.conds[c]
    BY <2>1, ConditionSet, Definitions DEF Inv, TypeOK, SetUp, Condition
  <2>3. Reported(p) /\ Definition[p].condition = c => status'.conds[c] # "none"
    BY <2>1, ConditionSet, Definitions DEF Inv, TypeOK, SetUp, Condition
  <2>4. o # p => Exists(o)
    BY <2>1 DEF SetUp, Exists, Inv, TypeOK
  <2>5. Exists(o) /\ ~AboutToReport(o) => status.conds[c] # "none"
    BY <1>1 DEF Inv, Tracked, ConditionOf
  <2>6. p # "oaConnectionInfo" /\ p \in Guarded /\ ~Reported(p) => Exists(p)
    BY Definitions DEF Reported, Exists
  <2>7. CASE o = p /\ p # "oaConnectionInfo"
    BY <2>2, <2>3, <2>5, <2>6, <2>7 DEF AboutToReport
  <2>8. CASE o = p /\ p = "oaConnectionInfo"
    <3>1. GoTo(Following(at))
      BY <1>2, <2>8
    <3>2. pc' = "component" /\ Pipeline[at'].object = "oaDaemonSet"
      BY <1>1, <2>8, <3>1, NextStep
    <3> QED BY <1>1, <2>8, <3>2 DEF AboutToReport, SetUp, Needed
  <2>9. CASE o # p /\ AboutToReport(o)
    <3>1. p = "oaDaemonSet" /\ c = Definition[p].condition /\ p \in Guarded
      BY <1>1, <2>1, <2>9, Definitions DEF AboutToReport
    <3>2. ~Reported(p) => status.conds[c] # "none"
      BY <1>1, <2>6, <3>1 DEF Inv, Tracked, ConditionOf, AboutToReport
    <3> QED BY <2>2, <2>3, <3>1, <3>2
  <2>10. CASE o # p /\ ~AboutToReport(o)
    BY <2>2, <2>4, <2>5, <2>10
  <2> QED BY <2>7, <2>8, <2>9, <2>10
<1>7. ConnectionInfoFirst'
  <2> SUFFICES ASSUME pc' = "component", Pipeline[at'].object = "oaDaemonSet", "oaConnectionInfo" \in Objects
               PROVE  Needed("oaConnectionInfo", specRead)'
    BY DEF ConnectionInfoFirst
  <2> QED BY <1>1, <1>2, NextStep DEF SetUp, Needed
<1>8. StatefulSetFirst'
  BY <1>1, <1>2, NextStep DEF StatefulSetFirst
<1>9. NothingIsForgotten'
  BY <1>2, StepTypes DEF NothingIsForgotten
<1> QED BY <1>4, <1>5, <1>6, <1>7, <1>8, <1>9 DEF Inv

\* A failed set-up shows the error, unless it failed silently and created nothing.
LEMMA KeepsAtFailedSetUp ==
    ASSUME Inv, NEW p \in Objects, SetUpFails(p)
    PROVE  Inv'
<1>1. /\ pc = "component" /\ at \in Steps
      /\ Pipeline[at].object = p
      /\ Needed(p, specRead)
      /\ ComponentFails
  BY Here DEF SetUpFails, AtStepOf, SetsUp
<1>2. \/ ShowsErrors(p) /\ SetCondition(Definition[p].condition, "error")
      \/ ~ShowsErrors(p) /\ status' = status
      \/ Definition[p].silent /\ objects' = objects /\ status' = status
  BY DEF SetUpFails
<1>3. status' \in Status
  BY <1>2, ConditionSet, Definitions DEF Inv, TypeOK, Condition
<1>4. TypeOK'
  <2>1. objects' \in [Objects -> Existence]
    BY DEF Inv, TypeOK, SetUpFails, MaybeDone, Existence
  <2>2. rollout' \in [Workloads -> Rollout]
    BY RolloutTypes DEF Inv, TypeOK, SetUpFails, MaybeDone
  <2>3. pc' \in PC /\ at' \in 0 .. Len(Pipeline) /\ failed' \in BOOLEAN
    BY <1>1, ComponentEnds DEF PC
  <2>4. faults' \in 0 .. MaxFaults
    BY DynaKubeAssumption DEF Inv, TypeOK, SetUpFails, Fault
  <2>5. unreachable' \in BOOLEAN
    BY DEF Inv, TypeOK, SetUpFails
  <2> QED BY <1>3, <2>1, <2>2, <2>3, <2>4, <2>5 DEF Inv, TypeOK, SetUpFails
<1>5. Position'
  BY <1>1, ComponentEnds DEF Position
<1>6. Tracked'
  <2> SUFFICES ASSUME ~lost, NEW o \in Guarded, Exists(o)'
               PROVE  status'.conds[Definition[o].condition] # "none"
    BY DEF Tracked, SetUpFails, ConditionOf
  <2> DEFINE c == Definition[o].condition
  <2>1. o \in Objects /\ c \in Objects
    BY Definitions DEF Guarded
  <2>2. status'.conds[c] # "none" \/ status'.conds[c] = status.conds[c]
    BY <1>2, <2>1, ConditionSet, Definitions DEF Inv, TypeOK, Condition
  <2>3. Definition[p].condition = c /\ ShowsErrors(p) /\ ~(Definition[p].silent /\ objects' = objects)
           => status'.conds[c] # "none"
    BY <1>2, <2>1, ConditionSet, Definitions DEF Inv, TypeOK, Condition
  <2>4. o # p \/ objects' = objects => Exists(o)
    BY <2>1 DEF SetUpFails, MaybeDone, Exists, Inv, TypeOK
  <2>5. Exists(o) /\ ~AboutToReport(o) => status.conds[c] # "none"
    BY <1>1 DEF Inv, Tracked, ConditionOf
  <2>6. p \in Guarded => ShowsErrors(p)
    BY Definitions DEF ShowsErrors
  <2>7. CASE o = p
    BY <1>1, <2>2, <2>3, <2>4, <2>5, <2>6, <2>7 DEF AboutToReport
  <2>8. CASE o # p /\ AboutToReport(o)
    <3>1. p = "oaDaemonSet" /\ c = Definition[p].condition /\ p \in Guarded /\ ~Definition[p].silent
      BY <1>1, <2>1, <2>8, Definitions DEF AboutToReport
    <3> QED BY <2>3, <2>6, <3>1
  <2>9. CASE o # p /\ ~AboutToReport(o)
    BY <2>2, <2>4, <2>5, <2>9
  <2> QED BY <2>7, <2>8, <2>9
<1>7. ConnectionInfoFirst' /\ StatefulSetFirst' /\ NothingIsForgotten'
  BY <1>1, ComponentEnds DEF ConnectionInfoFirst, StatefulSetFirst, NothingIsForgotten
<1> QED BY <1>4, <1>5, <1>6, <1>7 DEF Inv

\* A postponed set-up shows an error and ends the reconcile.
LEMMA KeepsAtPostponement ==
    ASSUME Inv, Postpone
    PROVE  Inv'
<1>1. /\ pc = "component" /\ at \in Steps
      /\ Pipeline[at].object = "oaTenantSecret" /\ "oaTenantSecret" \in Objects
      /\ SetCondition("oaTenantSecret", "error")
      /\ pc' = "phase" /\ at' = 0
  BY Here DEF Postpone, Postponed, GoTo
<1>2. /\ status' \in Status
      /\ \A c \in Objects : status'.conds[c] # "none" \/ status'.conds[c] = status.conds[c]
  BY <1>1, ConditionSet DEF Inv, TypeOK, Condition
<1>3. TypeOK'
  BY <1>1, <1>2, Order DEF Inv, TypeOK, Postpone, clusterVars, PC, PipelineLength
<1>4. Tracked'
  BY <1>1, <1>2, Definitions
  DEF Inv, Tracked, AboutToReport, Postpone, clusterVars, Exists, ConditionOf, Guarded
<1> QED BY <1>1, <1>3, <1>4 DEF Inv, Position, ConnectionInfoFirst, StatefulSetFirst, NothingIsForgotten

\* Storing the status in between changes nothing the worker relies on.
LEMMA KeepsAtPersisting ==
    ASSUME Inv, PersistStatus
    PROVE  Inv'
<1>1. at \in Steps /\ at \in 1 .. PipelineLength /\ Pipeline[at].object = "oaTenantSecret" /\ pc = "persist"
  BY Order DEF Inv, Position, PersistStatus, Steps
<1>2. \/ GoTo(Following(at)) /\ failed' = failed /\ faults' = faults
      \/ Fault /\ ComponentFails
  BY DEF PersistStatus
<1>3. /\ pc' \in {"phase", "component"} /\ at' \in 0 .. Len(Pipeline) /\ failed' \in BOOLEAN
      /\ Position'
  BY <1>1, <1>2, StepTypes, NextStep, ComponentEnds DEF Position, Inv, TypeOK
<1>4. TypeOK'
  <2>1. stored' \in Status
    BY DEF Inv, TypeOK, PersistStatus, Written
  <2>2. faults' \in 0 .. MaxFaults
    BY <1>2, DynaKubeAssumption DEF Inv, TypeOK, Fault
  <2> QED BY <1>3, <2>1, <2>2 DEF Inv, TypeOK, PersistStatus, PC
<1>5. Tracked'
  BY <1>1 DEF Inv, Tracked, AboutToReport, PersistStatus, Exists, ConditionOf
<1>6. ConnectionInfoFirst'
  BY <1>1, <1>2, NextStep, ComponentEnds DEF ConnectionInfoFirst
<1>7. StatefulSetFirst'
  <2>1. Pipeline[at].does \notin {"delete", "cleanUp"}
    BY <1>1, Order DEF PipelineLength
  <2> QED BY <1>1, <1>2, <2>1, NextStep, ComponentEnds DEF StatefulSetFirst
<1> QED BY <1>3, <1>4, <1>5, <1>6, <1>7 DEF Inv, NothingIsForgotten

\* The condition goes with the object; one it is shared with is gone already.
LEMMA KeepsAtCleanUp ==
    ASSUME Inv, NEW p \in Objects, CleanUp(p)
    PROVE  Inv'
<1>1. /\ pc = "component" /\ at \in Steps /\ at \in 1 .. PipelineLength
      /\ Pipeline[at].object = p
      /\ Pipeline[at].does \in {"both", "cleanUp"} /\ ~Needed(p, specRead)
      /\ GoTo(Following(at))
      /\ Deleted(p) /\ DropCondition(p)
  BY Here DEF CleanUp, AtStepOf, CleansUp
<1>2. /\ status' \in Status
      /\ \A c \in Objects : (c = p /\ Definition[p].condition = p) \/ status'.conds[c] = status.conds[c]
  BY <1>1, ConditionSet DEF DropCondition, Inv, TypeOK, Condition
<1>3. /\ objects' \in [Objects -> Existence]
      /\ \A o \in Objects : Exists(o)' => o # p /\ Exists(o)
  BY <1>1 DEF Deleted, Exists, Inv, TypeOK, Existence
<1>4. TypeOK'
  <2>1. rollout' \in [Workloads -> Rollout]
    BY <1>1, RolloutTypes DEF Inv
  <2>2. pc' \in PC /\ at' \in 0 .. Len(Pipeline)
    BY <1>1, StepTypes DEF PC
  <2> QED BY <1>2, <1>3, <2>1, <2>2 DEF Inv, TypeOK, CleanUp
<1>5. Position'
  BY <1>1, NextStep, StepTypes DEF Position
<1>6. Tracked'
  <2> SUFFICES ASSUME ~lost, NEW o \in Guarded, Exists(o)'
               PROVE  status'.conds[Definition[o].condition] # "none"
    BY DEF Tracked, CleanUp, ConditionOf
  <2>1. o \in Objects /\ Definition[o].condition \in Objects /\ Exists(o) /\ o # p
    BY <1>3, Definitions DEF Guarded
  <2>2. ~AboutToReport(o)
    BY <1>1, <2>1, Definitions DEF AboutToReport
  <2>3. status.conds[Definition[o].condition] # "none"
    BY <1>1, <2>1, <2>2 DEF Inv, Tracked, ConditionOf
  <2>4. Definition[o].condition # p
    <3> SUFFICES ASSUME Definition[o].condition = p
                 PROVE  FALSE
      OBVIOUS
    <3>1. o = "oaConnectionInfo" /\ p = "oaDaemonSet"
      BY <2>1, Definitions
    <3>2. ~Needed(o, specRead)
      BY <1>1, <2>1, <3>1, Definitions
    <3> QED BY <1>1, <2>1, <3>1, <3>2 DEF Inv, ConnectionInfoFirst
  <2> QED BY <1>2, <2>1, <2>3, <2>4
<1>7. ConnectionInfoFirst'
  <2> SUFFICES ASSUME pc' = "component", Pipeline[at'].object = "oaDaemonSet", "oaConnectionInfo" \in Objects
               PROVE  ~Exists("oaConnectionInfo")'
    BY DEF ConnectionInfoFirst
  <2> QED BY <1>1, <1>3, NextStep
<1>8. StatefulSetFirst'
  <2> SUFFICES ASSUME pc' = "component", Pipeline[at'].does \in {"cleanUp", "forget"},
                      ~Needed("agStatefulSet", specRead)
               PROVE  ~Exists("agStatefulSet")'
    BY DEF StatefulSetFirst, CleanUp, Needed
  <2>1. ~Exists("agStatefulSet")
    BY <1>1, NextStep DEF Inv, StatefulSetFirst
  <2> QED BY <1>3, <2>1, DynaKubeAssumption
<1>9. NothingIsForgotten'
  BY <1>1, StepTypes DEF NothingIsForgotten
<1> QED BY <1>4, <1>5, <1>6, <1>7, <1>8, <1>9 DEF Inv

\* A failed clean-up keeps the condition, or is recorded as lost.
LEMMA KeepsAtFailedCleanUp ==
    ASSUME Inv, NEW p \in Objects, CleanUpFails(p)
    PROVE  Inv'
<1> DEFINE how == Definition[p].cleanup
<1>1. /\ pc = "component" /\ at \in Steps /\ at \in 1 .. PipelineLength
      /\ Pipeline[at].object = p
      /\ Pipeline[at].does \in {"both", "cleanUp"} /\ ~Needed(p, specRead)
      /\ Fault
  BY Here DEF CleanUpFails, AtStepOf, CleansUp
<1>2. /\ how = "forget" => GoTo(Following(at)) /\ failed' = failed
      /\ how # "forget" => ComponentFails
      /\ lost' = (lost \/ how \in {"forget", "forgetAndFail"})
      /\ how \in {"forget", "forgetAndFail"} => DropCondition(p)
      /\ how = "report" => SetCondition(p, "error")
      /\ how \notin {"forget", "forgetAndFail", "report"} => status' = status
  BY DEF CleanUpFails
<1>3. /\ status' \in Status
      /\ ~lost' => \A c \in Objects : status'.conds[c] # "none" \/ status'.conds[c] = status.conds[c]
  BY <1>2, ConditionSet DEF DropCondition, Inv, TypeOK, Condition
<1>4. TypeOK'
  <2>1. pc' \in PC /\ at' \in 0 .. Len(Pipeline) /\ failed' \in BOOLEAN
    BY <1>1, <1>2, StepTypes, ComponentEnds DEF PC, Inv, TypeOK
  <2>2. faults' \in 0 .. MaxFaults
    BY <1>1, DynaKubeAssumption DEF Inv, TypeOK, Fault
  <2>3. lost' \in BOOLEAN
    BY <1>2 DEF Inv, TypeOK
  <2> QED BY <1>3, <2>1, <2>2, <2>3 DEF Inv, TypeOK, CleanUpFails, clusterVars
<1>5. Position'
  BY <1>1, <1>2, NextStep, StepTypes, ComponentEnds DEF Position
<1>6. Tracked'
  <2> SUFFICES ASSUME ~lost', NEW o \in Guarded, Exists(o)'
               PROVE  status'.conds[Definition[o].condition] # "none"
    BY DEF Tracked, ConditionOf
  <2>1. o \in Objects /\ Definition[o].condition \in Objects /\ Exists(o) /\ ~lost
    BY <1>2, Definitions DEF Guarded, CleanUpFails, clusterVars, Exists
  <2>2. ~AboutToReport(o)
    BY <1>1, <2>1, Definitions DEF AboutToReport
  <2>3. status.conds[Definition[o].condition] # "none"
    BY <1>1, <2>1, <2>2 DEF Inv, Tracked, ConditionOf
  <2> QED BY <1>3, <2>1, <2>3
<1>7. ConnectionInfoFirst'
  <2> SUFFICES ASSUME ~lost'
               PROVE  ConnectionInfoFirst'
    BY DEF ConnectionInfoFirst
  <2> QED BY <1>1, <1>2, ComponentEnds DEF ConnectionInfoFirst
<1>8. StatefulSetFirst'
  <2> SUFFICES ASSUME pc' = "component", Pipeline[at'].does \in {"cleanUp", "forget"},
                      ~Needed("agStatefulSet", specRead)
               PROVE  ~Exists("agStatefulSet")
    BY DEF StatefulSetFirst, CleanUpFails, clusterVars, Needed, Exists
  <2> QED BY <1>1, <1>2, NextStep, ComponentEnds DEF Inv, StatefulSetFirst
<1>9. NothingIsForgotten'
  BY <1>1, <1>2, StepTypes, ComponentEnds DEF NothingIsForgotten
<1> QED BY <1>4, <1>5, <1>6, <1>7, <1>8, <1>9 DEF Inv

\* Deleting the StatefulSet, and dropping its condition two steps later.
LEMMA KeepsAtDeletedActiveGate ==
    ASSUME Inv, DeleteActiveGate
    PROVE  Inv'
<1> DEFINE p == "agStatefulSet"
<1>1. /\ pc = "component" /\ at \in Steps /\ at \in 1 .. PipelineLength
      /\ Pipeline[at].does \in {"delete", "forget"} /\ at \in {11, 14}
      /\ ~Needed(p, specRead)
      /\ p \in Objects
  BY Here, Order, DynaKubeAssumption DEF DeleteActiveGate, DeletesActiveGate, PipelineLength
<1>2. Pipeline[at].object \notin {"oaConnectionInfo", "oaDaemonSet"}
  BY <1>1, Order DEF PipelineLength
<1>3. CASE Pipeline[at].does = "delete" /\ Deleted(p) /\ GoTo(Following(at)) /\ UNCHANGED <<status, failed, faults>>
  <2>1. /\ objects' \in [Objects -> Existence]
        /\ \A o \in Objects : Exists(o)' => o # p /\ Exists(o)
    BY <1>1, <1>3 DEF Deleted, Exists, Inv, TypeOK, Existence
  <2>2. rollout' \in [Workloads -> Rollout]
    BY <1>1, <1>3, RolloutTypes DEF Inv
  <2>3. /\ pc' \in {"phase", "component"} /\ at' \in 0 .. Len(Pipeline)
        /\ Position'
    BY <1>1, <1>3, StepTypes, NextStep DEF Position
  <2>4. TypeOK'
    BY <1>3, <2>1, <2>2, <2>3 DEF Inv, TypeOK, DeleteActiveGate, PC
  <2>5. Tracked'
    BY <1>1, <1>2, <1>3, <2>1 DEF Inv, Tracked, AboutToReport, DeleteActiveGate, ConditionOf, Guarded
  <2>6. ConnectionInfoFirst'
    BY <1>1, <1>2, <1>3, NextStep DEF ConnectionInfoFirst
  <2>7. StatefulSetFirst'
    BY <1>1, <2>1 DEF StatefulSetFirst
  <2> QED BY <2>3, <2>4, <2>5, <2>6, <2>7 DEF Inv, NothingIsForgotten
<1>4. CASE Pipeline[at].does = "delete" /\ Fault /\ ComponentFails /\ UNCHANGED <<objects, rollout, status>>
  <2>1. /\ pc' \in {"phase", "component"} /\ at' \in 0 .. Len(Pipeline) /\ failed' \in BOOLEAN
        /\ Position' /\ ConnectionInfoFirst' /\ StatefulSetFirst'
    BY <1>1, <1>4, ComponentEnds DEF Position, ConnectionInfoFirst, StatefulSetFirst
  <2>2. faults' \in 0 .. MaxFaults
    BY <1>4, DynaKubeAssumption DEF Inv, TypeOK, Fault
  <2>3. TypeOK'
    BY <1>4, <2>1, <2>2 DEF Inv, TypeOK, DeleteActiveGate, PC
  <2>4. Tracked'
    BY <1>1, <1>2, <1>4 DEF Inv, Tracked, AboutToReport, DeleteActiveGate, ConditionOf, Exists
  <2> QED BY <2>1, <2>3, <2>4 DEF Inv, NothingIsForgotten
<1>5. CASE /\ Pipeline[at].does = "forget" /\ SetCondition(p, "none") /\ GoTo(Following(at))
           /\ UNCHANGED <<objects, rollout, failed, faults>>
  <2>1. /\ status' \in Status
        /\ \A c \in Objects : c # p => status'.conds[c] = status.conds[c]
    BY <1>1, <1>5, ConditionSet DEF Inv, TypeOK, Condition
  <2>2. /\ pc' \in {"phase", "component"} /\ at' \in 0 .. Len(Pipeline)
        /\ Position'
    BY <1>1, <1>5, StepTypes, NextStep DEF Position
  <2>3. TypeOK'
    BY <1>5, <2>1, <2>2 DEF Inv, TypeOK, DeleteActiveGate, PC
  <2>4. ~Exists(p)
    BY <1>1, <1>5 DEF Inv, StatefulSetFirst
  <2>5. Tracked'
    <3> SUFFICES ASSUME ~lost, NEW o \in Guarded, Exists(o)
                 PROVE  status'.conds[Definition[o].condition] # "none"
      BY <1>5 DEF Tracked, DeleteActiveGate, ConditionOf, Exists
    <3>1. o \in Objects /\ Definition[o].condition \in Objects /\ Definition[o].condition # p
      BY <2>4, Definitions DEF Guarded
    <3>2. status.conds[Definition[o].condition] # "none"
      BY <1>1, <1>2 DEF Inv, Tracked, ConditionOf, AboutToReport
    <3> QED BY <2>1, <3>1, <3>2
  <2>6. ConnectionInfoFirst'
    BY <1>1, <1>2, <1>5, NextStep DEF ConnectionInfoFirst
  <2>7. StatefulSetFirst'
    BY <1>1, <1>5, NextStep DEF StatefulSetFirst
  <2> QED BY <2>2, <2>3, <2>5, <2>6, <2>7 DEF Inv, NothingIsForgotten
<1> QED BY <1>3, <1>4, <1>5 DEF DeleteActiveGate

-----------------------------------------------------------------------------
(* Start and end of a reconcile, and the environment.                       *)

\* A reconcile starts with a copy of the stored status.
LEMMA KeepsAtStart ==
    ASSUME Inv, Reconcile
    PROVE  Inv'
<1>1. /\ pc = "idle" /\ specRead' = spec /\ status' = stored /\ edited' = FALSE
      /\ failed' \in BOOLEAN /\ unreachable' \in BOOLEAN
      /\ GoTo(Steps) \/ GoTo({})
  BY DEF Reconcile
<1>2. /\ pc' \in {"phase", "component"} /\ at' \in 0 .. Len(Pipeline)
      /\ Position' /\ ConnectionInfoFirst' /\ StatefulSetFirst'
  BY <1>1, Walk, FirstStep DEF Position, ConnectionInfoFirst, StatefulSetFirst
<1>3. TypeOK'
  <2>1. faults' \in 0 .. MaxFaults
    BY DynaKubeAssumption DEF Inv, TypeOK, Reconcile, Fault
  <2> QED BY <1>1, <1>2, <2>1 DEF Inv, TypeOK, Reconcile, clusterVars, PC
<1>4. Tracked'
  BY <1>1 DEF Inv, NothingIsForgotten, Tracked, Reconcile, clusterVars, ConditionOf, Exists
<1> QED BY <1>2, <1>3, <1>4 DEF Inv, NothingIsForgotten

\* The phase touches no condition.
LEMMA KeepsAtPhase ==
    ASSUME Inv, DeterminePhase
    PROVE  Inv'
<1>1. PICK phase \in Phase : status' = [status EXCEPT !.phase = phase]
  BY DEF DeterminePhase, DeterminedPhase, Phase
<1>2. status' \in Status /\ status'.conds = status.conds
  BY <1>1 DEF Inv, TypeOK, Status
<1>3. TypeOK'
  <2>1. faults' \in 0 .. MaxFaults
    BY DynaKubeAssumption DEF Inv, TypeOK, DeterminePhase, Fault
  <2> QED BY <1>2, <2>1 DEF Inv, TypeOK, DeterminePhase, clusterVars, PC
<1>4. Tracked'
  BY <1>2 DEF Inv, Tracked, AboutToReport, DeterminePhase, clusterVars, ConditionOf, Exists
<1> QED BY <1>3, <1>4 DEF Inv, DeterminePhase, Position, ConnectionInfoFirst, StatefulSetFirst, NothingIsForgotten

\* A reconcile ends: the copy is stored, equal to what is stored, or lost.
LEMMA KeepsAtEnd ==
    ASSUME Inv, pc \in {"phase", "status"}, Done,
           UNCHANGED <<spec, objects, rollout, edits>>,
           stored' \in {stored, status}, faults' \in 0 .. MaxFaults, lost' \in BOOLEAN,
           ~lost' => ~lost /\ stored'.conds = status.conds
    PROVE  Inv'
<1>1. TypeOK'
  <2>1. NoStatus \in Status
    BY DEF NoStatus, Status, Condition, Phase
  <2>2. at' \in 0 .. Len(Pipeline)
    BY Order DEF Done, PipelineLength
  <2> QED BY <2>1, <2>2 DEF Inv, TypeOK, Done, PC
<1>2. NothingIsForgotten'
  BY DEF Inv, Tracked, AboutToReport, NothingIsForgotten, ConditionOf, Exists
<1> QED BY <1>1, <1>2 DEF Inv, Done, Tracked, Position, ConnectionInfoFirst, StatefulSetFirst

\* An unreachable tenant: nothing is stored.
LEMMA KeepsAtUnreachableTenant ==
    ASSUME Inv, TenantUnreachable
    PROVE  Inv'
<1>1. lost' \in BOOLEAN /\ (~lost' => ~lost /\ stored'.conds = status.conds)
  BY DEF TenantUnreachable, StatusIsDropped, clusterVars, Inv, TypeOK
<1> QED BY <1>1, KeepsAtEnd DEF TenantUnreachable, clusterVars, Inv, TypeOK

\* The status is written, or refused because of an edit.
LEMMA KeepsAtWrite ==
    ASSUME Inv, WriteStatus
    PROVE  Inv'
<1>1. stored' \in {stored, status}
  BY DEF WriteStatus, Written
<1>2. lost' \in BOOLEAN /\ (~lost' => ~lost /\ stored'.conds = status.conds)
  <2>1. \/ lost' = lost /\ stored' = status
        \/ StatusIsDropped /\ stored' = stored
    BY DEF WriteStatus, Written
  <2>2. CASE lost' = lost /\ stored' = status
    BY <2>2 DEF Inv, TypeOK
  <2>3. CASE StatusIsDropped /\ stored' = stored
    BY <2>3 DEF StatusIsDropped, Inv, TypeOK
  <2> QED BY <2>1, <2>2, <2>3
<1>3. faults' \in 0 .. MaxFaults
  BY DynaKubeAssumption DEF Inv, TypeOK, WriteStatus, Fault
<1> QED BY <1>1, <1>2, <1>3, KeepsAtEnd DEF WriteStatus

\* A crash loses the copy.
LEMMA KeepsAtCrash ==
    ASSUME Inv, OperatorCrashes
    PROVE  Inv'
<1>1. TypeOK'
  <2>1. NoStatus \in Status
    BY DEF NoStatus, Status, Condition, Phase
  <2>2. faults' \in 0 .. MaxFaults
    BY DynaKubeAssumption DEF Inv, TypeOK, OperatorCrashes, Fault
  <2>3. at' \in 0 .. Len(Pipeline)
    BY Order DEF OperatorCrashes, Done, PipelineLength
  <2> QED BY <2>1, <2>2, <2>3 DEF Inv, TypeOK, OperatorCrashes, Done, PC, clusterVars
<1> QED BY <1>1 DEF Inv, OperatorCrashes, Done, Tracked, Position, ConnectionInfoFirst, StatefulSetFirst,
                NothingIsForgotten

\* Whatever creates no object and leaves the worker alone.
LEMMA KeepsInTheCluster ==
    ASSUME Inv, UNCHANGED <<stored, pc, at, specRead, status, failed, unreachable, lost, faults>>,
           TypeOK', \A o \in Objects : Exists(o)' => Exists(o)
    PROVE  Inv'
<1>1. Tracked'
  BY DEF Inv, Tracked, AboutToReport, Guarded, ConditionOf, Needed
<1>2. ConnectionInfoFirst' /\ StatefulSetFirst' /\ NothingIsForgotten'
  BY DynaKubeAssumption DEF Inv, ConnectionInfoFirst, StatefulSetFirst, NothingIsForgotten, Guarded, Needed
<1> QED BY <1>1, <1>2 DEF Inv, Position

\* Users, and the controllers of Kubernetes.
LEMMA KeepsInTheEnvironment ==
    ASSUME Inv, Environment
    PROVE  Inv'
<1>1. ASSUME NEW f \in Features, FeatureSwitched(f) PROVE Inv'
  <2>1. spec' \subseteq Features /\ edited' \in BOOLEAN /\ edits' \in 0 .. MaxEdits
    BY <1>1, DynaKubeAssumption DEF FeatureSwitched, Edit, Inv, TypeOK
  <2>2. TypeOK'
    BY <1>1, <2>1 DEF FeatureSwitched, Inv, TypeOK
  <2> QED BY <1>1, <2>2, KeepsInTheCluster DEF FeatureSwitched, Exists
<1>2. ASSUME NEW o \in Objects, ContentChanges(o) PROVE Inv'
  <2>1. objects' \in [Objects -> Existence] /\ \A p \in Objects : Exists(p)' => Exists(p)
    BY <1>2 DEF ContentChanges, Inv, TypeOK, Existence, Exists
  <2>2. edited' \in BOOLEAN /\ edits' \in 0 .. MaxEdits
    BY <1>2, DynaKubeAssumption DEF ContentChanges, Edit, Inv, TypeOK
  <2>3. TypeOK'
    BY <1>2, <2>1, <2>2 DEF ContentChanges, Inv, TypeOK
  <2> QED BY <1>2, <2>1, <2>3, KeepsInTheCluster DEF ContentChanges
<1>3. ASSUME NEW o \in Fragile, ObjectDisappears(o) PROVE Inv'
  <2>1. objects' \in [Objects -> Existence] /\ \A p \in Objects : Exists(p)' => Exists(p)
    BY <1>3, DynaKubeAssumption DEF ObjectDisappears, Inv, TypeOK, Existence, Exists
  <2>2. edits' \in 0 .. MaxEdits
    BY <1>3, DynaKubeAssumption DEF ObjectDisappears, Edit, Inv, TypeOK
  <2>3. TypeOK'
    BY <1>3, <2>1, <2>2 DEF ObjectDisappears, workerVars, Inv, TypeOK
  <2> QED BY <1>3, <2>1, <2>3, KeepsInTheCluster DEF ObjectDisappears, workerVars
<1>4. ASSUME NEW o \in Workloads, RolloutProgress(o) PROVE Inv'
  <2>1. rollout' \in [Workloads -> Rollout]
    BY <1>4 DEF RolloutProgress, Inv, TypeOK, Rollout
  <2>2. TypeOK'
    BY <1>4, <2>1 DEF RolloutProgress, workerVars, Inv, TypeOK
  <2> QED BY <1>4, <2>2, KeepsInTheCluster DEF RolloutProgress, workerVars, Exists
<1> QED BY <1>1, <1>2, <1>3, <1>4, KeepsAtCrash DEF Environment

-----------------------------------------------------------------------------
(* The theorems.                                                            *)

\* Every step keeps the invariant.
LEMMA InvNext == Inv /\ [Next]_vars => Inv'
<1> SUFFICES ASSUME Inv, [Next]_vars PROVE Inv'
  OBVIOUS
<1>1. CASE Worker
  BY <1>1, KeepsAtStart, KeepsAtSkippedActiveGate, KeepsAtSkippedStep, KeepsAtSetUp, KeepsAtFailedSetUp,
     KeepsAtCleanUp, KeepsAtFailedCleanUp, KeepsAtPostponement, KeepsAtDeletedActiveGate, KeepsAtPersisting,
     KeepsAtPhase, KeepsAtUnreachableTenant, KeepsAtWrite DEF Worker
<1>2. CASE Environment
  BY <1>2, KeepsInTheEnvironment
<1>3. CASE UNCHANGED vars
  <2>1. TypeOK'
    BY <1>3 DEF vars, clusterVars, workerVars, Inv, TypeOK
  <2> QED BY <1>3, <2>1, KeepsInTheCluster DEF vars, clusterVars, workerVars, Exists
<1> QED BY <1>1, <1>2, <1>3 DEF Next

\* It holds in every initial state.
LEMMA InvInit == Init => Inv
<1> SUFFICES ASSUME Init PROVE Inv
  OBVIOUS
<1>1. NoStatus \in Status
  BY DEF NoStatus, Status, Condition, Phase
<1>2. TypeOK
  <2>1. spec \subseteq Features /\ objects \in [Objects -> Existence] /\ rollout \in [Workloads -> Rollout]
    BY DEF Init, Existence, Rollout
  <2>2. at \in 0 .. Len(Pipeline) /\ edits \in 0 .. MaxEdits /\ faults \in 0 .. MaxFaults
    BY Order, DynaKubeAssumption DEF Init, PipelineLength
  <2> QED BY <1>1, <2>1, <2>2 DEF Init, TypeOK, PC
<1> QED BY <1>2 DEF Init, Inv, Position, NothingIsForgotten, Tracked, ConnectionInfoFirst, StatefulSetFirst, Exists, Guarded

\* The inductive invariant holds in every reachable state, for every choice of objects, features and bounds.
THEOREM Invariant == Spec => []Inv
  BY InvInit, InvNext, PTL DEF Spec

\* Every variable keeps its type (TypeOK).
THEOREM TypeCorrect == Spec => []TypeOK
<1>1. Inv => TypeOK
  BY DEF Inv
<1> QED BY <1>1, Invariant, PTL

\* Between two reconciles, whatever failed, was edited or was created only half: an object that is cleaned up by its
\* condition has that condition in the stored status, unless a status was dropped, the operator crashed, or a failing
\* delete was passed over (NothingIsForgotten; dynakube_status.go:109, oneagent_reconciler.go:157).
THEOREM EveryObjectIsRemembered == Spec => []NothingIsForgotten
<1>1. Inv => NothingIsForgotten
  BY DEF Inv
<1> QED BY <1>1, Invariant, PTL
=============================================================================
