---------------------------- MODULE Webhook_proofs ----------------------------
(***************************************************************************)
(* Proofs about the webhook: three specifications that share nothing.      *)
(* First the admission of DynaKubes, for any names, clients, nodes and     *)
(* modules, whatever the clients write that meets the schema, and however  *)
(* their requests overlap.  Then the pods, for any containers, pods and    *)
(* DynaKubes, and any number of changes between the two calls.  Last the   *)
(* certificates, for every number of roots and of processes that renew     *)
(* them, every admitted set of durations, any time and any number of       *)
(* troubles.                                                               *)
(***************************************************************************)
EXTENDS DynaKubeAdmission, WebhookCertificates, PodMutation, FiniteSetTheorems, TLAPS

-----------------------------------------------------------------------------
(***************************************************************************)
(* The conversions of one object.                                          *)
(***************************************************************************)

\* at most one mode is the same as no conflict, and the conversions keep it
LEMMA OneMode ==
    ASSUME NEW kube, kube.modes \in SUBSET Mode, ~conflictingOneAgentConfiguration(kube)
    PROVE  kube.modes = {} \/ \E m \in Mode : kube.modes = {m}
<1>1. IsFiniteSet(Mode)
  <2>1. Mode = {"host"} \cup {"cloud"} \cup {"classic"} \cup {"app"}
    BY DEF Mode
  <2> QED
    BY <2>1, FS_Singleton, FS_Union
<1>2. IsFiniteSet(kube.modes)
  BY <1>1, FS_Subset
<1>3. Cardinality(kube.modes) \in Nat /\ ~(Cardinality(kube.modes) > 1)
  BY <1>2, FS_CardinalityType DEF conflictingOneAgentConfiguration
<1>4. CASE Cardinality(kube.modes) = 0
  BY <1>2, <1>4, FS_EmptySet
<1>5. CASE Cardinality(kube.modes) = 1
  BY <1>2, <1>5, FS_Singleton
<1> QED
  BY <1>3, <1>4, <1>5

LEMMA OneModeIsFirst ==
    ASSUME NEW modes, modes = {} \/ \E m \in Mode : modes = {m}
    PROVE  FirstMode(modes) = modes
<1>1. CASE modes = {}
  BY <1>1 DEF FirstMode
<1>2. ASSUME NEW m \in Mode, modes = {m} PROVE FirstMode(modes) = modes
  BY <1>2 DEF FirstMode, Mode
<1> QED
  BY <1>1, <1>2

\* a v1beta5 DynaKube field by field, with other values in two of them
FieldsOf(old, uncopied, collector) ==
    [tenant |-> old.tenant, modes |-> old.modes, nodes |-> old.nodes, autoUpdate |-> old.autoUpdate,
     namespaces |-> old.namespaces, log |-> old.log, logNodes |-> old.logNodes, ingest |-> old.ingest,
     extensions |-> old.extensions, collector |-> collector, images |-> old.images, gate |-> old.gate,
     replicas |-> old.replicas, kspm |-> old.kspm, registry |-> old.registry, nodeImagePull |-> old.nodeImagePull,
     uncopied |-> uncopied, flaws |-> old.flaws]

LEMMA ExceptTwo ==
    ASSUME NEW old \in OldDynaKube, NEW collector \in STRING \cup {None}
    PROVE  FieldsOf(old, {}, collector) = [old EXCEPT !.uncopied = {}, !.collector = collector]
<1> DEFINE kept == [old EXCEPT !.uncopied = {}, !.collector = collector]
           record == FieldsOf(old, {}, collector)
<1>1. kept \in OldDynaKube
  BY DEF OldDynaKube
<1>2. /\ kept.tenant = old.tenant /\ kept.modes = old.modes /\ kept.nodes = old.nodes /\ kept.autoUpdate = old.autoUpdate
      /\ kept.namespaces = old.namespaces /\ kept.log = old.log /\ kept.logNodes = old.logNodes /\ kept.ingest = old.ingest
      /\ kept.extensions = old.extensions /\ kept.images = old.images /\ kept.gate = old.gate /\ kept.replicas = old.replicas
      /\ kept.kspm = old.kspm /\ kept.registry = old.registry /\ kept.nodeImagePull = old.nodeImagePull /\ kept.flaws = old.flaws
      /\ kept.uncopied = {} /\ kept.collector = collector
  BY DEF OldDynaKube
<1> HIDE DEF kept
<1>3. kept = record
  BY <1>1, <1>2 DEF OldDynaKube, FieldsOf
<1> QED
  BY <1>3 DEF kept

(***************************************************************************)
(* What a v1beta5 client wrote comes back, field by field, but for what    *)
(* the conversions do not keep: the collector's default is taken away,     *)
(* autoUpdate is kept in its annotation.                                   *)
(***************************************************************************)
LEMMA RoundTrip ==
    ASSUME NEW old, MeetsOldSchema(old), ~conflictingOneAgentConfiguration(old)
    PROVE  ConvertFrom(ConvertTo(old)) = ReadBack(old)
<1> DEFINE new == ConvertTo(old)
           back == ConvertFrom(new)
<1>0. old \in OldDynaKube /\ old.autoUpdate \in BOOLEAN /\ old.extensions \in BOOLEAN
  BY DEF MeetsOldSchema, OldDynaKube
<1>1. FirstMode(old.modes) = old.modes
  BY <1>0, OneMode, OneModeIsFirst DEF OldDynaKube
<1>2. new.modes = old.modes /\ back.modes = old.modes
  BY <1>1 DEF ConvertTo, ConvertFrom, OneAgentSpec
<1>3. old.autoUpdate => old.modes # {} /\ old.modes # {"app"}
  BY DEF MeetsOldSchema
<1>4. new.autoUpdate = old.autoUpdate /\ back.autoUpdate = old.autoUpdate
  BY <1>0, <1>1, <1>3 DEF ConvertTo, ConvertFrom, OneAgentSpec
<1>5. back.collector = IF ToCollector(old).isDefault THEN None ELSE old.collector
  BY DEF ConvertTo, ConvertFrom, ToCollector, FromCollector
<1>6. back.images = old.images /\ back.flaws = old.flaws
  BY <1>0 DEF ConvertTo, ConvertFrom, OldDynaKube
<1>7. back.extensions = old.extensions /\ back.uncopied = {}
  BY <1>0 DEF ConvertTo, ConvertFrom
<1>8. back = [old EXCEPT !.uncopied = {}, !.collector = back.collector]
  <2>1. back.collector \in STRING \cup {None}
    BY <1>0, <1>5 DEF OldDynaKube
  <2>2. /\ new.tenant = old.tenant /\ new.nodes = old.nodes /\ new.namespaces = old.namespaces /\ new.log = old.log
        /\ new.logNodes = old.logNodes /\ new.ingest = old.ingest /\ new.gate = old.gate /\ new.replicas = old.replicas
        /\ new.kspm = old.kspm /\ new.registry = old.registry /\ new.nodeImagePull = old.nodeImagePull
    BY DEF ConvertTo
  <2> HIDE DEF new
  <2>4. /\ back.collector = FromCollector(new).collector /\ back.modes = OneAgentSpec(new).modes
        /\ back.autoUpdate = OneAgentSpec(new).autoUpdate /\ back.images = new.images \ {"executor"}
        /\ back.flaws = new.flaws \ LaterFlaws /\ back.extensions = ("spec" \in new.extensions)
    BY DEF ConvertFrom
  <2>5. /\ OneAgentSpec(new).modes = old.modes /\ OneAgentSpec(new).autoUpdate = old.autoUpdate
        /\ new.images \ {"executor"} = old.images /\ new.flaws \ LaterFlaws = old.flaws
        /\ ("spec" \in new.extensions) = old.extensions
    BY <1>2, <1>4, <1>6, <1>7, <2>4
  <2>6. ConvertFrom(new) = FieldsOf(old, {}, FromCollector(new).collector)
    BY <2>2, <2>5 DEF ConvertFrom, FieldsOf
  <2>3. back = FieldsOf(old, {}, back.collector)
    BY <2>4, <2>6
  <2> HIDE DEF back
  <2> QED
    BY <1>0, <2>1, <2>3, ExceptTwo
<1> QED
  BY <1>5, <1>8 DEF ReadBack

(***************************************************************************)
(* What a v1beta5 client reads of a DynaKube without errors, and writes    *)
(* back, has no errors either, validator by validator.                     *)
(***************************************************************************)
LEMMA WriteBack ==
    ASSUME NEW kube, MeetsSchema(kube), ~HasErrors(kube), kube.kspm => MonitorsKubernetes(kube), kube.extensions # {"spec"}
    PROVE  ~HasErrors(ConvertTo(ConvertFrom(kube)))
<1> DEFINE old == ConvertFrom(kube)
           new == ConvertTo(old)
<1>0. kube \in DynaKube /\ kube.extensions \subseteq {"spec", "prometheus", "databases"}
  BY DEF MeetsSchema, DynaKube
<1>1. ~conflictingOneAgentConfiguration(kube) /\ FirstMode(kube.modes) = kube.modes
  BY <1>0, OneMode, OneModeIsFirst DEF HasErrors, DynaKube
<1>2. new.modes = kube.modes
  BY <1>1 DEF ConvertTo, ConvertFrom, OneAgentSpec
<1>3. /\ new.log = kube.log /\ new.kspm = kube.kspm /\ new.registry = kube.registry
      /\ new.nodeImagePull = kube.nodeImagePull /\ new.gate = kube.gate /\ new.replicas = kube.replicas
      /\ new.ingest = kube.ingest /\ new.otlp = {} /\ new.kubemon = FALSE /\ new.override = FALSE
  BY DEF ConvertTo, ConvertFrom
<1>18. ("spec" \in kube.extensions <=> IsAnyEnabled(kube))
  BY <1>0 DEF MeetsSchema, IsAnyEnabled
<1>4. new.extensions = (IF "spec" \in kube.extensions THEN {"spec", "prometheus"} ELSE {}) /\ new.uncopied = {}
  BY DEF ConvertTo, ConvertFrom
<1>19. IsAnyEnabled(new) = IsAnyEnabled(kube)
  BY <1>4, <1>18 DEF IsAnyEnabled
<1>5. \A image : image # "executor" => (image \in new.images <=> image \in kube.images)
  BY DEF ConvertTo, ConvertFrom
<1>6. new.flaws \subseteq kube.flaws \ LaterFlaws
  BY DEF ConvertTo, ConvertFrom
<1>7. CollectorNeeded(new.ingest, "prometheus" \in new.extensions) => HasImage(new.collector)
  <2>1. HasImage("default")
    BY NoneAssumption DEF HasImage
  <2>2. old.extensions = ("spec" \in kube.extensions) /\ old.ingest = kube.ingest
    BY DEF ConvertFrom
  <2>3. CollectorNeeded(new.ingest, "prometheus" \in new.extensions) => CollectorNeeded(old.ingest, old.extensions)
    BY <1>3, <1>4, <2>2 DEF CollectorNeeded
  <2>4. new.collector = ToCollector(old).collector
    BY DEF ConvertTo
  <2> HIDE DEF new, old
  <2> QED
    BY <2>1, <2>3, <2>4 DEF ToCollector
<1> HIDE DEF new, old
<1>8. /\ IsDaemonsetRequired(new) = IsDaemonsetRequired(kube)
      /\ IsAppInjectionNeeded(new) = IsAppInjectionNeeded(kube)
      /\ IsStandalone(new) = IsStandalone(kube)
      /\ IsActiveGateEnabled(new) = IsActiveGateEnabled(kube)
      /\ MonitorsKubernetes(new) = MonitorsKubernetes(kube)
  BY <1>2, <1>3, <1>19 DEF IsDaemonsetRequired, IsAppInjectionNeeded, IsStandalone, IsActiveGateEnabled,
     MonitorsKubernetes
<1>9. ModuleErrors(new) = {}
  <2>1. ModuleErrors(new) \subseteq ModuleErrors(kube)
    BY <1>3, <1>8, <1>19 DEF ModuleErrors
  <2> QED
    BY <2>1 DEF HasErrors
<1>10. ~conflictingOneAgentConfiguration(new)
  BY <1>1, <1>2 DEF conflictingOneAgentConfiguration
<1>11. ~missingCodeModulesImage(new) /\ ~missingLogMonitoringImage(new) /\ ~extensionControllerImage(new)
  BY <1>3, <1>5, <1>8, <1>19
  DEF HasErrors, missingCodeModulesImage, missingLogMonitoringImage, extensionControllerImage
<1>12. ~missingDatabaseExecutorImage(new) /\ ~missingOTelCollectorImage(new)
  BY <1>4, <1>7 DEF missingDatabaseExecutorImage, missingOTelCollectorImage
<1>13. ~KSPMErrors(new)
  BY <1>3, <1>5, <1>6, <1>8 DEF HasErrors, KSPMErrors, RegistersKubernetes
<1>14. ~PublicRegistryErrors(new)
  BY <1>2, <1>3, <1>5 DEF HasErrors, PublicRegistryErrors
<1>15. ~NameErrors(new)
  BY <1>3, <1>6, <1>19 DEF HasErrors, NameErrors
<1>16. /\ OneAgentFlaws(new) = OneAgentFlaws(kube) /\ ExtensionFlaws(new) = ExtensionFlaws(kube)
       /\ IngestFlaws(new) = IngestFlaws(kube) /\ DatabaseFlaws(new) = {}
       /\ ActiveGateFlaws(new) \subseteq ActiveGateFlaws(kube)
  BY <1>2, <1>3, <1>4, <1>8, <1>19 DEF OneAgentFlaws, ExtensionFlaws, IngestFlaws, DatabaseFlaws, ActiveGateFlaws
<1> DEFINE rules(d) == OneAgentFlaws(d) \cup ActiveGateFlaws(d) \cup URLFlaws \cup SelectorFlaws \cup AttributeFlaws
                         \cup ProxyFlaws \cup DatabaseFlaws(d) \cup ExtensionFlaws(d) \cup IngestFlaws(d)
<1>17. new.flaws \cap rules(new) = {}
  <2>1. kube.flaws \cap rules(kube) = {}
    BY DEF HasErrors
  <2>2. rules(new) \subseteq rules(kube)
    BY <1>16
  <2> QED
    BY <1>6, <2>1, <2>2
<1> QED
  BY <1>9, <1>10, <1>11, <1>12, <1>13, <1>14, <1>15, <1>17 DEF HasErrors, new, old

-----------------------------------------------------------------------------
(***************************************************************************)
(* What the comparisons find.                                              *)
(***************************************************************************)
Clash(a, b) == hasLogMonitoringSelectorConflict(a, b) \/ hasOneAgentSelectorConflict(a, b)

DifferentService(a, b) == a.ingest # None => a.ingest # b.ingest

LEMMA ClashIsSymmetric == ASSUME NEW a, NEW b PROVE Clash(a, b) <=> Clash(b, a)
BY DEF Clash, hasLogMonitoringSelectorConflict, hasOneAgentSelectorConflict, IsStandalone,
       hasConflictingMatchLabels

\* the comparison with the selector of the wrong DynaKube lets no conflict pass
LEMMA ClashIsFound ==
    ASSUME NEW kube, NEW others, NEW other \in others, Clash(kube, other)
    PROVE  conflictingOneAgentNodeSelector(kube, others) /\ (IsDaemonsetRequired(kube) \/ IsStandalone(kube))
<1>1. IsDaemonsetRequired(kube) \/ IsStandalone(kube)
  BY DEF Clash, hasLogMonitoringSelectorConflict, hasOneAgentSelectorConflict
<1>2. hasConflictingMatchLabels(AgentNodes(kube), AgentNodes(other))
  BY DEF Clash, hasLogMonitoringSelectorConflict, hasOneAgentSelectorConflict
<1>3. hasConflictingMatchLabels(AgentNodes(kube), NodeSelector(other, LogSelector(kube)))
  <2>1. CASE IsDaemonsetRequired(other)
    BY <1>2, <2>1 DEF AgentNodes, NodeSelector
  <2>2. CASE ~IsDaemonsetRequired(other)
    BY <1>1, <2>2 DEF AgentNodes, NodeSelector, LogSelector, IsStandalone, hasConflictingMatchLabels
  <2> QED
    BY <2>1, <2>2
<1> QED
  BY <1>1, <1>3 DEF Clash, conflictingOneAgentNodeSelector

\* two agents that exclude each other meet only on a node that the comparison sees
LEMMA SharedNodeIsClash ==
    ASSUME NEW a \in DynaKube, NEW b \in DynaKube, NEW labels \in NodeLabels,
           RunsOn(a, labels), RunsOn(b, labels), Exclude(a, b)
    PROVE  Clash(a, b)
<1>1. AgentNodes(a) \in Selector \cup {None} /\ AgentNodes(b) \in Selector \cup {None}
  BY DEF AgentNodes, NodeSelector, LogSelector, DynaKube
<1>2. hasConflictingMatchLabels(AgentNodes(a), AgentNodes(b))
  BY <1>1, SelectorAssumption DEF RunsOn, hasConflictingMatchLabels
<1> QED
  BY <1>2
  DEF RunsOn, Exclude, Clash, hasLogMonitoringSelectorConflict, hasOneAgentSelectorConflict, IsStandalone

-----------------------------------------------------------------------------
(***************************************************************************)
(* The inductive invariant.  A request that is still valid carries an      *)
(* object without errors, and the object is apart, in what was compared so *)
(* far, from every stored one that it does not count as missed.            *)
(***************************************************************************)
Steps == {"nodes", "namespaces", "services", "answer"}

Request ==
    [step : Steps, name : Name, base : DynaKube \cup {None}, new : DynaKube,
     old : OldDynaKube \cup {None}, missed : SUBSET Name, valid : BOOLEAN]

Types ==
    /\ stored \in [Name -> DynaKube \cup {None}]
    /\ written \in [Name -> OldDynaKube \cup {None}]
    /\ request \in [Client -> Request \cup {Idle}]

\* what r is known to have apart from another DynaKube
Compared(r, other) ==
    /\ r.step # "nodes" => ~Clash(r.new, other)
    /\ r.step \in {"services", "answer"} => Injects(r.new) \cap Injects(other) = {}
    /\ r.step = "answer" => DifferentService(r.new, other)

Requested(r) ==
    /\ MeetsSchema(r.new) /\ (r.valid => ~HasErrors(r.new))
    /\ r.old # None => MeetsOldSchema(r.old) /\ r.new = ConvertTo(r.old)
    /\ r.valid => \A m \in Name \ ({r.name} \cup r.missed) : stored[m] # None => Compared(r, stored[m])

RequestInv == \A c \in Client : request[c] # Idle => Requested(request[c])

StoredInv ==
    /\ \A n \in Name : stored[n] # None => MeetsSchema(stored[n]) /\ ~HasErrors(stored[n])
    /\ \A n \in Name :
          written[n] # None => MeetsOldSchema(written[n]) /\ stored[n] = ConvertTo(written[n])

Apart(a, b) == ~Clash(a, b) /\ Injects(a) \cap Injects(b) = {} /\ DifferentService(a, b)

ApartInv ==
    \A a, b \in Name :
        a # b /\ stored[a] # None /\ stored[b] # None /\ {a, b} \notin unseen => Apart(stored[a], stored[b])

Inv == Types /\ RequestInv /\ StoredInv /\ ApartInv

LEMMA StepOfRequest ==
    ASSUME Types, NEW c \in Client
    PROVE  request[c].step # "none" <=> request[c] # Idle
BY DEF Types, Request, Steps, Idle

LEMMA InvInit == Init => Inv
BY DEF Init, Inv, Types, RequestInv, StoredInv, ApartInv

LEMMA AskInv ==
    ASSUME Inv, NEW c \in Client, NEW n \in Name, NEW new, NEW old, Ask(c, n, new, old),
           old # None => new = ConvertTo(old)
    PROVE  Inv'
<1> DEFINE r == [step |-> "nodes", name |-> n, base |-> stored[n], new |-> new,
                 old |-> old, missed |-> {},
                 valid |-> /\ ~HasErrors(new)
                           /\ stored[n] # None => ~IsMutatedAPIURL(stored[n], new)]
<1>1. request' = [request EXCEPT ![c] = r] /\ UNCHANGED <<stored, written, unseen>>
  BY DEF Ask
<1>2. new \in DynaKube /\ MeetsSchema(new) /\ (old = None \/ MeetsOldSchema(old))
  BY DEF Ask, MeetsSchema
<1>3. r \in Request
  <2>1. r.valid \in BOOLEAN
    OBVIOUS
  <2>2. stored[n] \in DynaKube \cup {None} /\ old \in OldDynaKube \cup {None}
    BY <1>2 DEF Inv, Types, MeetsOldSchema
  <2> QED
    BY <1>2, <2>1, <2>2 DEF Request, Steps
<1>4. Types'
  BY <1>1, <1>3 DEF Inv, Types
<1>5. Requested(r)'
  BY <1>1, <1>2 DEF Requested, Compared
<1>6. RequestInv'
  <2> SUFFICES ASSUME NEW d \in Client, request'[d] # Idle PROVE Requested(request[d])'
    BY DEF RequestInv
  <2>1. CASE d = c
    BY <1>1, <1>5, <2>1 DEF Inv, Types
  <2>2. CASE d # c
    BY <1>1, <2>2 DEF Inv, Types, RequestInv, Requested
  <2> QED
    BY <2>1, <2>2
<1> QED
  BY <1>1, <1>4, <1>6 DEF Inv, StoredInv, ApartInv

\* a comparison changes the step of one request, its verdict and what it missed
LEMMA CompareStep ==
    ASSUME Types, NEW c \in Client, NEW step \in Steps, NEW next \in Steps, NEW needed \in BOOLEAN,
           NEW conflicts \in BOOLEAN, Compare(c, step, next, needed, conflicts)
    PROVE  /\ request[c] \in Request /\ request[c].step = step
           /\ Types'
           /\ request'[c].step = next
           /\ request'[c].name = request[c].name /\ request'[c].new = request[c].new
           /\ request'[c].old = request[c].old
           /\ \A d \in Client : d # c => request'[d] = request[d]
           /\ \/ /\ request'[c].missed = request[c].missed
                 /\ request'[c].valid => request[c].valid /\ ~(needed /\ conflicts)
              \/ /\ request'[c].missed = Name \ {request[c].name}
                 /\ request'[c].valid => request[c].valid
           /\ UNCHANGED <<stored, written, unseen>>
<1>1. request[c] \in Request /\ request[c].step = step
  BY StepOfRequest DEF Compare, Types, Steps, Idle
<1>2. UNCHANGED <<stored, written, unseen>>
  BY DEF Compare
<1> DEFINE r == request[c]
           checked == [r EXCEPT !.step = next, !.valid = @ /\ ~(needed /\ conflicts)]
           unchecked == [r EXCEPT !.step = next, !.missed = Name \ {r.name}]
<1>3. PICK new \in {checked, unchecked} : request' = [request EXCEPT ![c] = new]
  BY Zenon DEF Compare, Types
<1>4. r.valid \in BOOLEAN /\ r.missed \in SUBSET Name
  BY <1>1 DEF Request
<1>5. /\ new \in Request /\ new.step = next /\ new.name = r.name /\ new.new = r.new /\ new.old = r.old
      /\ \/ new.missed = r.missed /\ (new.valid => r.valid /\ ~(needed /\ conflicts))
         \/ new.missed = Name \ {r.name} /\ (new.valid => r.valid)
  <2>1. CASE new = checked
    BY <1>1, <1>4, <2>1 DEF Request
  <2>2. CASE new = unchecked
    BY <1>1, <1>4, <2>2 DEF Request
  <2> QED
    BY <2>1, <2>2
<1> HIDE DEF checked, unchecked
<1>6. request'[c] = new /\ \A d \in Client : d # c => request'[d] = request[d]
  BY <1>3 DEF Types
<1>7. Types'
  BY <1>2, <1>3, <1>5 DEF Types
<1> QED
  BY <1>1, <1>2, <1>5, <1>6, <1>7

\* so it keeps the invariant, when what it finds is what the next step counts on
LEMMA CompareInv ==
    ASSUME Inv, NEW c \in Client, NEW step \in Steps, NEW next \in Steps, NEW needed \in BOOLEAN,
           NEW conflicts \in BOOLEAN, Compare(c, step, next, needed, conflicts),
           \A m \in Name \ {request[c].name} :
             /\ stored[m] # None /\ ~(needed /\ conflicts) /\ Compared(request[c], stored[m])
             /\ request'[c].step = next /\ request'[c].new = request[c].new
             => Compared(request'[c], stored[m])
    PROVE  Inv'
<1>1. /\ request[c] \in Request /\ request[c].step = step
      /\ Types'
      /\ request'[c].step = next
      /\ request'[c].name = request[c].name /\ request'[c].new = request[c].new
      /\ request'[c].old = request[c].old
      /\ \A d \in Client : d # c => request'[d] = request[d]
      /\ \/ /\ request'[c].missed = request[c].missed
            /\ request'[c].valid => request[c].valid /\ ~(needed /\ conflicts)
         \/ /\ request'[c].missed = Name \ {request[c].name}
            /\ request'[c].valid => request[c].valid
      /\ UNCHANGED <<stored, written, unseen>>
  BY CompareStep DEF Inv
<1>2. Requested(request[c])
  BY <1>1, StepOfRequest DEF Inv, RequestInv, Steps
<1>3. Requested(request[c])'
  <2>1. ASSUME request'[c].valid, NEW m \in Name \ ({request[c].name} \cup request'[c].missed), stored[m] # None
        PROVE  Compared(request'[c], stored[m])
    BY <1>1, <1>2, <2>1 DEF Requested
  <2> QED
    BY <1>1, <1>2, <2>1 DEF Requested, Compared
<1>4. RequestInv'
  BY <1>1, <1>3 DEF Inv, RequestInv, Requested, Compared
<1> QED
  BY <1>1, <1>4 DEF Inv, StoredInv, ApartInv

LEMMA ComparisonsInv ==
    ASSUME Inv, NEW c \in Client, CompareNodes(c) \/ CompareNamespaces(c) \/ CompareServices(c)
    PROVE  Inv'
<1> DEFINE kube == request[c].new
           others == Others(request[c].name)
<1>1. \A m \in Name \ {request[c].name} : stored[m] # None => stored[m] \in others
  BY DEF Others
<1> HIDE DEF others
<1>2. CASE CompareNodes(c)
  <2> DEFINE needed == IsDaemonsetRequired(kube) \/ IsStandalone(kube)
             conflicts == conflictingOneAgentNodeSelector(kube, others)
  <2>1. Compare(c, "nodes", "namespaces", needed, conflicts) /\ request[c].step = "nodes"
    BY <1>2 DEF CompareNodes, others
  <2>2. \A m \in Name \ {request[c].name} :
          stored[m] # None /\ ~(needed /\ conflicts) => ~Clash(kube, stored[m])
    BY <1>1, ClashIsFound
  <2>3. needed \in BOOLEAN /\ conflicts \in BOOLEAN
    BY DEF IsStandalone, IsDaemonsetRequired, conflictingOneAgentNodeSelector
  <2> HIDE DEF needed, conflicts
  <2> QED
    BY <2>1, <2>2, <2>3, CompareInv DEF Compared, Steps
<1>3. CASE CompareNamespaces(c)
  <2> DEFINE needed == Injects(kube) # {}
             conflicts == conflictingNamespaceSelector(kube, others)
  <2>1. Compare(c, "namespaces", "services", needed, conflicts) /\ request[c].step = "namespaces"
    BY <1>3 DEF CompareNamespaces, others
  <2>2. \A m \in Name \ {request[c].name} :
          stored[m] # None /\ ~(needed /\ conflicts) => Injects(kube) \cap Injects(stored[m]) = {}
    BY <1>1 DEF conflictingNamespaceSelector
  <2>3. needed \in BOOLEAN /\ conflicts \in BOOLEAN
    BY DEF conflictingNamespaceSelector
  <2> HIDE DEF needed, conflicts
  <2> QED
    BY <2>1, <2>2, <2>3, CompareInv DEF Compared, Steps
<1>4. CASE CompareServices(c)
  <2> DEFINE needed == kube.ingest # None
             conflicts == conflictingTelemetryIngestServiceNames(kube, others)
  <2>1. Compare(c, "services", "answer", needed, conflicts) /\ request[c].step = "services"
    BY <1>4 DEF CompareServices, others
  <2>2. \A m \in Name \ {request[c].name} :
          stored[m] # None /\ ~(needed /\ conflicts) => DifferentService(kube, stored[m])
    BY <1>1 DEF conflictingTelemetryIngestServiceNames, DifferentService
  <2>3. needed \in BOOLEAN /\ conflicts \in BOOLEAN
    BY DEF conflictingTelemetryIngestServiceNames
  <2> HIDE DEF needed, conflicts
  <2> QED
    BY <2>1, <2>2, <2>3, CompareInv DEF Compared, Steps
<1> QED
  BY <1>2, <1>3, <1>4

LEMMA RefuseInv == ASSUME Inv, NEW c \in Client, Refuse(c) PROVE Inv'
<1>1. request' = [request EXCEPT ![c] = Idle] /\ UNCHANGED <<stored, written, unseen>>
  BY DEF Refuse
<1>2. Types'
  BY <1>1 DEF Inv, Types
<1>3. RequestInv'
  BY <1>1 DEF Inv, Types, RequestInv, Requested, Compared
<1> QED
  BY <1>1, <1>2, <1>3 DEF Inv, StoredInv, ApartInv

LEMMA DeleteInv == ASSUME Inv, NEW n \in Name, Delete(n) PROVE Inv'
<1>1. /\ stored' = [stored EXCEPT ![n] = None] /\ written' = [written EXCEPT ![n] = None]
      /\ unseen' = {p \in unseen : n \notin p} /\ request' = request
  BY DEF Delete
<1>2. /\ stored'[n] = None /\ written'[n] = None
      /\ \A m \in Name : m # n => stored'[m] = stored[m] /\ written'[m] = written[m]
  BY <1>1 DEF Inv, Types
<1>3. Types'
  BY <1>1 DEF Inv, Types
<1>4. RequestInv'
  <2> SUFFICES ASSUME NEW c \in Client, request[c] # Idle PROVE Requested(request[c])'
    BY <1>1 DEF RequestInv
  <2>1. Requested(request[c]) /\ request'[c] = request[c]
    BY <1>1 DEF Inv, RequestInv
  <2>2. \A m \in Name : stored'[m] # None => stored'[m] = stored[m] /\ stored[m] # None
    BY <1>2
  <2> QED
    BY <2>1, <2>2 DEF Requested, Compared
<1>5. StoredInv'
  BY <1>2 DEF Inv, StoredInv
<1>6. ApartInv'
  <2> SUFFICES ASSUME NEW a \in Name, NEW b \in Name, a # b, stored'[a] # None, stored'[b] # None,
                      {a, b} \notin unseen'
               PROVE  Apart(stored'[a], stored'[b])
    BY DEF ApartInv, Apart, Clash, DifferentService
  <2>1. a # n /\ b # n
    BY <1>2
  <2>2. {a, b} \notin unseen
    BY <1>1, <2>1
  <2> QED
    BY <1>2, <2>1, <2>2 DEF Inv, ApartInv
<1> QED
  BY <1>3, <1>4, <1>5, <1>6 DEF Inv

(***************************************************************************)
(* A stored object is apart from every other whose name its request did    *)
(* not miss; requests under way for other names miss it from now on.       *)
(***************************************************************************)
LEMMA StoreInv == ASSUME Inv, NEW c \in Client, Store(c) PROVE Inv'
<1> DEFINE r == request[c]
           n == r.name
<1>1. r \in Request /\ r.step = "answer" /\ r.valid /\ Requested(r)
  BY StepOfRequest DEF Inv, Types, RequestInv, Store
<1>2. /\ stored' = [stored EXCEPT ![n] = r.new]
      /\ written' = [written EXCEPT ![n] = r.old]
      /\ unseen' = {p \in unseen : n \notin p} \cup {{n, m} : m \in r.missed}
  BY DEF Store
<1>3. n \in Name /\ r.new \in DynaKube /\ r.old \in OldDynaKube \cup {None}
  BY <1>1 DEF Request
<1>4. \A d \in Client :
        request'[d] = IF d = c THEN Idle
                      ELSE IF request[d] = Idle \/ n = request[d].name THEN request[d]
                      ELSE [request[d] EXCEPT !.missed = @ \cup {n}]
  BY DEF Store
<1>5. /\ stored'[n] = r.new /\ written'[n] = r.old
      /\ \A m \in Name : m # n => stored'[m] = stored[m] /\ written'[m] = written[m]
  BY <1>2, <1>3 DEF Inv, Types
<1> HIDE DEF n
<1>6. ASSUME NEW d \in Client, request'[d] # Idle
      PROVE  /\ request[d] \in Request /\ request'[d] \in Request /\ request[d] # Idle
             /\ request'[d].step = request[d].step /\ request'[d].name = request[d].name
             /\ request'[d].new = request[d].new /\ request'[d].old = request[d].old
             /\ request'[d].valid = request[d].valid
             /\ request[d].missed \subseteq request'[d].missed
             /\ n \in {request'[d].name} \cup request'[d].missed
  <2>1. request[d] # Idle /\ request[d] \in Request
    BY <1>4, <1>6 DEF Inv, Types
  <2>2. CASE n = request[d].name
    BY <1>4, <1>6, <2>1, <2>2
  <2>3. CASE n # request[d].name
    <3>1. request'[d] = [request[d] EXCEPT !.missed = @ \cup {n}]
      BY <1>4, <1>6, <2>1, <2>3
    <3> QED
      BY <1>3, <2>1, <3>1 DEF Request
  <2> QED
    BY <2>2, <2>3
<1>7. Types'
  <2>1. request' = [d \in Client |-> request'[d]]
    BY DEF Store
  <2>2. \A d \in Client : request'[d] \in Request \cup {Idle}
    BY <1>6
  <2>3. request' \in [Client -> Request \cup {Idle}]
    BY <2>1, <2>2
  <2> QED
    BY <1>2, <1>3, <2>3 DEF Inv, Types
<1>8. RequestInv'
  <2> SUFFICES ASSUME NEW d \in Client, request'[d] # Idle PROVE Requested(request[d])'
    BY DEF RequestInv
  <2>1. Requested(request[d])
    BY <1>6 DEF Inv, RequestInv
  <2>2. \A m \in Name \ ({request'[d].name} \cup request'[d].missed) :
          /\ m \in Name \ ({request[d].name} \cup request[d].missed)
          /\ stored'[m] = stored[m]
    BY <1>5, <1>6
  <2> QED
    BY <1>6, <2>1, <2>2 DEF Requested, Compared
<1>9. StoredInv'
  BY <1>1, <1>3, <1>5 DEF Inv, StoredInv, Requested
<1>10. ApartInv'
  <2>1. ASSUME NEW m \in Name, m # n, stored[m] # None, {n, m} \notin unseen'
        PROVE  Apart(r.new, stored[m]) /\ Apart(stored[m], r.new)
    <3>1. m \notin r.missed
      BY <1>2, <2>1
    <3>2. Compared(r, stored[m])
      BY <1>1, <2>1, <3>1 DEF Requested, n
    <3> QED
      BY <1>1, <3>2, ClashIsSymmetric DEF Compared, Apart, DifferentService
  <2> SUFFICES ASSUME NEW a \in Name, NEW b \in Name, a # b, stored'[a] # None, stored'[b] # None,
                      {a, b} \notin unseen'
               PROVE  Apart(stored'[a], stored'[b])
    BY DEF ApartInv, Apart, Clash, DifferentService
  <2>2. CASE a = n
    BY <1>5, <2>1, <2>2
  <2>3. CASE b = n
    <3>1. {a, b} = {b, a}
      OBVIOUS
    <3> QED
      BY <1>5, <2>1, <2>3, <3>1
  <2>4. CASE a # n /\ b # n
    BY <1>2, <1>5, <2>4 DEF Inv, ApartInv
  <2> QED
    BY <2>2, <2>3, <2>4
<1> QED
  BY <1>7, <1>8, <1>9, <1>10 DEF Inv

LEMMA InvStep == Inv /\ [Next]_vars => Inv'
<1> SUFFICES ASSUME Inv, [Next]_vars PROVE Inv'
  OBVIOUS
<1>1. ASSUME NEW c \in Client, NEW n \in Name, Create(c, n) \/ Update(c, n) PROVE Inv'
  BY <1>1, AskInv DEF Create, Update
<1>2. CASE UNCHANGED vars
  BY <1>2 DEF vars, Inv, Types, RequestInv, StoredInv, ApartInv, Requested, Compared
<1> QED
  BY <1>1, <1>2, ComparisonsInv, RefuseInv, StoreInv, DeleteInv DEF Next

THEOREM Invariant == Spec => []Inv
BY InvInit, InvStep, PTL DEF Spec

(***************************************************************************)
(* However requests overlap, in whichever version they come and whichever  *)
(* lists fail: two DynaKubes one of which was admitted knowing the other   *)
(* share neither a namespace nor a service name, nor a node for agents     *)
(* that exclude each other (runValidators and its comparisons).            *)
(***************************************************************************)
THEOREM AdmittedSharesNothing == Spec => []NothingIsShared
<1>1. Inv => NothingIsShared
  <2> SUFFICES ASSUME Inv, NEW a \in Name, NEW b \in Name, a # b, stored[a] # None, stored[b] # None,
                      {a, b} \notin unseen
               PROVE  /\ Injects(stored[a]) \cap Injects(stored[b]) = {}
                      /\ stored[a].ingest # None => stored[a].ingest # stored[b].ingest
                      /\ \A labels \in NodeLabels :
                           ~(RunsOn(stored[a], labels) /\ RunsOn(stored[b], labels) /\ Exclude(stored[a], stored[b]))
    BY DEF NothingIsShared
  <2>1. Apart(stored[a], stored[b])
    BY DEF Inv, ApartInv
  <2>2. stored[a] \in DynaKube /\ stored[b] \in DynaKube
    BY DEF Inv, Types
  <2> QED
    BY <2>1, <2>2, SharedNodeIsClash DEF Apart, DifferentService
<1> QED
  BY <1>1, Invariant, PTL

(***************************************************************************)
(* A v1beta5 client reads back every field it wrote (ConvertTo, then       *)
(* ConvertFrom), as long as the object holds what it stored, but for the   *)
(* three fields and the half image that the conversions do not keep.       *)
(***************************************************************************)
THEOREM OldClientsAreServed == Spec => []OldClientsReadBack
<1>1. Inv => OldClientsReadBack
  BY RoundTrip DEF Inv, StoredInv, OldClientsReadBack
<1> QED
  BY <1>1, Invariant, PTL

(***************************************************************************)
(* What a v1beta5 client reads of an admitted DynaKube, and writes back    *)
(* unchanged, has no error of its own, unless the DynaKube has an empty    *)
(* extensions section or KSPM without the ActiveGate's monitoring.         *)
(***************************************************************************)
THEOREM OldClientsMayWriteBack == Spec => []OldWriteBackIsAccepted
<1>1. Inv => OldWriteBackIsAccepted
  <2> SUFFICES ASSUME Inv, NEW n \in Name, stored[n] # None, stored[n].kspm => MonitorsKubernetes(stored[n]),
                      stored[n].extensions # {"spec"}
               PROVE  ~HasErrors(ConvertTo(ConvertFrom(stored[n])))
    BY DEF OldWriteBackIsAccepted
  <2>1. MeetsSchema(stored[n]) /\ ~HasErrors(stored[n])
    BY DEF Inv, StoredInv
  <2> QED
    BY <2>1, WriteBack
<1> QED
  BY <1>1, Invariant, PTL

-----------------------------------------------------------------------------
(***************************************************************************)
(* The pods (PodMutation).                                                 *)
(***************************************************************************)
ConfigMount == {"config", "splitOneAgent", "splitMetadata"}

-----------------------------------------------------------------------------
(***************************************************************************)
(* The inductive invariant.  The first part is about the pod alone.        *)
(***************************************************************************)

\* a container has what needs the init container only in a pod that has it
NeedsInit(p) ==
    p.init = {} => \A c \in Container : p.mounts[c] \subseteq {"otlpCerts"}

\* an argument of the init container for each configuration that is mounted, and at most one per call
ToldOfMounts(p, n) ==
    \A c \in Container : /\ p.arguments[c] > 0 <=> p.mounts[c] \cap ConfigMount # {}
                         /\ p.arguments[c] <= n

\* the init container comes with the volumes it mounts, and one that the user has is not taken for them
InitHasVolumes(p) ==
    /\ p.init \subseteq {"bin", "input", "config"}
    /\ \A v \in p.init : p.volumes[v] = "ours"
    /\ p.init # {} => p.volumes["input"] = "ours" /\ p.volumes["config"] = "ours"

CertsHaveVolume(p, n) ==
    \A c \in Container : "otlpCerts" \in p.mounts[c] =>
        p.volumes["otlpCerts"] = "ours" \/ (p.volumes["otlpCerts"] = "foreign" /\ n = MaxCalls)

\* what the annotations say of the pod
AnnotationsTell(p) ==
    /\ p.annotation["otlp"] = "unset" => \A c \in Container : p.env[c] \subseteq {"oneagent"}
    /\ p.annotation["volume"] = "false" => Conflicts(p, "input") \/ Conflicts(p, "config")
    /\ p.annotation["dynatrace"] = "true" \/ p.annotation["oneagent"] = "true" => p.init # {}
    /\ p.annotation["oneagent"] = "false" =>
          "bin" \notin p.init /\ \A c \in Container : "bin" \notin p.mounts[c]

\* an annotation that denies the injection of a pod that has the init container
Denies(p) == \E a \in {"dynatrace", "metadata", "volume"} : p.annotation[a] = "false"

Sound(p, n) ==
    NeedsInit(p) /\ ToldOfMounts(p, n) /\ InitHasVolumes(p) /\ CertsHaveVolume(p, n) /\ AnnotationsTell(p)

MutatedInv == Sound(pod, calls)

(***************************************************************************)
(* The second part relates the pod to the calls, the failures and the      *)
(* DynaKube, which is the one of the first call unless it was edited.      *)
(***************************************************************************)

\* what a call relies on, when the DynaKube is the one of the call before
ConfiguredAsNow(p) ==
    \A c \in Container :
        /\ p.arguments[c] > 0 => p.arguments[c] = 1 /\ IsConfigured(p, c)
        /\ "bin" \in p.mounts[c] => p.volumes["bin"] = "ours"

InjectedAsNow(p) ==
    p.init # {} => /\ PreparesInit
                   /\ Enabled("oneagent") => p.volumes["bin"] = "ours"
                   /\ p.annotation["oneagent"] = "true" => Enabled("oneagent")

\* what the containers of a call have after it
AllInjected(p, cs) ==
    \A c \in cs \ user.excluded :
        /\ p.arguments[c] = 1
        /\ p.annotation["oneagent"] = "true" => "bin" \in p.mounts[c]

Untouched(p) ==
    /\ p.init = {}
    /\ \A c \in Container : p.mounts[c] = {} /\ p.env[c] = {}
    /\ \A a \in Annotation : p.annotation[a] = "unset"

CallsInv ==
    /\ calls = 0 => Untouched(pod) /\ ~edited
    /\ calls < MaxCalls => ~lost
    /\ calls = 1 /\ pod.init # {} => ~Denies(pod) /\ pod.annotation["oneagent"] # "false"
    /\ ~lost /\ Denies(pod) => pod.init = {}
    /\ ~edited => ConfiguredAsNow(pod)
    /\ ~edited /\ calls = 1 => InjectedAsNow(pod)
    /\ pod.annotation["dynatrace"] = "true" /\ ~edited /\ ~lost => AllInjected(pod, seen)

MutationInv == MutationTypeOK /\ dk \in DynaKubes /\ MutatedInv /\ CallsInv
-----------------------------------------------------------------------------
(***************************************************************************)
(* What the helpers change.                                                *)
(***************************************************************************)

LEMMA FieldTypes ==
    ASSUME NEW p \in Pod
    PROVE  /\ p.containers \subseteq Container /\ p.init \subseteq Volume
           /\ p.mounts \in [Container -> SUBSET Mount] /\ p.env \in [Container -> SUBSET Env]
           /\ p.arguments \in [Container -> 0..MaxCalls]
           /\ p.volumes \in [Volume -> {"none", "ours", "foreign"}]
           /\ p.annotation \in [Annotation -> {"unset", "true", "false"}]
BY DEF Pod

\* two pods that differ in nothing but the fields that are named
SameBut(p, q, fields) ==
    /\ "containers" \notin fields => q.containers = p.containers
    /\ "mounts" \notin fields => q.mounts = p.mounts
    /\ "env" \notin fields => q.env = p.env
    /\ "init" \notin fields => q.init = p.init
    /\ "arguments" \notin fields => q.arguments = p.arguments
    /\ "volumes" \notin fields => q.volumes = p.volumes
    /\ "annotation" \notin fields => q.annotation = p.annotation

\* some containers gain something, the init container is told of some, some volumes become the operator's
Gains(before, after, cs, added) ==
    \A c \in Container : /\ c \in cs => after[c] = before[c] \cup added
                         /\ c \notin cs => after[c] = before[c]
AreTold(before, after, cs) ==
    \A c \in Container : /\ c \in cs => after[c] = before[c] + 1
                         /\ c \notin cs => after[c] = before[c]
BecomeOurs(before, after, vs) ==
    \A v \in Volume : /\ v \in vs => after[v] = "ours"
                      /\ v \notin vs => after[v] = before[v]

LEMMA SetContainers ==
    ASSUME NEW p \in Pod, NEW cs \in SUBSET Container
    PROVE  LET q == [p EXCEPT !.containers = cs]
           IN  q \in Pod /\ q.containers = cs /\ SameBut(p, q, {"containers"})
BY DEF Pod, SameBut

LEMMA SetMounts ==
    ASSUME NEW p \in Pod, NEW e \in [Container -> SUBSET Mount]
    PROVE  LET q == [p EXCEPT !.mounts = e]
           IN  q \in Pod /\ q.mounts = e /\ SameBut(p, q, {"mounts"})
BY DEF Pod, SameBut

LEMMA SetEnv ==
    ASSUME NEW p \in Pod, NEW e \in [Container -> SUBSET Env]
    PROVE  LET q == [p EXCEPT !.env = e]
           IN  q \in Pod /\ q.env = e /\ SameBut(p, q, {"env"})
BY DEF Pod, SameBut

LEMMA SetInit ==
    ASSUME NEW p \in Pod, NEW e \in SUBSET Volume
    PROVE  LET q == [p EXCEPT !.init = e]
           IN  q \in Pod /\ q.init = e /\ SameBut(p, q, {"init"})
BY DEF Pod, SameBut

LEMMA SetArguments ==
    ASSUME NEW p \in Pod, NEW e \in [Container -> 0..MaxCalls]
    PROVE  LET q == [p EXCEPT !.arguments = e]
           IN  q \in Pod /\ q.arguments = e /\ SameBut(p, q, {"arguments"})
BY DEF Pod, SameBut

LEMMA SetVolumes ==
    ASSUME NEW p \in Pod, NEW e \in [Volume -> {"none", "ours", "foreign"}]
    PROVE  LET q == [p EXCEPT !.volumes = e]
           IN  q \in Pod /\ q.volumes = e /\ SameBut(p, q, {"volumes"})
BY DEF Pod, SameBut

LEMMA SetAnnotation ==
    ASSUME NEW p \in Pod, NEW a \in Annotation, NEW value \in {"unset", "true", "false"}
    PROVE  LET q == Set(p, a, value)
           IN  /\ q \in Pod /\ SameBut(p, q, {"annotation"})
               /\ q.annotation[a] = value
               /\ \A b \in Annotation \ {a} : q.annotation[b] = p.annotation[b]
<1> DEFINE e == [p.annotation EXCEPT ![a] = value]
           q == [p EXCEPT !.annotation = e]
<1>1. Set(p, a, value) = q
  BY Zenon DEF Set
<1>2. e \in [Annotation -> {"unset", "true", "false"}] /\ e[a] = value
      /\ \A b \in Annotation \ {a} : e[b] = p.annotation[b]
  BY FieldTypes
<1>3. q \in Pod /\ q.annotation = e /\ SameBut(p, q, {"annotation"})
  <2> HIDE DEF e
  <2> QED
    BY <1>2 DEF Pod, SameBut
<1> QED
  BY <1>1, <1>2, <1>3

LEMMA ChangeMounts ==
    ASSUME NEW p \in Pod, NEW cs \in SUBSET Container, NEW added \in SUBSET Mount
    PROVE  LET q == Change(p, "mounts", cs, added)
           IN  /\ q \in Pod /\ SameBut(p, q, {"mounts"})
               /\ Gains(p.mounts, q.mounts, cs, added)
<1> DEFINE e == [c \in Container |-> IF c \in cs THEN p.mounts[c] \cup added ELSE p.mounts[c]]
           q == [p EXCEPT !.mounts = e]
<1>1. Change(p, "mounts", cs, added) = q
  BY Zenon DEF Change
<1>2. e \in [Container -> SUBSET Mount]
  BY FieldTypes
<1>3. q \in Pod /\ q.mounts = e /\ SameBut(p, q, {"mounts"})
  <2> HIDE DEF e
  <2> QED
    BY <1>2, SetMounts
<1> QED
  BY <1>1, <1>3 DEF Gains

LEMMA ChangeEnv ==
    ASSUME NEW p \in Pod, NEW cs \in SUBSET Container, NEW added \in SUBSET Env
    PROVE  LET q == Change(p, "env", cs, added)
           IN  /\ q \in Pod /\ SameBut(p, q, {"env"})
               /\ Gains(p.env, q.env, cs, added)
<1> DEFINE e == [c \in Container |-> IF c \in cs THEN p.env[c] \cup added ELSE p.env[c]]
           q == [p EXCEPT !.env = e]
<1>1. Change(p, "env", cs, added) = q
  BY Zenon DEF Change
<1>2. e \in [Container -> SUBSET Env]
  BY FieldTypes
<1>3. q \in Pod /\ q.env = e /\ SameBut(p, q, {"env"})
  <2> HIDE DEF e
  <2> QED
    BY <1>2, SetEnv
<1> QED
  BY <1>1, <1>3 DEF Gains

LEMMA ChangeVolumes ==
    ASSUME NEW p \in Pod, NEW vs \in SUBSET Volume
    PROVE  LET q == WithVolumes(p, vs)
           IN  /\ q \in Pod /\ SameBut(p, q, {"volumes"})
               /\ BecomeOurs(p.volumes, q.volumes, vs)
<1> DEFINE e == [v \in Volume |-> IF v \in vs THEN "ours" ELSE p.volumes[v]]
           q == [p EXCEPT !.volumes = e]
<1>1. WithVolumes(p, vs) = q
  BY Zenon DEF WithVolumes
<1>2. e \in [Volume -> {"none", "ours", "foreign"}]
  BY FieldTypes
<1>3. q \in Pod /\ q.volumes = e /\ SameBut(p, q, {"volumes"})
  <2> HIDE DEF e
  <2> QED
    BY <1>2, SetVolumes
<1> QED
  BY <1>1, <1>3 DEF BecomeOurs
-----------------------------------------------------------------------------
(***************************************************************************)
(* What the mutators change.                                               *)
(***************************************************************************)

\* every container that is configured anew gets a mount by which isInjected tells that it is
LEMMA ConfigMountsFacts ==
    /\ ConfigMounts \subseteq ConfigMount /\ ConfigMount \subseteq Mount
    /\ PreparesInit => ConfigMounts # {}
BY DEF ConfigMounts, ConfigMount, Mount, PreparesInit, Feature

Unconfigured(p) == {c \in Included(p) : ~IsConfigured(p, c)}
WithoutAgent(p) == {c \in Included(p) : "bin" \notin p.mounts[c]}

LEMMA Configure ==
    ASSUME NEW p \in Pod, \A c \in Container : p.arguments[c] \in 0..1
    PROVE  LET q == AddContainerAttributes(p)
           IN  /\ q \in Pod /\ SameBut(p, q, {"mounts", "arguments"})
               /\ Gains(p.mounts, q.mounts, Unconfigured(p), ConfigMounts)
               /\ AreTold(p.arguments, q.arguments, Unconfigured(p))
<1> DEFINE new == Unconfigured(p)
           m == Change(p, "mounts", new, ConfigMounts)
           e == [c \in Container |-> IF c \in new THEN m.arguments[c] + 1 ELSE m.arguments[c]]
           q == [m EXCEPT !.arguments = e]
<1>1. AddContainerAttributes(p) = q
  BY Zenon DEF AddContainerAttributes, Unconfigured
<1>2. new \in SUBSET Container /\ ConfigMounts \in SUBSET Mount
  BY FieldTypes, ConfigMountsFacts DEF Included, Unconfigured
<1>3. /\ m \in Pod /\ SameBut(p, m, {"mounts"})
      /\ Gains(p.mounts, m.mounts, new, ConfigMounts)
  <2> HIDE DEF new
  <2> QED
    BY <1>2, ChangeMounts, Zenon
<1>4. m.arguments = p.arguments
  BY <1>3 DEF SameBut
<1>5. e \in [Container -> 0..MaxCalls]
  <2> HIDE DEF new, m
  <2> QED
    BY <1>4, FieldTypes DEF MaxCalls
<1>6. q \in Pod /\ q.arguments = e /\ SameBut(m, q, {"arguments"})
  <2> HIDE DEF e, m
  <2> QED
    BY <1>3, <1>5, SetArguments
<1>7. SameBut(p, q, {"mounts", "arguments"}) /\ q.mounts = m.mounts
  <2> HIDE DEF m, q
  <2> QED
    BY <1>3, <1>6 DEF SameBut
<1> QED
  <2> HIDE DEF m, q, new
  <2> QED
    BY <1>1, <1>3, <1>4, <1>6, <1>7 DEF new, AreTold

LEMMA Containers ==
    ASSUME NEW p \in Pod
    PROVE  LET q == MutateUserContainers(p)
           IN  /\ q \in Pod /\ SameBut(p, q, {"mounts", "env"})
               /\ Gains(p.mounts, q.mounts, WithoutAgent(p), {"bin", "preload"})
               /\ Gains(p.env, q.env, WithoutAgent(p), {"oneagent"})
<1> DEFINE new == WithoutAgent(p)
           m == Change(p, "mounts", new, {"bin", "preload"})
           q == Change(m, "env", new, {"oneagent"})
<1>1. MutateUserContainers(p) = q
  BY Zenon DEF MutateUserContainers, WithoutAgent
<1>2. new \in SUBSET Container
  BY FieldTypes DEF Included, WithoutAgent
<1>3. {"bin", "preload"} \in SUBSET Mount /\ {"oneagent"} \in SUBSET Env
  BY DEF Mount, Env
<1>4. /\ m \in Pod /\ SameBut(p, m, {"mounts"})
      /\ Gains(p.mounts, m.mounts, new, {"bin", "preload"})
  <2> HIDE DEF new
  <2> QED
    BY <1>2, <1>3, ChangeMounts
<1>5. /\ q \in Pod /\ SameBut(m, q, {"env"})
      /\ Gains(m.env, q.env, new, {"oneagent"})
  <2> HIDE DEF new, m
  <2> QED
    BY <1>2, <1>3, <1>4, ChangeEnv, Zenon
<1> QED
  <2> HIDE DEF m, q, new
  <2> QED
    BY <1>1, <1>4, <1>5 DEF new, SameBut

\* the volumes, the mounts of the init container
LEMMA Prepare ==
    ASSUME NEW p \in Pod, NEW vs \in SUBSET Volume
    PROVE  LET q == [WithVolumes(p, vs) EXCEPT !.init = @ \cup vs]
           IN  /\ q \in Pod /\ SameBut(p, q, {"volumes", "init"})
               /\ q.init = p.init \cup vs
               /\ BecomeOurs(p.volumes, q.volumes, vs)
<1> DEFINE w == WithVolumes(p, vs)
           e == w.init \cup vs
           q == [w EXCEPT !.init = e]
<1>1. /\ w \in Pod /\ SameBut(p, w, {"volumes"})
      /\ BecomeOurs(p.volumes, w.volumes, vs)
  BY ChangeVolumes
<1>2. e \in SUBSET Volume
  <2> HIDE DEF w
  <2> QED
    BY <1>1, FieldTypes
<1>3. q \in Pod /\ q.init = e /\ SameBut(w, q, {"init"})
  <2> HIDE DEF w, e
  <2> QED
    BY <1>1, <1>2, SetInit
<1>4. [WithVolumes(p, vs) EXCEPT !.init = @ \cup vs] = q
  BY Zenon
<1> QED
  <2> HIDE DEF w, q
  <2> QED
    BY <1>1, <1>3, <1>4 DEF SameBut
-----------------------------------------------------------------------------
(***************************************************************************)
(* The handlers, step by step.                                             *)
(***************************************************************************)

Told(p) == AddContainerAttributes(Set(p, "metadata", "true"))
WithAgent(p) == Set(MutateUserContainers([WithVolumes(p, {"bin"}) EXCEPT !.init = @ \cup {"bin"}]), "oneagent", "true")
WithInit(p) == [WithVolumes(p, {"input", "config"}) EXCEPT !.init = @ \cup {"input", "config"}]

LEMMA MutationSteps ==
    ASSUME NEW p, NEW fail, HandlePodMutation(p, fail).error = "none",
           Enabled("oneagent") \/ Enabled("metadata")
    PROVE  LET q == IF Enabled("oneagent") THEN WithAgent(Told(p)) ELSE Told(p)
           IN  /\ HandlePodMutation(p, fail).pod = Set(WithInit(q), "dynatrace", "true")
               /\ ~Conflicts(q, "input") /\ ~Conflicts(q, "config")
<1> DEFINE t == Told(p)
           a == MutateOneAgent(t)
           i(q) == AddInitContainer(q)
           f(q) == IF i(q).error = "none" THEN Good(Set(i(q).pod, "dynatrace", "true")) ELSE i(q)
<1>1. MutateMetadata(p, fail).error = "none" /\ MutateMetadata(p, fail).pod = t
  <2>1. OwnerLookupFails("metadata", fail) => MutateMetadata(p, fail).error = "metadata"
    BY DEF MutateMetadata, Error
  <2>2. ~OwnerLookupFails("metadata", fail) => MutateMetadata(p, fail) = Good(t)
    BY Zenon DEF MutateMetadata, Told
  <2>3. OwnerLookupFails("metadata", fail) => HandlePodMutation(p, fail) = MutateMetadata(p, fail)
    BY <2>1, Zenon DEF HandlePodMutation, Then
  <2> QED
    BY <2>1, <2>2, <2>3 DEF Good
<1>2. HandlePodMutation(p, fail) =
        IF Enabled("oneagent") THEN (IF a.error = "none" THEN f(a.pod) ELSE a) ELSE f(t)
  BY <1>1, Zenon DEF HandlePodMutation, Then
<1>3. a.error = "none" => a.pod = WithAgent(t)
  <2>1. (~dk.ready \/ Conflicts(t, "bin")) => a = Error(t, "oneagent")
    BY Zenon DEF MutateOneAgent
  <2>2. ~(~dk.ready \/ Conflicts(t, "bin")) => a = Good(WithAgent(t))
    BY Zenon DEF MutateOneAgent, WithAgent
  <2> QED
    BY <2>1, <2>2 DEF Good, Error
<1>4. ASSUME NEW q, f(q).error = "none"
      PROVE  /\ f(q).pod = Set(WithInit(q), "dynatrace", "true")
             /\ ~Conflicts(q, "input") /\ ~Conflicts(q, "config")
  <2>1. (Conflicts(q, "input") \/ Conflicts(q, "config")) => i(q) = Error(q, "volume")
    BY Zenon DEF AddInitContainer
  <2>2. ~(Conflicts(q, "input") \/ Conflicts(q, "config")) => i(q) = Good(WithInit(q))
    BY Zenon DEF AddInitContainer, WithInit
  <2>3. i(q).error = "none"
    BY <1>4
  <2>4. ~(Conflicts(q, "input") \/ Conflicts(q, "config"))
    BY <2>1, <2>3 DEF Error
  <2>5. i(q).pod = WithInit(q)
    BY <2>2, <2>4 DEF Good
  <2>6. f(q) = Good(Set(WithInit(q), "dynatrace", "true"))
    BY <2>3, <2>5, Zenon
  <2> QED
    BY <2>4, <2>6 DEF Good
<1>5. CASE Enabled("oneagent")
  <2>1. a.error = "none" /\ HandlePodMutation(p, fail) = f(a.pod)
    BY <1>2, <1>5, Zenon
  <2> QED
    BY <1>3, <1>4, <1>5, <2>1, Zenon
<1>6. CASE ~Enabled("oneagent")
  BY <1>2, <1>4, <1>6, Zenon
<1> QED
  BY <1>5, <1>6
-----------------------------------------------------------------------------
(***************************************************************************)
(* The first handler: what a call finds, and what it leaves.               *)
(***************************************************************************)

Annotated(p, q, a, value) ==
    /\ q.annotation[a] = value
    /\ \A b \in Annotation \ {a} : q.annotation[b] = p.annotation[b]

LEMMA ToldFacts ==
    ASSUME NEW p \in Pod, \A c \in Container : p.arguments[c] \in 0..1
    PROVE  LET q == Told(p)
           IN  /\ q \in Pod /\ SameBut(p, q, {"mounts", "arguments", "annotation"})
               /\ Gains(p.mounts, q.mounts, Unconfigured(p), ConfigMounts)
               /\ AreTold(p.arguments, q.arguments, Unconfigured(p))
               /\ Annotated(p, q, "metadata", "true")
<1> DEFINE m == Set(p, "metadata", "true")
           q == AddContainerAttributes(m)
<1>1. "metadata" \in Annotation /\ "true" \in {"unset", "true", "false"}
  BY DEF Annotation
<1>2. m \in Pod /\ SameBut(p, m, {"annotation"}) /\ Annotated(p, m, "metadata", "true")
  BY <1>1, SetAnnotation, Zenon DEF Annotated
<1> HIDE DEF m
<1>3. m.mounts = p.mounts /\ m.arguments = p.arguments /\ m.containers = p.containers
  BY <1>2 DEF SameBut
<1>4. Unconfigured(m) = Unconfigured(p)
  BY <1>3, Zenon DEF Unconfigured, Included, IsConfigured
<1>5. /\ q \in Pod /\ SameBut(m, q, {"mounts", "arguments"})
      /\ Gains(p.mounts, q.mounts, Unconfigured(p), ConfigMounts)
      /\ AreTold(p.arguments, q.arguments, Unconfigured(p))
  BY <1>2, <1>3, <1>4, Configure, Zenon
<1> HIDE DEF q
<1>6. SameBut(p, q, {"mounts", "arguments", "annotation"}) /\ Annotated(p, q, "metadata", "true")
  BY <1>2, <1>5 DEF SameBut, Annotated
<1> QED
  BY <1>5, <1>6 DEF Told, q, m

LEMMA WithAgentFacts ==
    ASSUME NEW p \in Pod
    PROVE  LET q == WithAgent(p)
           IN  /\ q \in Pod /\ q.containers = p.containers /\ q.arguments = p.arguments
               /\ Gains(p.mounts, q.mounts, WithoutAgent(p), {"bin", "preload"})
               /\ Gains(p.env, q.env, WithoutAgent(p), {"oneagent"})
               /\ q.init = p.init \cup {"bin"} /\ BecomeOurs(p.volumes, q.volumes, {"bin"})
               /\ Annotated(p, q, "oneagent", "true")
<1> DEFINE w == [WithVolumes(p, {"bin"}) EXCEPT !.init = @ \cup {"bin"}]
           m == MutateUserContainers(w)
           q == Set(m, "oneagent", "true")
<1>1. "oneagent" \in Annotation /\ "true" \in {"unset", "true", "false"} /\ {"bin"} \in SUBSET Volume
  BY DEF Annotation, Volume
<1>2. /\ w \in Pod /\ SameBut(p, w, {"volumes", "init"})
      /\ w.init = p.init \cup {"bin"} /\ BecomeOurs(p.volumes, w.volumes, {"bin"})
  BY <1>1, Prepare, Zenon
<1> HIDE DEF w
<1>3. w.mounts = p.mounts /\ w.env = p.env /\ w.containers = p.containers
  BY <1>2 DEF SameBut
<1>4. WithoutAgent(w) = WithoutAgent(p)
  BY <1>3, Zenon DEF WithoutAgent, Included
<1>5. /\ m \in Pod /\ SameBut(w, m, {"mounts", "env"})
      /\ Gains(p.mounts, m.mounts, WithoutAgent(p), {"bin", "preload"})
      /\ Gains(p.env, m.env, WithoutAgent(p), {"oneagent"})
  BY <1>2, <1>3, <1>4, Containers, Zenon
<1> HIDE DEF m
<1>6. q \in Pod /\ SameBut(m, q, {"annotation"}) /\ Annotated(m, q, "oneagent", "true")
  BY <1>1, <1>5, SetAnnotation, Zenon DEF Annotated
<1> HIDE DEF q
<1>7. /\ q.containers = p.containers /\ q.arguments = p.arguments /\ q.mounts = m.mounts /\ q.env = m.env
      /\ q.init = w.init /\ q.volumes = w.volumes /\ m.annotation = p.annotation
  BY <1>2, <1>5, <1>6 DEF SameBut
<1>8. Annotated(p, q, "oneagent", "true")
  BY <1>6, <1>7 DEF Annotated
<1> QED
  BY <1>2, <1>5, <1>6, <1>7, <1>8, Zenon DEF WithAgent, q, m, w

LEMMA WithInitFacts ==
    ASSUME NEW p \in Pod
    PROVE  LET q == Set(WithInit(p), "dynatrace", "true")
           IN  /\ q \in Pod /\ SameBut(p, q, {"volumes", "init", "annotation"})
               /\ q.init = p.init \cup {"input", "config"} /\ BecomeOurs(p.volumes, q.volumes, {"input", "config"})
               /\ Annotated(p, q, "dynatrace", "true")
<1> DEFINE w == WithInit(p)
           q == Set(w, "dynatrace", "true")
<1>1. "dynatrace" \in Annotation /\ "true" \in {"unset", "true", "false"} /\ {"input", "config"} \in SUBSET Volume
  BY DEF Annotation, Volume
<1>2. /\ w \in Pod /\ SameBut(p, w, {"volumes", "init"})
      /\ w.init = p.init \cup {"input", "config"} /\ BecomeOurs(p.volumes, w.volumes, {"input", "config"})
  BY <1>1, Prepare, Zenon DEF WithInit
<1> HIDE DEF w
<1>3. q \in Pod /\ SameBut(w, q, {"annotation"}) /\ Annotated(w, q, "dynatrace", "true")
  BY <1>1, <1>2, SetAnnotation, Zenon DEF Annotated
<1> HIDE DEF q
<1>4. /\ SameBut(p, q, {"volumes", "init", "annotation"})
      /\ q.init = w.init /\ q.volumes = w.volumes /\ w.annotation = p.annotation
  BY <1>2, <1>3 DEF SameBut
<1>5. Annotated(p, q, "dynatrace", "true")
  BY <1>3, <1>4 DEF Annotated
<1> QED
  BY <1>2, <1>3, <1>4, <1>5, Zenon DEF q, w

\* what a call relies on
Ready(p, n) ==
    /\ Sound(p, n)
    /\ p.init # {} => n = 1 /\ ~Denies(p) /\ p.annotation["oneagent"] # "false"
    /\ ~edited => ConfiguredAsNow(p) /\ InjectedAsNow(p)
    /\ n = 0 => \A a \in Annotation : p.annotation[a] = "unset"

\* what a handler makes of p, when it returns no error
Left(p, q, n, fail) ==
    /\ q \in Pod /\ q.containers = p.containers
    /\ Sound(q, n + 1)
    /\ Denies(q) => q.init = {} \/ (p.init # {} /\ Missing(InitSecrets, fail))
    /\ n = 0 /\ q.init # {} => ~Denies(q) /\ q.annotation["oneagent"] # "false"
    /\ ~edited => ConfiguredAsNow(q)
    /\ ~edited /\ n = 0 => InjectedAsNow(q)
    /\ ~edited /\ q.annotation["dynatrace"] = "true" => AllInjected(q, p.containers)

\* the configuration makes isInjected say so, and nothing else does
LEMMA IsConfiguredFacts ==
    ASSUME NEW p, NEW c, PreparesInit
    PROVE  /\ ConfigMounts \subseteq p.mounts[c] => IsConfigured(p, c)
           /\ IsConfigured(p, c) => p.mounts[c] \cap ConfigMount # {}
BY DEF IsConfigured, ConfigMounts, ConfigMount, PreparesInit

LEMMA NothingToldYet ==
    ASSUME NEW p \in Pod, NEW n \in 0..1, Sound(p, n), p.init = {}
    PROVE  \A c \in Container : p.mounts[c] \subseteq {"otlpCerts"} /\ p.arguments[c] = 0
BY FieldTypes DEF Sound, NeedsInit, ToldOfMounts, ConfigMount, MaxCalls

LEMMA FirstCall ==
    ASSUME NEW p \in Pod, NEW n \in 0..1, NEW fail, Ready(p, n), p.init = {}, PreparesInit,
           Enabled("oneagent") \/ Enabled("metadata"),
           HandlePodMutation(p, fail).error = "none"
    PROVE  LET q == HandlePodMutation(p, fail).pod
           IN  Left(p, q, n, fail) /\ q.annotation["otlp"] = p.annotation["otlp"]
<1> DEFINE t == Told(p)
           a == IF Enabled("oneagent") THEN WithAgent(t) ELSE t
           q == Set(WithInit(a), "dynatrace", "true")
           agent == IF Enabled("oneagent") THEN {"bin", "preload"} ELSE {}
           has == IF Enabled("oneagent") THEN {"bin"} ELSE {}
<1>1. HandlePodMutation(p, fail).pod = q /\ ~Conflicts(a, "input") /\ ~Conflicts(a, "config")
  BY MutationSteps, Zenon
<1>2. Sound(p, n) /\ \A c \in Container : p.mounts[c] \subseteq {"otlpCerts"} /\ p.arguments[c] = 0
  BY NothingToldYet DEF Ready
<1>3. /\ t \in Pod /\ SameBut(p, t, {"mounts", "arguments", "annotation"})
      /\ Gains(p.mounts, t.mounts, Unconfigured(p), ConfigMounts)
      /\ AreTold(p.arguments, t.arguments, Unconfigured(p))
      /\ Annotated(p, t, "metadata", "true")
  BY <1>2, ToldFacts
<1>4. /\ a \in Pod /\ a.containers = t.containers /\ a.arguments = t.arguments
      /\ Gains(t.mounts, a.mounts, IF Enabled("oneagent") THEN WithoutAgent(t) ELSE {}, {"bin", "preload"})
      /\ Gains(t.env, a.env, IF Enabled("oneagent") THEN WithoutAgent(t) ELSE {}, {"oneagent"})
      /\ a.init = t.init \cup has /\ BecomeOurs(t.volumes, a.volumes, has)
      /\ Enabled("oneagent") => Annotated(t, a, "oneagent", "true")
      /\ ~Enabled("oneagent") => a.annotation = t.annotation
  <2> HIDE DEF t
  <2>1. CASE Enabled("oneagent")
    BY <1>3, <2>1, WithAgentFacts
  <2>2. CASE ~Enabled("oneagent")
    BY <1>3, <2>2 DEF Gains, BecomeOurs
  <2> QED
    BY <2>1, <2>2
<1> HIDE DEF t
<1>5. /\ q \in Pod /\ SameBut(a, q, {"volumes", "init", "annotation"})
      /\ q.init = a.init \cup {"input", "config"} /\ BecomeOurs(a.volumes, q.volumes, {"input", "config"})
      /\ Annotated(a, q, "dynatrace", "true")
  <2> HIDE DEF a
  <2> QED
    BY <1>4, WithInitFacts
<1> HIDE DEF a, q
\* the fields of the result
<1>6. /\ q.containers = p.containers /\ q.init = {"input", "config"} \cup has
      /\ BecomeOurs(p.volumes, q.volumes, {"input", "config"} \cup has)
  BY <1>3, <1>4, <1>5 DEF SameBut, BecomeOurs
<1>7. \A c \in Container :
        /\ c \in Included(p) => q.mounts[c] = p.mounts[c] \cup ConfigMounts \cup agent /\ q.arguments[c] = 1
        /\ c \notin Included(p) => q.mounts[c] = p.mounts[c] /\ q.arguments[c] = 0
  <2>1. \A c \in Included(p) : c \in Unconfigured(p)
    BY <1>2, IsConfiguredFacts, FieldTypes DEF Unconfigured, ConfigMount, Included
  <2>2. Unconfigured(p) \subseteq Included(p)
    BY DEF Unconfigured
  <2>3. \A c \in Container : "bin" \notin t.mounts[c]
    BY <1>2, <1>3, ConfigMountsFacts DEF Gains, ConfigMount
  <2>4. Included(t) = Included(p)
    BY <1>3 DEF Included, SameBut
  <2>5. WithoutAgent(t) = Included(p)
    BY <2>3, <2>4, FieldTypes DEF WithoutAgent, Included
  <2>6. \A c \in Container : t.mounts[c] = p.mounts[c] \cup (IF c \in Included(p) THEN ConfigMounts ELSE {})
    BY <1>3, <2>1, <2>2 DEF Gains
  <2>7. \A c \in Container : t.arguments[c] = IF c \in Included(p) THEN 1 ELSE 0
    BY <1>2, <1>3, <2>1, <2>2 DEF AreTold
  <2>8. q.mounts = a.mounts /\ q.arguments = t.arguments
    BY <1>4, <1>5 DEF SameBut
  <2>9. \A c \in Container : a.mounts[c] = t.mounts[c] \cup (IF c \in Included(p) THEN agent ELSE {})
    BY <1>4, <2>5 DEF Gains
  <2>10. ASSUME NEW c \in Included(p) PROVE q.mounts[c] = p.mounts[c] \cup ConfigMounts \cup agent
    <3> HIDE DEF agent
    <3> QED
      BY <2>6, <2>8, <2>9, FieldTypes DEF Included
  <2>11. ASSUME NEW c \in Container, c \notin Included(p) PROVE q.mounts[c] = p.mounts[c]
    BY <2>6, <2>8, <2>9, <2>11
  <2> QED
    BY <2>7, <2>8, <2>10, <2>11
<1>8. \A c \in Container : p.env[c] \subseteq {"oneagent"} => q.env[c] \subseteq {"oneagent"}
  BY <1>3, <1>4, <1>5 DEF Gains, SameBut
<1>9. /\ q.annotation["dynatrace"] = "true" /\ q.annotation["metadata"] = "true"
      /\ q.annotation["otlp"] = p.annotation["otlp"] /\ q.annotation["volume"] = p.annotation["volume"]
      /\ q.annotation["oneagent"] = IF Enabled("oneagent") THEN "true" ELSE p.annotation["oneagent"]
  BY <1>3, <1>4, <1>5 DEF Annotated, Annotation
<1>10. p.annotation["volume"] # "false"
  <2>1. a.volumes["input"] = p.volumes["input"] /\ a.volumes["config"] = p.volumes["config"]
    BY <1>3, <1>4 DEF BecomeOurs, SameBut, Volume
  <2> QED
    BY <1>1, <1>2, <2>1 DEF Sound, AnnotationsTell, Conflicts
\* what it leaves
<1> HIDE DEF agent
<1>11. NeedsInit(q) /\ InitHasVolumes(q)
  BY <1>6 DEF NeedsInit, InitHasVolumes, BecomeOurs, Volume
<1>12. agent \cap ConfigMount = {} /\ "otlpCerts" \notin agent \cup ConfigMounts /\ "bin" \notin ConfigMounts
       /\ (Enabled("oneagent") <=> "bin" \in agent)
  BY ConfigMountsFacts DEF agent, ConfigMount
<1>13. ToldOfMounts(q, n + 1)
  <2>1. ASSUME NEW c \in Included(p) PROVE q.arguments[c] = 1 /\ q.mounts[c] \cap ConfigMount # {}
    BY <1>7, ConfigMountsFacts, FieldTypes DEF Included
  <2>2. ASSUME NEW c \in Container, c \notin Included(p)
        PROVE  q.arguments[c] = 0 /\ q.mounts[c] \cap ConfigMount = {}
    BY <1>2, <1>7, <2>2 DEF ConfigMount
  <2> QED
    BY <2>1, <2>2 DEF ToldOfMounts
<1>14. CertsHaveVolume(q, n + 1)
  <2>1. ASSUME NEW c \in Container, "otlpCerts" \in q.mounts[c] PROVE "otlpCerts" \in p.mounts[c]
    BY <1>7, <1>12, <2>1
  <2>2. q.volumes["otlpCerts"] = p.volumes["otlpCerts"]
    BY <1>6 DEF BecomeOurs, Volume
  <2> QED
    BY <1>2, <2>1, <2>2 DEF Sound, CertsHaveVolume, MaxCalls
<1>15. AnnotationsTell(q)
  <2>1. q.annotation["otlp"] = "unset" => \A c \in Container : q.env[c] \subseteq {"oneagent"}
    BY <1>2, <1>8, <1>9 DEF Sound, AnnotationsTell
  <2>2. q.annotation["oneagent"] = "false" => "bin" \notin q.init /\ \A c \in Container : "bin" \notin q.mounts[c]
    BY <1>2, <1>6, <1>7, <1>9, <1>12
  <2> QED
    BY <1>6, <1>9, <1>10, <2>1, <2>2 DEF AnnotationsTell
<1>16. ~Denies(q)
  BY <1>9, <1>10 DEF Denies
<1>17. n = 0 => p.annotation["oneagent"] = "unset"
  BY DEF Ready, Annotation
<1>18. ConfiguredAsNow(q) /\ (n = 0 => InjectedAsNow(q))
  <2>1. ASSUME NEW c \in Included(p) PROVE q.arguments[c] = 1 /\ IsConfigured(q, c)
    BY <1>7, IsConfiguredFacts, FieldTypes DEF Included
  <2>2. \A c \in Container : "bin" \in q.mounts[c] => Enabled("oneagent")
    BY <1>2, <1>7, <1>12
  <2>3. Enabled("oneagent") => q.volumes["bin"] = "ours"
    BY <1>6 DEF BecomeOurs, Volume
  <2> QED
    BY <1>7, <1>9, <1>17, <2>1, <2>2, <2>3 DEF ConfiguredAsNow, InjectedAsNow
<1>19. AllInjected(q, p.containers)
  <2>1. q.annotation["oneagent"] = "true" => Enabled("oneagent")
    BY <1>2, <1>9 DEF Sound, AnnotationsTell
  <2>2. p.containers \ user.excluded = Included(p)
    BY DEF Included
  <2> QED
    BY <1>7, <1>12, <2>1, <2>2, FieldTypes DEF AllInjected, Included
<1>20. n = 0 => q.annotation["oneagent"] # "false"
  BY <1>9, <1>17
<1> QED
  BY <1>1, <1>5, <1>6, <1>9, <1>11, <1>13, <1>14, <1>15, <1>16, <1>18, <1>19, <1>20 DEF Left, Sound

LEMMA LastCall ==
    ASSUME NEW p \in Pod, NEW n \in 0..1, NEW fail, Ready(p, n), p.init # {}, PreparesInit
    PROVE  LET q == HandlePodReinvocation(p)
           IN  Left(p, q, n, fail) /\ q.annotation["otlp"] = p.annotation["otlp"]
<1> DEFINE t == AddContainerAttributes(p)
           q == IF Enabled("oneagent") THEN MutateUserContainers(t) ELSE t
           agent == IF Enabled("oneagent") THEN {"bin", "preload"} ELSE {}
<1>1. HandlePodReinvocation(p) = q
  BY Zenon DEF HandlePodReinvocation
<1>2. n = 1 /\ Sound(p, 1) /\ ~Denies(p) /\ p.annotation["oneagent"] # "false"
  BY DEF Ready
<1>3. \A c \in Container : p.arguments[c] \in 0..1
  BY <1>2, FieldTypes DEF Sound, ToldOfMounts, MaxCalls
<1>4. /\ t \in Pod /\ SameBut(p, t, {"mounts", "arguments"})
      /\ Gains(p.mounts, t.mounts, Unconfigured(p), ConfigMounts)
      /\ AreTold(p.arguments, t.arguments, Unconfigured(p))
  BY <1>3, Configure
<1> HIDE DEF t
<1>5. /\ q \in Pod /\ SameBut(t, q, {"mounts", "env"})
      /\ Gains(t.mounts, q.mounts, WithoutAgent(t), agent)
      /\ Gains(t.env, q.env, WithoutAgent(t), IF Enabled("oneagent") THEN {"oneagent"} ELSE {})
  <2>1. CASE Enabled("oneagent")
    BY <1>4, <2>1, Containers
  <2>2. CASE ~Enabled("oneagent")
    BY <1>4, <2>2 DEF Gains, SameBut
  <2> QED
    BY <2>1, <2>2
<1> HIDE DEF q
<1>6. /\ q.containers = p.containers /\ q.init = p.init /\ q.volumes = p.volumes /\ q.annotation = p.annotation
      /\ q.arguments = t.arguments
  BY <1>4, <1>5 DEF SameBut
<1>7. agent \cap ConfigMount = {} /\ "otlpCerts" \notin agent \cup ConfigMounts /\ "bin" \notin ConfigMounts
      /\ (Enabled("oneagent") <=> "bin" \in agent)
  BY ConfigMountsFacts DEF ConfigMount
<1> HIDE DEF agent
<1>8. \A c \in Container :
        /\ q.mounts[c] \cap ConfigMount = (p.mounts[c] \cup (IF c \in Unconfigured(p) THEN ConfigMounts ELSE {})) \cap ConfigMount
        /\ "otlpCerts" \in q.mounts[c] => "otlpCerts" \in p.mounts[c]
        /\ "bin" \in q.mounts[c] => "bin" \in p.mounts[c] \/ Enabled("oneagent")
        /\ c \in Included(p) /\ Enabled("oneagent") => "bin" \in q.mounts[c]
  <2> TAKE c \in Container
  <2>1. \/ t.mounts[c] = p.mounts[c] /\ c \notin Unconfigured(p)
        \/ t.mounts[c] = p.mounts[c] \cup ConfigMounts /\ c \in Unconfigured(p)
    BY <1>4 DEF Gains
  <2>2. \/ q.mounts[c] = t.mounts[c] /\ c \notin WithoutAgent(t)
        \/ q.mounts[c] = t.mounts[c] \cup agent /\ c \in WithoutAgent(t)
    BY <1>5 DEF Gains
  <2>3. Included(t) = Included(p)
    BY <1>4 DEF Included, SameBut
  <2>4. c \in Included(p) => "bin" \in t.mounts[c] \/ c \in WithoutAgent(t)
    BY <2>3 DEF WithoutAgent
  <2>5. /\ "otlpCerts" \in q.mounts[c] => "otlpCerts" \in p.mounts[c]
        /\ "bin" \in q.mounts[c] => "bin" \in p.mounts[c] \/ Enabled("oneagent")
        /\ c \in Included(p) /\ Enabled("oneagent") => "bin" \in q.mounts[c]
    BY <1>7, <2>1, <2>2, <2>4
  <2>6. q.mounts[c] \cap ConfigMount = t.mounts[c] \cap ConfigMount
    BY <1>7, <2>2
  <2>7. t.mounts[c] \cap ConfigMount = (p.mounts[c] \cup (IF c \in Unconfigured(p) THEN ConfigMounts ELSE {})) \cap ConfigMount
    BY <2>1
  <2> QED
    BY <2>5, <2>6, <2>7
<1>9. ToldOfMounts(q, 2)
  <2>1. ASSUME NEW c \in Container, c \in Unconfigured(p)
        PROVE  q.arguments[c] > 0 /\ q.arguments[c] <= 2 /\ q.mounts[c] \cap ConfigMount # {}
    BY <1>3, <1>4, <1>6, <1>8, <2>1, ConfigMountsFacts DEF AreTold
  <2>2. ASSUME NEW c \in Container, c \notin Unconfigured(p)
        PROVE  q.arguments[c] = p.arguments[c] /\ q.mounts[c] \cap ConfigMount = p.mounts[c] \cap ConfigMount
    BY <1>4, <1>6, <1>8, <2>2 DEF AreTold
  <2> QED
    BY <1>2, <1>3, <2>1, <2>2 DEF Sound, ToldOfMounts
<1>10. NeedsInit(q) /\ InitHasVolumes(q) /\ CertsHaveVolume(q, 2)
  BY <1>2, <1>6, <1>8 DEF Sound, NeedsInit, InitHasVolumes, CertsHaveVolume, MaxCalls
<1>11. AnnotationsTell(q)
  <2>1. \A c \in Container : p.env[c] \subseteq {"oneagent"} => q.env[c] \subseteq {"oneagent"}
    BY <1>4, <1>5 DEF Gains, SameBut
  <2> QED
    BY <1>2, <1>6, <2>1 DEF Sound, AnnotationsTell, Conflicts
<1>12. ~Denies(q)
  BY <1>2, <1>6 DEF Denies
<1>13. ASSUME ~edited, NEW c \in Container
       PROVE  /\ q.arguments[c] > 0 => q.arguments[c] = 1 /\ IsConfigured(q, c)
              /\ "bin" \in q.mounts[c] => q.volumes["bin"] = "ours"
              /\ c \in Included(p) => q.arguments[c] = 1
  <2>1. ConfiguredAsNow(p) /\ InjectedAsNow(p)
    BY <1>13 DEF Ready
  <2>2. "bin" \in q.mounts[c] => q.volumes["bin"] = "ours"
    BY <1>6, <1>8, <2>1 DEF ConfiguredAsNow, InjectedAsNow
  <2>3. CASE c \in Unconfigured(p)
    <3>1. p.arguments[c] = 0
      BY <1>3, <2>1, <2>3 DEF ConfiguredAsNow, Unconfigured
    <3>2. q.arguments[c] = 1
      BY <1>4, <1>6, <2>3, <3>1 DEF AreTold
    <3>3. ConfigMounts \subseteq q.mounts[c]
      BY <1>8, <2>3, ConfigMountsFacts
    <3> QED
      BY <2>2, <3>2, <3>3, IsConfiguredFacts
  <2>4. CASE c \notin Unconfigured(p)
    <3>1. q.arguments[c] = p.arguments[c] /\ q.mounts[c] \cap ConfigMount = p.mounts[c] \cap ConfigMount
      BY <1>4, <1>6, <1>8, <2>4 DEF AreTold
    <3>2. IsConfigured(q, c) <=> IsConfigured(p, c)
      BY <3>1 DEF IsConfigured, ConfigMount
    <3>3. c \in Included(p) => p.arguments[c] > 0
      BY <1>2, <2>4, IsConfiguredFacts DEF Unconfigured, Sound, ToldOfMounts
    <3> QED
      BY <2>1, <2>2, <3>1, <3>2, <3>3 DEF ConfiguredAsNow
  <2> QED
    BY <2>3, <2>4
<1>14. ~edited => ConfiguredAsNow(q)
  BY <1>13 DEF ConfiguredAsNow
<1>15. ~edited => AllInjected(q, p.containers)
  <2>1. ~edited /\ q.annotation["oneagent"] = "true" => Enabled("oneagent")
    BY <1>6 DEF Ready, InjectedAsNow
  <2>2. p.containers \ user.excluded = Included(p) /\ Included(p) \subseteq Container
    BY FieldTypes DEF Included
  <2> QED
    BY <1>8, <1>13, <2>1, <2>2 DEF AllInjected
<1> QED
  BY <1>1, <1>2, <1>5, <1>6, <1>9, <1>10, <1>11, <1>12, <1>14, <1>15 DEF Left, Sound

LEMMA SoundLater ==
    ASSUME NEW p \in Pod, NEW n \in 0..1, Sound(p, n)
    PROVE  Sound(p, n + 1)
<1>1. ToldOfMounts(p, n + 1)
  <2>1. \A c \in Container : p.arguments[c] \in 0..MaxCalls
    BY FieldTypes
  <2> QED
    BY <2>1 DEF Sound, ToldOfMounts, MaxCalls
<1> QED
  BY <1>1 DEF Sound, CertsHaveVolume, MaxCalls

LEMMA NothingToInject ==
    ASSUME NEW p \in Pod, NEW n \in 0..1, NEW fail, Ready(p, n), ~PreparesInit
    PROVE  Left(p, p, n, fail)
<1>1. Sound(p, n + 1) /\ AnnotationsTell(p)
  BY SoundLater DEF Ready, Sound
<1>2. ~edited => p.annotation["dynatrace"] # "true"
  BY <1>1 DEF Ready, InjectedAsNow, AnnotationsTell
<1> QED
  BY <1>1, <1>2 DEF Left, Ready

LEMMA InjectionDenied ==
    ASSUME NEW p \in Pod, NEW n \in 0..1, NEW fail, Ready(p, n), p.init = {} \/ Missing(InitSecrets, fail)
    PROVE  LET q == Set(p, "dynatrace", "false")
           IN  Left(p, q, n, fail) /\ q.annotation["otlp"] = p.annotation["otlp"]
<1> DEFINE q == Set(p, "dynatrace", "false")
<1>1. q \in Pod /\ SameBut(p, q, {"annotation"}) /\ Annotated(p, q, "dynatrace", "false")
  BY SetAnnotation DEF Annotated, Annotation
<1> HIDE DEF q
<1>2. /\ q.containers = p.containers /\ q.mounts = p.mounts /\ q.env = p.env /\ q.init = p.init
      /\ q.arguments = p.arguments /\ q.volumes = p.volumes
  BY <1>1 DEF SameBut
<1>3. /\ q.annotation["dynatrace"] = "false"
      /\ \A a \in {"oneagent", "metadata", "otlp", "volume"} : q.annotation[a] = p.annotation[a]
  BY <1>1 DEF Annotated, Annotation
<1>4. Sound(p, n + 1)
  BY SoundLater DEF Ready
<1>5. Sound(q, n + 1)
  BY <1>2, <1>3, <1>4
  DEF Sound, NeedsInit, ToldOfMounts, InitHasVolumes, CertsHaveVolume, AnnotationsTell, Conflicts
<1>6. ~edited => ConfiguredAsNow(q) /\ (n = 0 => InjectedAsNow(q))
  BY <1>2, <1>3 DEF Ready, ConfiguredAsNow, InjectedAsNow, IsConfigured
<1>7. n = 0 => p.init = {}
  BY DEF Ready
<1> QED
  BY <1>1, <1>2, <1>3, <1>5, <1>6, <1>7 DEF Left, q

LEMMA InjectionHandled ==
    ASSUME NEW p \in Pod, NEW n \in 0..1, NEW fail, Ready(p, n), InjectionHandle(p, fail).error = "none"
    PROVE  LET q == InjectionHandle(p, fail).pod
           IN  Left(p, q, n, fail) /\ q.annotation["otlp"] = p.annotation["otlp"]
<1>1. CASE ~PreparesInit
  <2>1. InjectionHandle(p, fail).pod = p
    BY <1>1 DEF InjectionHandle, Good
  <2> QED
    BY <1>1, <2>1, NothingToInject
<1>2. CASE PreparesInit /\ Missing(InitSecrets, fail)
  <2>1. InjectionHandle(p, fail).pod = Set(p, "dynatrace", "false")
    BY <1>2 DEF InjectionHandle, Good
  <2> QED
    BY <1>2, <2>1, InjectionDenied
<1>3. CASE PreparesInit /\ ~Missing(InitSecrets, fail) /\ p.init # {}
  <2>1. InjectionHandle(p, fail).pod = HandlePodReinvocation(p)
    BY <1>3 DEF InjectionHandle, Good
  <2> QED
    BY <1>3, <2>1, LastCall
<1>4. CASE PreparesInit /\ ~Missing(InitSecrets, fail) /\ p.init = {}
  <2>1. InjectionHandle(p, fail) = HandlePodMutation(p, fail)
    BY <1>4 DEF InjectionHandle
  <2>2. CASE Enabled("oneagent") \/ Enabled("metadata")
    BY <1>4, <2>1, <2>2, FirstCall
  <2>3. CASE ~(Enabled("oneagent") \/ Enabled("metadata"))
    <3>1. HandlePodMutation(p, fail).pod = Set(p, "dynatrace", "false")
      BY <2>3 DEF HandlePodMutation, Good
    <3> QED
      BY <1>4, <2>1, <3>1, InjectionDenied
  <2> QED
    BY <2>2, <2>3
<1> QED
  BY <1>1, <1>2, <1>3, <1>4
-----------------------------------------------------------------------------
(***************************************************************************)
(* The second handler adds to the environment and mounts certificates.     *)
(***************************************************************************)

\* nothing but the environment, and the certificates with their volume
Exported(q, r) ==
    /\ r \in Pod /\ SameBut(q, r, {"mounts", "env", "volumes", "annotation"})
    /\ \A c \in Container : r.mounts[c] \ {"otlpCerts"} = q.mounts[c] \ {"otlpCerts"}
    /\ \A v \in Volume \ {"otlpCerts"} : r.volumes[v] = q.volumes[v]

\* the mount of the certificates is in the pod before their volume is looked for
LEMMA ExporterFacts ==
    ASSUME NEW q \in Pod
    PROVE  LET result == MutateExporter(q)
               r == result.pod
           IN  /\ Exported(q, r) /\ r.annotation = q.annotation
               /\ \A c \in Container : "otlpCerts" \in r.mounts[c] =>
                    \/ "otlpCerts" \in q.mounts[c] /\ r.volumes["otlpCerts"] = q.volumes["otlpCerts"]
                    \/ r.volumes["otlpCerts"] = "ours"
                    \/ r.volumes["otlpCerts"] = "foreign" /\ result.error # "none"
<1> DEFINE cs == Exporting(q)
           e == Inject(q, cs)
           m == Change(e, "mounts", cs, {"otlpCerts"})
           w == WithVolumes(m, {"otlpCerts"})
<1>1. /\ cs \in SUBSET Container /\ {"otlp"} \in SUBSET Env /\ {"otlpCerts"} \in SUBSET Mount
      /\ {"otlpCerts"} \in SUBSET Volume
  BY FieldTypes DEF Exporting, Included, Env, Mount, Volume
<1>2. MutateExporter(q) = IF ~dk.certs \/ cs = {} THEN Good(e)
                          ELSE IF Conflicts(q, "otlpCerts") THEN Error(m, "otlp") ELSE Good(w)
  BY Zenon DEF MutateExporter
<1> HIDE DEF cs
<1>3. e \in Pod /\ SameBut(q, e, {"env"})
  BY <1>1, ChangeEnv, Zenon DEF Inject
<1> HIDE DEF e
<1>4. m \in Pod /\ SameBut(e, m, {"mounts"}) /\ Gains(e.mounts, m.mounts, cs, {"otlpCerts"})
  BY <1>1, <1>3, ChangeMounts, Zenon
<1> HIDE DEF m
<1>5. w \in Pod /\ SameBut(m, w, {"volumes"}) /\ BecomeOurs(m.volumes, w.volumes, {"otlpCerts"})
  BY <1>1, <1>4, ChangeVolumes, Zenon
<1> HIDE DEF w
<1>6. Exported(q, e) /\ e.annotation = q.annotation /\ e.mounts = q.mounts /\ e.volumes = q.volumes
  BY <1>3 DEF SameBut, Exported
<1>7. Exported(q, m) /\ m.annotation = q.annotation /\ m.volumes = q.volumes
  BY <1>3, <1>4, <1>6 DEF SameBut, Exported, Gains
<1>8. Exported(q, w) /\ w.annotation = q.annotation /\ w.volumes["otlpCerts"] = "ours"
  BY <1>5, <1>7 DEF SameBut, Exported, BecomeOurs, Volume
<1>9. CASE ~dk.certs \/ cs = {}
  <2>1. MutateExporter(q).pod = e
    BY <1>2, <1>9 DEF Good
  <2> QED
    BY <1>6, <2>1
<1>10. CASE ~(~dk.certs \/ cs = {}) /\ Conflicts(q, "otlpCerts")
  <2>1. MutateExporter(q).pod = m /\ MutateExporter(q).error # "none"
    BY <1>2, <1>10 DEF Error
  <2> QED
    BY <1>7, <1>10, <2>1 DEF Conflicts
<1>11. CASE ~(~dk.certs \/ cs = {}) /\ ~Conflicts(q, "otlpCerts")
  <2>1. MutateExporter(q).pod = w
    BY <1>2, <1>11 DEF Good
  <2> QED
    BY <1>8, <2>1
<1> QED
  BY <1>9, <1>10, <1>11

LEMMA AttributeFacts ==
    ASSUME NEW q \in Pod, NEW fail
    PROVE  LET r == MutateAttributes(q, fail).pod
           IN  r \in Pod /\ SameBut(q, r, {"env"})
<1> DEFINE e == Change(q, "env", Included(q), {"attributes"})
<1>1. Included(q) \in SUBSET Container /\ {"attributes"} \in SUBSET Env
  BY FieldTypes DEF Included, Env
<1>2. e \in Pod /\ SameBut(q, e, {"env"})
  BY <1>1, ChangeEnv, Zenon
<1>3. MutateAttributes(q, fail) = IF OwnerLookupFails("otlp", fail) THEN Error(q, "otlp") ELSE Good(e)
  BY Zenon DEF MutateAttributes
<1> HIDE DEF e
<1> QED
  BY <1>2, <1>3 DEF Good, Error, SameBut

LEMMA SetOTLP ==
    ASSUME NEW q \in Pod, NEW value \in {"true", "false"}
    PROVE  LET r == Set(q, "otlp", value)
           IN  r \in Pod /\ SameBut(q, r, {"annotation"}) /\ Annotated(q, r, "otlp", value)
BY SetAnnotation DEF Annotated, Annotation

\* the second handler, when it returns no error
LEMMA OTLP ==
    ASSUME NEW q \in Pod, NEW n \in 0..1, NEW fail, CertsHaveVolume(q, n + 1),
           n = 0 => q.annotation["otlp"] # "true",
           OTLPHandle(q, fail).error = "none"
    PROVE  LET r == OTLPHandle(q, fail).pod
           IN  /\ Exported(q, r) /\ CertsHaveVolume(r, n + 1)
               /\ \A a \in Annotation \ {"otlp"} : r.annotation[a] = q.annotation[a]
               /\ r.annotation["otlp"] = "unset" => q.annotation["otlp"] = "unset" /\ r.env = q.env
<1> DEFINE x == MutateExporter(q)
           y == MutateAttributes(x.pod, fail)
           r == Set(y.pod, "otlp", "true")
<1>1. /\ Exported(q, x.pod) /\ x.pod.annotation = q.annotation
      /\ \A c \in Container : "otlpCerts" \in x.pod.mounts[c] =>
            \/ "otlpCerts" \in q.mounts[c] /\ x.pod.volumes["otlpCerts"] = q.volumes["otlpCerts"]
            \/ x.pod.volumes["otlpCerts"] = "ours"
            \/ x.pod.volumes["otlpCerts"] = "foreign" /\ x.error # "none"
  BY ExporterFacts
<1>2. y.pod \in Pod /\ SameBut(x.pod, y.pod, {"env"})
  BY <1>1, AttributeFacts DEF Exported
<1>3. OTLPHandle(q, fail) =
        IF ~Enabled("otlp") THEN Good(q)
        ELSE IF Missing(OTLPSecrets, fail) THEN Good(Set(q, "otlp", "false"))
        ELSE IF q.annotation["otlp"] = "true" THEN Good(r)
        ELSE IF x.error # "none" THEN x ELSE IF y.error # "none" THEN y ELSE Good(r)
  <2>1. Good(y.pod).error = "none" /\ Good(y.pod).pod = y.pod
    BY DEF Good
  <2>2. OTLPReinvoke(q, fail) = Good(y.pod)
    BY Zenon DEF OTLPReinvoke
  <2> HIDE DEF x, y
  <2> QED
    BY <2>1, <2>2, Zenon DEF OTLPHandle, Then, x, y
<1>4. r \in Pod /\ SameBut(y.pod, r, {"annotation"}) /\ Annotated(y.pod, r, "otlp", "true")
  <2> HIDE DEF y
  <2> QED
    BY <1>2, SetOTLP
<1> HIDE DEF x, y, r
<1>5. /\ Exported(q, r) /\ r.mounts = x.pod.mounts /\ r.volumes = x.pod.volumes
      /\ Annotated(q, r, "otlp", "true")
  BY <1>1, <1>2, <1>4 DEF Exported, SameBut, Annotated
<1>6. ASSUME x.error = "none" \/ n + 1 = MaxCalls PROVE CertsHaveVolume(r, n + 1)
  BY <1>1, <1>5, <1>6 DEF CertsHaveVolume
<1>7. CASE ~Enabled("otlp")
  <2>1. OTLPHandle(q, fail).pod = q
    BY <1>3, <1>7 DEF Good
  <2> QED
    BY <2>1 DEF Exported, SameBut
<1>8. CASE Enabled("otlp") /\ Missing(OTLPSecrets, fail)
  <2> DEFINE d == Set(q, "otlp", "false")
  <2>1. OTLPHandle(q, fail).pod = d
    BY <1>3, <1>8 DEF Good
  <2>2. d \in Pod /\ SameBut(q, d, {"annotation"}) /\ Annotated(q, d, "otlp", "false")
    BY SetOTLP
  <2> HIDE DEF d
  <2>3. Exported(q, d) /\ CertsHaveVolume(d, n + 1)
    BY <2>2 DEF Exported, SameBut, CertsHaveVolume
  <2> QED
    BY <2>1, <2>2, <2>3 DEF Annotated
<1>9. CASE Enabled("otlp") /\ ~Missing(OTLPSecrets, fail)
  <2>1. OTLPHandle(q, fail) = Good(r) /\ (x.error = "none" \/ n + 1 = MaxCalls)
    <3>1. CASE q.annotation["otlp"] = "true"
      <4>1. n + 1 = MaxCalls
        BY <3>1 DEF MaxCalls
      <4>2. OTLPHandle(q, fail) = Good(r)
        BY <1>3, <1>9, <3>1, Zenon
      <4> QED
        BY <4>1, <4>2
    <3>2. CASE q.annotation["otlp"] # "true"
      <4>1. OTLPHandle(q, fail) = IF x.error # "none" THEN x ELSE IF y.error # "none" THEN y ELSE Good(r)
        BY <1>3, <1>9, <3>2
      <4>2. x.error = "none" /\ y.error = "none"
        BY <4>1
      <4> QED
        BY <4>1, <4>2
    <3> QED
      BY <3>1, <3>2
  <2>2. OTLPHandle(q, fail).pod = r
    BY <2>1 DEF Good
  <2> QED
    BY <1>5, <1>6, <2>1, <2>2 DEF Annotated
<1> QED
  BY <1>7, <1>8, <1>9

LEMMA OTLPKeeps ==
    ASSUME NEW p \in Pod, NEW q, NEW r, NEW n \in 0..1, NEW fail, Left(p, q, n, fail),
           Exported(q, r), CertsHaveVolume(r, n + 1),
           \A a \in Annotation \ {"otlp"} : r.annotation[a] = q.annotation[a],
           r.annotation["otlp"] = "unset" => q.annotation["otlp"] = "unset" /\ r.env = q.env
    PROVE  Left(p, r, n, fail)
<1>1. /\ r \in Pod /\ r.containers = q.containers /\ r.init = q.init /\ r.arguments = q.arguments
      /\ \A v \in {"bin", "input", "config"} : r.volumes[v] = q.volumes[v]
  BY DEF Exported, SameBut, Volume
<1>2. \A c \in Container : \A m \in ConfigMount \cup {"bin", "preload"} : m \in r.mounts[c] <=> m \in q.mounts[c]
  BY DEF Exported, ConfigMount
<1>3. \A a \in {"dynatrace", "oneagent", "metadata", "volume"} : r.annotation[a] = q.annotation[a]
  BY DEF Annotation
<1>4. Sound(q, n + 1)
  BY DEF Left
<1>5. NeedsInit(r)
  <2>1. \A c \in Container : q.mounts[c] \subseteq {"otlpCerts"} => r.mounts[c] \subseteq {"otlpCerts"}
    BY DEF Exported
  <2> QED
    BY <1>1, <1>4, <2>1 DEF Sound, NeedsInit
<1>6. \A c \in Container : r.mounts[c] \cap ConfigMount = q.mounts[c] \cap ConfigMount
  BY <1>2
<1>7. ToldOfMounts(r, n + 1) /\ InitHasVolumes(r)
  BY <1>1, <1>4, <1>6 DEF Sound, ToldOfMounts, InitHasVolumes
<1>8. AnnotationsTell(r)
  BY <1>1, <1>2, <1>3, <1>4 DEF Sound, AnnotationsTell, Conflicts
<1>9. Denies(r) <=> Denies(q)
  BY <1>3 DEF Denies
<1>10. \A c : c \in Container => (IsConfigured(r, c) <=> IsConfigured(q, c))
  BY <1>2 DEF IsConfigured, ConfigMount
<1>11. ConfiguredAsNow(q) => ConfiguredAsNow(r)
  BY <1>1, <1>2, <1>10 DEF ConfiguredAsNow
<1>12. InjectedAsNow(q) => InjectedAsNow(r)
  BY <1>1, <1>3 DEF InjectedAsNow
<1>13. AllInjected(q, p.containers) => AllInjected(r, p.containers)
  BY <1>1, <1>2, <1>3, FieldTypes DEF AllInjected
<1> QED
  BY <1>1, <1>3, <1>5, <1>7, <1>8, <1>9, <1>11, <1>12, <1>13 DEF Left, Sound
-----------------------------------------------------------------------------
(***************************************************************************)
(* A call: both handlers, and what an error leaves.                        *)
(***************************************************************************)

LEMMA HandleSteps ==
    ASSUME NEW p, NEW fail
    PROVE  LET i == InjectionHandle(p, fail)
               o == OTLPHandle(i.pod, fail)
               r == Handle(p, fail)
           IN  /\ i.error # "none" => r = i
               /\ i.error = "none" /\ o.error # "none" => r = o
               /\ i.error = "none" /\ o.error = "none" =>
                     r = Good(o.pod) \/ r = Error(o.pod, "dynatrace")
<1> DEFINE i == InjectionHandle(p, fail)
           o == OTLPHandle(i.pod, fail)
<1>1. Handle(p, fail) = LET x == IF i.error = "none" THEN o ELSE i
                        IN  IF x.error = "none" THEN ApplyJSONAnnotation(p, x.pod, fail) ELSE x
  BY Zenon DEF Handle, Then
<1>2. ApplyJSONAnnotation(p, o.pod, fail) \in {Good(o.pod), Error(o.pod, "dynatrace")}
  BY Zenon DEF ApplyJSONAnnotation
<1> HIDE DEF i, o
<1>3. CASE i.error # "none"
  BY <1>1, <1>3, Zenon DEF i
<1>4. CASE i.error = "none"
  BY <1>1, <1>2, <1>4 DEF i, o
<1> QED
  BY <1>3, <1>4

LEMMA Handled ==
    ASSUME NEW p \in Pod, NEW n \in 0..1, NEW fail, Ready(p, n), Handle(p, fail).error = "none"
    PROVE  Left(p, Handle(p, fail).pod, n, fail)
<1> DEFINE i == InjectionHandle(p, fail)
           q == i.pod
           o == OTLPHandle(q, fail)
<1>1. i.error = "none" /\ o.error = "none"
  BY HandleSteps
<1>2. Handle(p, fail).pod = o.pod
  BY <1>1, HandleSteps DEF Good, Error
<1>3. Left(p, q, n, fail) /\ q.annotation["otlp"] = p.annotation["otlp"]
  BY <1>1, InjectionHandled
<1>4. q \in Pod /\ CertsHaveVolume(q, n + 1)
  BY <1>3 DEF Left, Sound
<1>5. n = 0 => q.annotation["otlp"] # "true"
  BY <1>3 DEF Ready, Annotation
<1> HIDE DEF q
<1>6. /\ Exported(q, o.pod) /\ CertsHaveVolume(o.pod, n + 1)
      /\ \A a \in Annotation \ {"otlp"} : o.pod.annotation[a] = q.annotation[a]
      /\ o.pod.annotation["otlp"] = "unset" => q.annotation["otlp"] = "unset" /\ o.pod.env = q.env
  BY <1>1, <1>4, <1>5, OTLP
<1> HIDE DEF o
<1> QED
  BY <1>2, <1>3, <1>6, OTLPKeeps

\* which errors there are, and when
LEMMA MutationErrors ==
    ASSUME NEW p \in Pod, \A c \in Container : p.arguments[c] \in 0..1, NEW fail,
           Enabled("oneagent") \/ Enabled("metadata")
    PROVE  LET e == HandlePodMutation(p, fail).error
           IN  /\ e \in {"none", "metadata", "oneagent", "volume"}
               /\ e = "volume" => Conflicts(p, "input") \/ Conflicts(p, "config")
<1> DEFINE t == Told(p)
           a == MutateOneAgent(t)
           i(q) == AddInitContainer(q)
           f(q) == IF i(q).error = "none" THEN Good(Set(i(q).pod, "dynatrace", "true")) ELSE i(q)
<1>1. CASE OwnerLookupFails("metadata", fail)
  <2>1. MutateMetadata(p, fail).error = "metadata"
    BY <1>1 DEF MutateMetadata, Error
  <2>2. HandlePodMutation(p, fail) = MutateMetadata(p, fail)
    BY <2>1, Zenon DEF HandlePodMutation, Then
  <2> QED
    BY <2>1, <2>2
<1>2. CASE ~OwnerLookupFails("metadata", fail)
  <2>1. MutateMetadata(p, fail) = Good(t)
    BY <1>2, Zenon DEF MutateMetadata, Told
  <2>2. MutateMetadata(p, fail).error = "none" /\ MutateMetadata(p, fail).pod = t
    BY <2>1 DEF Good
  <2>3. HandlePodMutation(p, fail) =
          IF Enabled("oneagent") THEN (IF a.error = "none" THEN f(a.pod) ELSE a) ELSE f(t)
    BY <2>2, Zenon DEF HandlePodMutation, Then
  <2>4. a = Error(t, "oneagent") \/ a = Good(WithAgent(t))
    BY Zenon DEF MutateOneAgent, WithAgent
  <2>5. ASSUME NEW q
        PROVE  /\ f(q).error \in {"none", "volume"}
               /\ f(q).error = "volume" => Conflicts(q, "input") \/ Conflicts(q, "config")
    <3>1. (Conflicts(q, "input") \/ Conflicts(q, "config")) => i(q) = Error(q, "volume")
      BY Zenon DEF AddInitContainer
    <3>2. ~(Conflicts(q, "input") \/ Conflicts(q, "config")) => i(q) = Good(WithInit(q))
      BY Zenon DEF AddInitContainer, WithInit
    <3>3. i(q).error \in {"none", "volume"} /\ (i(q).error = "volume" => Conflicts(q, "input") \/ Conflicts(q, "config"))
      BY <3>1, <3>2 DEF Error, Good
    <3>4. CASE i(q).error = "none"
      <4>1. f(q) = Good(Set(i(q).pod, "dynatrace", "true"))
        BY <3>4, Zenon
      <4> QED
        BY <4>1 DEF Good
    <3>5. CASE i(q).error # "none"
      BY <3>3, <3>5, Zenon
    <3> QED
      BY <3>4, <3>5
  <2>6. t \in Pod /\ t.volumes = p.volumes
    BY ToldFacts DEF SameBut
  <2> HIDE DEF t
  <2>7. BecomeOurs(p.volumes, WithAgent(t).volumes, {"bin"})
    BY <2>6, WithAgentFacts
  <2>8. \A v \in {"input", "config"} : (Conflicts(t, v) <=> Conflicts(p, v)) /\ (Conflicts(WithAgent(t), v) <=> Conflicts(p, v))
    BY <2>6, <2>7 DEF Conflicts, BecomeOurs, Volume
  <2> HIDE DEF f, a
  <2>9. CASE Enabled("oneagent")
    <3>1. CASE a = Error(t, "oneagent")
      <4>1. a.error = "oneagent"
        BY <3>1 DEF Error
      <4>2. HandlePodMutation(p, fail) = a
        BY <2>3, <2>9, <4>1
      <4> QED
        BY <4>1, <4>2
    <3>2. CASE a = Good(WithAgent(t))
      <4>1. a.error = "none" /\ a.pod = WithAgent(t)
        BY <3>2 DEF Good
      <4>2. HandlePodMutation(p, fail) = f(WithAgent(t))
        BY <2>3, <2>9, <4>1
      <4> QED
        BY <2>5, <2>8, <4>2
    <3> QED
      BY <2>4, <3>1, <3>2
  <2>10. CASE ~Enabled("oneagent")
    <3>1. HandlePodMutation(p, fail) = f(t)
      BY <2>3, <2>10
    <3> QED
      BY <2>5, <2>8, <3>1
  <2> QED
    BY <2>9, <2>10
<1> QED
  BY <1>1, <1>2

LEMMA InjectionErrors ==
    ASSUME NEW p \in Pod, NEW n \in 0..1, NEW fail, Ready(p, n)
    PROVE  LET e == InjectionHandle(p, fail).error
           IN  /\ e \in {"none", "metadata", "oneagent", "volume"}
               /\ e # "none" => p.init = {}
               /\ e = "volume" => Conflicts(p, "input") \/ Conflicts(p, "config")
<1>1. CASE PreparesInit /\ ~Missing(InitSecrets, fail) /\ p.init = {} /\ (Enabled("oneagent") \/ Enabled("metadata"))
  <2>1. \A c \in Container : p.arguments[c] \in 0..1
    BY <1>1, NothingToldYet DEF Ready
  <2>2. InjectionHandle(p, fail) = HandlePodMutation(p, fail)
    BY <1>1 DEF InjectionHandle
  <2> QED
    BY <1>1, <2>1, <2>2, MutationErrors
<1>2. CASE ~(PreparesInit /\ ~Missing(InitSecrets, fail) /\ p.init = {} /\ (Enabled("oneagent") \/ Enabled("metadata")))
  BY <1>2 DEF InjectionHandle, HandlePodMutation, Good
<1> QED
  BY <1>1, <1>2

LEMMA OTLPErrors ==
    ASSUME NEW q, NEW fail
    PROVE  OTLPHandle(q, fail).error \in {"none", "otlp"}
<1> DEFINE x == MutateExporter(q)
           y == MutateAttributes(x.pod, fail)
           r == Set(y.pod, "otlp", "true")
<1>1. OTLPHandle(q, fail) \in {Good(q), Good(Set(q, "otlp", "false")), Good(r), x, y}
  <2>1. Good(y.pod).error = "none" /\ Good(y.pod).pod = y.pod
    BY DEF Good
  <2>2. OTLPReinvoke(q, fail) = Good(y.pod)
    BY Zenon DEF OTLPReinvoke
  <2> HIDE DEF x, y
  <2>3. OTLPHandle(q, fail) =
          IF ~Enabled("otlp") THEN Good(q)
          ELSE IF Missing(OTLPSecrets, fail) THEN Good(Set(q, "otlp", "false"))
          ELSE IF q.annotation["otlp"] = "true" THEN Good(r)
          ELSE IF x.error # "none" THEN x ELSE IF y.error # "none" THEN y ELSE Good(r)
    BY <2>1, <2>2, Zenon DEF OTLPHandle, Then, x, y
  <2> HIDE DEF r
  <2> QED
    BY <2>3
<1>2. x.error \in {"none", "otlp"}
  BY DEF MutateExporter, Good, Error
<1>3. y.error \in {"none", "otlp"}
  <2> HIDE DEF x
  <2> QED
    BY DEF MutateAttributes, Good, Error
<1> HIDE DEF x, y, r
<1>4. Good(q).error = "none" /\ Good(Set(q, "otlp", "false")).error = "none" /\ Good(r).error = "none"
  BY DEF Good
<1> QED
  BY <1>1, <1>2, <1>3, <1>4

LEMMA HandleErrors ==
    ASSUME NEW p \in Pod, NEW n \in 0..1, NEW fail, Ready(p, n), Handle(p, fail).error # "none"
    PROVE  LET e == Handle(p, fail).error
           IN  /\ e \in Annotation
               /\ e = "oneagent" => p.init = {}
               /\ e = "volume" => Conflicts(p, "input") \/ Conflicts(p, "config")
<1> DEFINE i == InjectionHandle(p, fail)
           o == OTLPHandle(i.pod, fail)
<1>1. /\ i.error \in {"none", "metadata", "oneagent", "volume"}
      /\ i.error # "none" => p.init = {}
      /\ i.error = "volume" => Conflicts(p, "input") \/ Conflicts(p, "config")
  BY InjectionErrors
<1>2. o.error \in {"none", "otlp"}
  BY OTLPErrors
<1>3. /\ i.error # "none" => Handle(p, fail) = i
      /\ i.error = "none" /\ o.error # "none" => Handle(p, fail) = o
      /\ i.error = "none" /\ o.error = "none" => Handle(p, fail).error = "dynatrace"
  BY HandleSteps DEF Good, Error
<1> HIDE DEF i, o
<1> QED
  BY <1>1, <1>2, <1>3 DEF Annotation

\* the pod of the request, with an annotation
LEMMA Undone ==
    ASSUME NEW p \in Pod, NEW n \in 0..1, NEW fail, Ready(p, n), Handle(p, fail).error # "none"
    PROVE  LET r == Undo(p, Handle(p, fail))
           IN  /\ r \in Pod /\ r.init = p.init /\ Sound(r, n + 1)
               /\ ~edited => ConfiguredAsNow(r)
               /\ r.annotation["dynatrace"] = "true" => p.init # {}
<1> DEFINE e == Handle(p, fail).error
           r == Set(p, e, "false")
<1>1. /\ e \in Annotation
      /\ e = "oneagent" => p.init = {}
      /\ e = "volume" => Conflicts(p, "input") \/ Conflicts(p, "config")
  BY HandleErrors
<1>2. Undo(p, Handle(p, fail)) = r
  BY Zenon DEF Undo
<1> HIDE DEF e
<1>3. r \in Pod /\ SameBut(p, r, {"annotation"}) /\ Annotated(p, r, e, "false")
  BY <1>1, SetAnnotation DEF Annotated
<1> HIDE DEF r
<1>4. /\ r.containers = p.containers /\ r.mounts = p.mounts /\ r.env = p.env /\ r.init = p.init
      /\ r.arguments = p.arguments /\ r.volumes = p.volumes
  BY <1>3 DEF SameBut
<1>5. \A a \in Annotation : r.annotation[a] = p.annotation[a] \/ (a = e /\ r.annotation[a] = "false")
  BY <1>3 DEF Annotated
<1>6. Sound(p, n + 1)
  BY SoundLater DEF Ready
<1>7. AnnotationsTell(r)
  <2>1. r.annotation["otlp"] = "unset" => \A c \in Container : r.env[c] \subseteq {"oneagent"}
    BY <1>4, <1>5, <1>6 DEF Sound, AnnotationsTell, Annotation
  <2>2. r.annotation["volume"] = "false" => Conflicts(r, "input") \/ Conflicts(r, "config")
    BY <1>1, <1>4, <1>5, <1>6 DEF Sound, AnnotationsTell, Annotation, Conflicts
  <2>3. r.annotation["dynatrace"] = "true" \/ r.annotation["oneagent"] = "true" => r.init # {}
    BY <1>4, <1>5, <1>6 DEF Sound, AnnotationsTell, Annotation
  <2>4. r.annotation["oneagent"] = "false" => "bin" \notin r.init /\ \A c \in Container : "bin" \notin r.mounts[c]
    BY <1>1, <1>4, <1>5, <1>6 DEF Sound, AnnotationsTell, NeedsInit, Annotation
  <2> QED
    BY <2>1, <2>2, <2>3, <2>4 DEF AnnotationsTell
<1>8. Sound(r, n + 1)
  BY <1>4, <1>6, <1>7 DEF Sound, NeedsInit, ToldOfMounts, InitHasVolumes, CertsHaveVolume
<1>9. ~edited => ConfiguredAsNow(r)
  BY <1>4 DEF Ready, ConfiguredAsNow, IsConfigured
<1>10. r.annotation["dynatrace"] = "true" => p.init # {}
  BY <1>4, <1>7 DEF AnnotationsTell
<1> QED
  BY <1>2, <1>3, <1>4, <1>8, <1>9, <1>10
-----------------------------------------------------------------------------
(***************************************************************************)
(* The invariant is inductive.                                             *)
(***************************************************************************)

\* what a later state says of the pod, if neither the DynaKube nor the creator's wishes changed
LEMMA SameDynaKube ==
    ASSUME dk' = dk, user' = user
    PROVE  /\ ConfiguredAsNow(pod)' <=> ConfiguredAsNow(pod')
           /\ InjectedAsNow(pod)' <=> InjectedAsNow(pod')
           /\ AllInjected(pod, seen)' <=> AllInjected(pod', seen')
BY DEF ConfiguredAsNow, InjectedAsNow, AllInjected, IsConfigured, IsSplitMountsEnabled, PreparesInit, Enabled

LEMMA MutationInvInit == MutationInit => MutationInv
<1> SUFFICES ASSUME MutationInit PROVE MutationInv
  OBVIOUS
<1>1. user \in UserPod /\ dk \in InjectionSettings /\ dk \in DynaKubes
  BY ObjectsAssumption DEF MutationInit
<1>2. /\ pod.containers = user.containers /\ pod.init = {} /\ Untouched(pod)
      /\ \A c \in Container : pod.arguments[c] = 0
  BY Zenon DEF MutationInit, NewPod, Untouched
<1>3. pod \in Pod
  <2>1. user.containers \subseteq Container
    BY <1>1 DEF UserPod
  <2>2. [v \in Volume |-> IF v \in user.foreign THEN "foreign" ELSE "none"] \in [Volume -> {"none", "ours", "foreign"}]
    OBVIOUS
  <2>3. [c \in Container |-> 0] \in [Container -> 0..MaxCalls]
    BY DEF MaxCalls
  <2>4. [a \in Annotation |-> "unset"] \in [Annotation -> {"unset", "true", "false"}]
    OBVIOUS
  <2> QED
    BY <2>1, <2>2, <2>3, <2>4 DEF MutationInit, NewPod, Pod
<1>4. MutationTypeOK
  <2>1. {changed, edited, lost} \subseteq BOOLEAN
    BY Zenon DEF MutationInit
  <2>2. calls \in 0..MaxCalls /\ changes \in 0..MaxChanges
    BY ChangesAssumption DEF MutationInit, MaxCalls
  <2> QED
    BY <1>1, <1>3, <2>1, <2>2 DEF MutationTypeOK, MutationInit
<1>5. MutatedInv
  BY <1>2
  DEF MutatedInv, Sound, NeedsInit, ToldOfMounts, InitHasVolumes, CertsHaveVolume, AnnotationsTell, Annotation,
      MutationInit,
              Untouched
<1>6. CallsInv
  <2>1. ~Denies(pod)
    BY <1>2 DEF Denies, Untouched, Annotation
  <2>2. ConfiguredAsNow(pod)
    BY <1>2 DEF ConfiguredAsNow, Untouched
  <2>3. pod.annotation["dynatrace"] # "true"
    BY <1>2 DEF Untouched, Annotation
  <2> QED
    BY <1>2, <2>1, <2>2, <2>3 DEF CallsInv, MutationInit, MaxCalls
<1> QED
  BY <1>1, <1>4, <1>5, <1>6 DEF MutationInv

LEMMA CallIsReady ==
    ASSUME MutationInv, calls < MaxCalls
    PROVE  calls \in 0..1 /\ pod \in Pod /\ Ready(pod, calls)
<1>1. calls \in 0..1 /\ pod \in Pod /\ Sound(pod, calls)
  BY DEF MutationInv, MutationTypeOK, MutatedInv, MaxCalls
<1>2. CASE calls = 0
  BY <1>1, <1>2 DEF MutationInv, CallsInv, Ready, Untouched, InjectedAsNow
<1>3. CASE calls = 1
  BY <1>1, <1>3 DEF MutationInv, CallsInv, Ready
<1> QED
  BY <1>1, <1>2, <1>3

LEMMA CopiesAreSecrets ==
    ASSUME NEW p, NEW fail
    PROVE  Replicated(p, fail) \subseteq Secret
BY DEF Replicated, Found, InitSecrets, OTLPSecrets, Secret

LEMMA SkipInv == ASSUME MutationInv, NEW fail, Call(fail), Skip(fail) PROVE MutatedInv' /\ CallsInv' /\ pod' \in Pod
<1>1. calls \in 0..1 /\ calls < MaxCalls /\ calls' = calls + 1 /\ pod \in Pod
  BY DEF MutationInv, MutationTypeOK, Call, MaxCalls
<1>2. /\ pod' = pod /\ lost' = lost /\ seen' = seen /\ dk' = dk /\ user' = user /\ edited' = edited
  BY DEF Call, Skip
<1>3. Ready(pod, calls) /\ Sound(pod, calls + 1)
  BY <1>1, CallIsReady, SoundLater DEF Ready
<1>4. MutatedInv'
  BY <1>1, <1>2, <1>3 DEF MutatedInv
<1>5. calls' = 1 => pod.init = {} /\ ~lost
  BY <1>1 DEF MutationInv, CallsInv, Untouched
<1>6. CallsInv'
  <2>1. ConfiguredAsNow(pod)' <=> ConfiguredAsNow(pod)
    BY <1>2, SameDynaKube
  <2>2. InjectedAsNow(pod)' <=> InjectedAsNow(pod)
    BY <1>2, SameDynaKube
  <2>3. AllInjected(pod, seen)' <=> AllInjected(pod, seen)
    BY <1>2, SameDynaKube
  <2>4. calls' = 1 => InjectedAsNow(pod)
    BY <1>5 DEF InjectedAsNow
  <2> QED
    BY <1>1, <1>2, <1>5, <2>1, <2>2, <2>3, <2>4 DEF MutationInv, CallsInv, MaxCalls, Denies
<1> QED
  BY <1>1, <1>2, <1>4, <1>6

LEMMA MutateInv == ASSUME MutationInv, NEW fail, Call(fail), Mutate(fail) PROVE MutatedInv' /\ CallsInv' /\ pod' \in Pod
<1> DEFINE result == Handle(pod, fail)
<1>1. /\ calls \in 0..1 /\ calls < MaxCalls /\ calls' = calls + 1 /\ calls' # 0 /\ (calls' < MaxCalls => calls = 0)
      /\ (calls' = 1 <=> calls = 0)
  BY DEF MutationInv, MutationTypeOK, Call, MaxCalls
<1>2. dk' = dk /\ user' = user /\ edited' = edited
  BY DEF Call
<1>3. pod \in Pod /\ Ready(pod, calls)
  BY <1>1, CallIsReady
<1>4. (lost \/ (pod.init # {} /\ (Missing(InitSecrets, fail) \/ result.error # "none"))) <=> lost'
  BY Zenon DEF Mutate
<1>5. calls = 0 => pod.init = {} /\ ~lost
  BY DEF MutationInv, CallsInv, Untouched, MaxCalls
<1>6. /\ ConfiguredAsNow(pod)' <=> ConfiguredAsNow(pod')
      /\ InjectedAsNow(pod)' <=> InjectedAsNow(pod')
      /\ AllInjected(pod, seen)' <=> AllInjected(pod', seen')
  BY <1>2, SameDynaKube
<1>7. CASE result.error = "none"
  <2>1. pod' = result.pod /\ seen' = pod.containers
    BY <1>7 DEF Mutate
  <2>2. Left(pod, pod', calls, fail)
    BY <1>1, <1>3, <1>7, <2>1, Handled
  <2>3. MutatedInv'
    BY <1>1, <2>2 DEF Left, MutatedInv
  <2>4. CallsInv'
    BY <1>1, <1>2, <1>4, <1>5, <1>6, <2>1, <2>2 DEF Left, CallsInv, Denies, MaxCalls
  <2> QED
    BY <2>2, <2>3, <2>4 DEF Left
<1>8. CASE result.error # "none"
  <2>1. pod' = Undo(pod, result) /\ seen' = seen
    BY <1>8 DEF Mutate
  <2>2. /\ pod' \in Pod /\ pod'.init = pod.init /\ Sound(pod', calls + 1)
        /\ ~edited => ConfiguredAsNow(pod')
        /\ pod'.annotation["dynatrace"] = "true" => pod.init # {}
    BY <1>1, <1>3, <1>8, <2>1, Undone
  <2>3. MutatedInv'
    BY <1>1, <2>2 DEF MutatedInv
  <2>4. calls' = 1 => InjectedAsNow(pod')
    BY <1>1, <1>5, <2>2 DEF InjectedAsNow
  <2>5. CallsInv'
    BY <1>1, <1>2, <1>4, <1>5, <1>6, <1>8, <2>2, <2>4 DEF CallsInv, MaxCalls
  <2> QED
    BY <2>2, <2>3, <2>5
<1> QED
  BY <1>7, <1>8

LEMMA InvNext == MutationInv /\ [MutationNext]_mutationVars => MutationInv'
<1> SUFFICES ASSUME MutationInv, [MutationNext]_mutationVars PROVE MutationInv'
  OBVIOUS
<1>0. MutationTypeOK /\ dk \in DynaKubes /\ MutatedInv /\ CallsInv
  BY DEF MutationInv
<1>1. ASSUME NEW fail \in Failure, Call(fail) PROVE MutationInv'
  <2>1. MutatedInv' /\ CallsInv' /\ pod' \in Pod
    BY <1>1, SkipInv, MutateInv DEF Call
  <2>2. calls' \in 0..MaxCalls /\ changed' = FALSE
    BY <1>0, <1>1 DEF Call, MutationTypeOK, MaxCalls
  <2>3. dk' = dk /\ user' = user /\ source' = source /\ changes' = changes /\ edited' = edited
    BY <1>1 DEF Call
  <2>4. /\ copies' = copies \/ copies' = copies \cup Replicated(pod, fail)
        /\ outcome' \in {"skipped", "done", "undone"}
        /\ seen' = seen \/ seen' = pod.containers
    BY <1>1 DEF Call, Skip, Mutate
  <2>5. lost' \in BOOLEAN
    <3>1. lost' = lost \/ lost' = (lost \/ (pod.init # {} /\ (Missing(InitSecrets, fail) \/ Handle(pod, fail).error # "none")))
      BY <1>1, Zenon DEF Call, Skip, Mutate
    <3>2. lost \in BOOLEAN
      BY <1>0, Zenon DEF MutationTypeOK
    <3> QED
      BY <3>1, <3>2, Zenon
  <2>6. pod.containers \subseteq Container
    BY <1>0, FieldTypes DEF MutationTypeOK
  <2>7. source' \cup copies' \subseteq Secret
    BY <1>0, <2>3, <2>4, CopiesAreSecrets DEF MutationTypeOK
  <2>8. {changed', edited', lost'} \subseteq BOOLEAN
    BY <1>0, <2>2, <2>3, <2>5, Zenon DEF MutationTypeOK
  <2>9. MutationTypeOK'
    BY <1>0, <2>1, <2>2, <2>3, <2>4, <2>6, <2>7, <2>8 DEF MutationTypeOK
  <2> QED
    BY <1>0, <2>1, <2>3, <2>9 DEF MutationInv
<1>2. ASSUME NEW c \in Container, AddContainer(c) PROVE MutationInv'
  <2>1. pod' \in Pod /\ SameBut(pod, pod', {"containers"})
    <3>1. pod.containers \cup {c} \in SUBSET Container /\ pod \in Pod
      BY <1>0, FieldTypes DEF MutationTypeOK
    <3>2. pod' = [pod EXCEPT !.containers = pod.containers \cup {c}]
      BY <1>2, Zenon DEF AddContainer
    <3> QED
      BY <3>1, <3>2, SetContainers
  <2>2. /\ pod'.mounts = pod.mounts /\ pod'.env = pod.env /\ pod'.init = pod.init
        /\ pod'.arguments = pod.arguments /\ pod'.volumes = pod.volumes /\ pod'.annotation = pod.annotation
    BY <2>1 DEF SameBut
  <2>3. /\ dk' = dk /\ user' = user /\ calls' = calls /\ edited' = edited /\ lost' = lost /\ seen' = seen
        /\ source' = source /\ copies' = copies /\ outcome' = outcome /\ changes' = changes /\ changed' = TRUE
    BY <1>2 DEF AddContainer
  <2>4. MutatedInv'
    BY <1>0, <2>2, <2>3
    DEF MutatedInv, Sound, NeedsInit, ToldOfMounts, InitHasVolumes, CertsHaveVolume, AnnotationsTell,
                            Conflicts
  <2>5. /\ ConfiguredAsNow(pod)' <=> ConfiguredAsNow(pod)
        /\ InjectedAsNow(pod)' <=> InjectedAsNow(pod)
        /\ AllInjected(pod, seen)' <=> AllInjected(pod, seen)
        /\ Denies(pod)' <=> Denies(pod)
        /\ Untouched(pod)' <=> Untouched(pod)
    BY <2>2, <2>3 DEF ConfiguredAsNow, InjectedAsNow, AllInjected, Denies, Untouched, IsConfigured,
                      IsSplitMountsEnabled, PreparesInit, Enabled
  <2>6. CallsInv'
    BY <1>0, <2>2, <2>3, <2>5 DEF CallsInv
  <2>7. {changed', edited', lost'} \subseteq BOOLEAN
    BY <1>0, <2>3, Zenon DEF MutationTypeOK
  <2>8. MutationTypeOK'
    BY <1>0, <2>1, <2>3, <2>7 DEF MutationTypeOK
  <2> QED
    BY <1>0, <2>3, <2>4, <2>6, <2>8 DEF MutationInv
<1>3. ASSUME dk' = dk, user' = user, pod' = pod, calls' = calls, edited' = edited, lost' = lost, seen' = seen
      PROVE  MutatedInv' /\ CallsInv'
  BY <1>0, <1>3
  DEF MutatedInv, CallsInv, ConfiguredAsNow, InjectedAsNow, AllInjected, Denies, Untouched, IsConfigured,
                    IsSplitMountsEnabled, PreparesInit, Enabled
<1>4. CASE Admit
  <2>1. MutatedInv' /\ CallsInv'
    BY <1>3, <1>4 DEF Admit
  <2>2. {changed', edited', lost'} \subseteq BOOLEAN
    BY <1>0, <1>4, Zenon DEF MutationTypeOK, Admit
  <2> QED
    BY <1>0, <1>4, <2>1, <2>2 DEF MutationInv, MutationTypeOK, Admit
<1>5. CASE EditDynaKube
  <2>1. /\ dk' \in DynaKubes /\ user' = user /\ pod' = pod /\ calls' = calls /\ lost' = lost /\ seen' = seen
        /\ source' = source /\ copies' = copies /\ outcome' = outcome /\ changed' = changed
        /\ changes' = changes + 1 /\ changes < MaxChanges
    BY <1>5 DEF EditDynaKube, MayChange
  <2>2. (calls = 0 => edited' = FALSE) /\ (calls # 0 => edited' = TRUE)
    <3>1. edited' = (calls > 0)
      BY <1>5, Zenon DEF EditDynaKube
    <3>2. (calls = 0 => (calls > 0) = FALSE) /\ (calls # 0 => (calls > 0) = TRUE)
      BY <1>0 DEF MutationTypeOK, MaxCalls
    <3> QED
      BY <3>1, <3>2, Zenon
  <2>3. dk' \in InjectionSettings /\ changes' \in 0..MaxChanges
    BY <1>0, <2>1, ObjectsAssumption, ChangesAssumption DEF MutationTypeOK
  <2>4. MutatedInv'
    BY <1>0, <2>1 DEF MutatedInv
  <2>5. CallsInv'
    <3>1. CASE calls = 0
      <4>1. ~edited' /\ ~lost' /\ calls' = 0 /\ Untouched(pod')
        BY <1>0, <2>1, <2>2, <3>1 DEF CallsInv, MaxCalls
      <4>2. ConfiguredAsNow(pod)' /\ pod'.annotation["dynatrace"] # "true" /\ ~Denies(pod')
        BY <1>0, <2>1, <3>1, <4>1, FieldTypes
           DEF ConfiguredAsNow, Untouched, Annotation, Denies, MutatedInv, Sound, ToldOfMounts, MutationTypeOK
      <4> QED
        BY <2>1, <4>1, <4>2 DEF CallsInv, Untouched
    <3>2. CASE calls # 0
      <4>1. edited'
        BY <1>0, <2>2, <3>2 DEF MutationTypeOK, MaxCalls
      <4> QED
        BY <1>0, <2>1, <3>2, <4>1 DEF CallsInv, Denies
    <3> QED
      BY <3>1, <3>2
  <2>6. {changed', edited', lost'} \subseteq BOOLEAN
    <3>1. edited' \in BOOLEAN
      BY <2>2, Zenon
    <3> QED
      BY <1>0, <2>1, <3>1, Zenon DEF MutationTypeOK
  <2>7. MutationTypeOK'
    BY <1>0, <2>1, <2>3, <2>6 DEF MutationTypeOK
  <2> QED
    BY <2>1, <2>4, <2>5, <2>7 DEF MutationInv
<1>6. CASE ReconcileSecrets
  <2>1. /\ dk' = dk /\ user' = user /\ pod' = pod /\ calls' = calls /\ lost' = lost /\ seen' = seen
        /\ edited' = edited /\ outcome' = outcome /\ changed' = changed
        /\ changes' = changes + 1 /\ changes < MaxChanges
    BY <1>6 DEF ReconcileSecrets, MayChange
  <2>2. source' \cup copies' \subseteq Secret
    BY <1>0, <1>6 DEF ReconcileSecrets, MutationTypeOK, Secret
  <2>3. changes' \in 0..MaxChanges
    BY <1>0, <2>1, ChangesAssumption DEF MutationTypeOK
  <2>4. {changed', edited', lost'} \subseteq BOOLEAN
    BY <1>0, <2>1, Zenon DEF MutationTypeOK
  <2>5. MutatedInv' /\ CallsInv'
    BY <1>3, <2>1
  <2> QED
    BY <1>0, <2>1, <2>2, <2>3, <2>4, <2>5 DEF MutationInv, MutationTypeOK
<1>7. CASE UNCHANGED mutationVars
  <2>1. MutatedInv' /\ CallsInv'
    BY <1>3, <1>7 DEF mutationVars
  <2>2. {changed', edited', lost'} \subseteq BOOLEAN
    BY <1>0, <1>7, Zenon DEF MutationTypeOK, mutationVars
  <2> QED
    BY <1>0, <1>7, <2>1, <2>2 DEF MutationInv, MutationTypeOK, mutationVars
<1> QED
  BY <1>1, <1>2, <1>4, <1>5, <1>6, <1>7 DEF MutationNext

\* The invariant is inductive: what the annotations, the volumes and the arguments of the init container say of the pod
\* holds whatever fails in a call, whatever other webhooks add, and whatever changes in between.
THEOREM MutationInvariant == MutationSpec => []MutationInv
<1>1. MutationInit => MutationInv
  BY MutationInvInit
<1>2. MutationInv /\ [MutationNext]_mutationVars => MutationInv'
  BY InvNext
<1> QED
  BY <1>1, <1>2, PTL DEF MutationSpec

\* The pod, the secrets and the DynaKube stay what the API server accepts, and the init container is told of a
\* container at most once in each of the two calls.
THEOREM TypeCorrect == MutationSpec => []MutationTypeOK
<1>1. MutationInv => MutationTypeOK
  BY DEF MutationInv
<1> QED
  BY <1>1, MutationInvariant, PTL
-----------------------------------------------------------------------------
(***************************************************************************)
(* What follows from it.                                                   *)
(***************************************************************************)

\* Unless the DynaKube is edited between the calls, a container mounts no volume that the pod does not have from the
\* operator, but for certificates that the second call could not add (Handler.Handle, exporter's Mutator.mutate).
THEOREM AdmittedPodsStart == MutationSpec => []MountsHaveVolumes
<1>1. ASSUME MutationInv PROVE MountsHaveVolumes
  <2> SUFFICES ASSUME ~edited, NEW v \in Mounted(pod)
               PROVE  \/ pod.volumes[v] = "ours"
                      \/ v = "otlpCerts" /\ pod.volumes[v] = "foreign" /\ calls = MaxCalls
    BY DEF MountsHaveVolumes
  <2>1. Sound(pod, calls) /\ ConfiguredAsNow(pod) /\ pod \in Pod
    BY <1>1 DEF MutationInv, MutatedInv, CallsInv, MutationTypeOK
  <2>2. CASE v \in pod.init
    BY <2>1, <2>2 DEF Sound, InitHasVolumes
  <2>3. CASE v \notin pod.init
    <3>1. PICK c \in pod.containers : \E m : m \in pod.mounts[c] /\ v = VolumeOf(m)
      BY <2>3 DEF Mounted
    <3>2. PICK m : m \in pod.mounts[c] /\ v = VolumeOf(m)
      BY <3>1
    <3>3. c \in Container /\ m \in Mount
      BY <2>1, <3>1, <3>2, FieldTypes
    <3>4. CASE m = "bin"
      BY <2>1, <3>2, <3>3, <3>4 DEF ConfiguredAsNow, VolumeOf
    <3>5. CASE m = "otlpCerts"
      BY <2>1, <3>2, <3>3, <3>5 DEF Sound, CertsHaveVolume, VolumeOf
    <3>6. CASE m \notin {"bin", "otlpCerts"}
      <4>1. v = "config"
        BY <3>2, <3>6 DEF VolumeOf
      <4>2. pod.init # {}
        BY <2>1, <3>2, <3>3, <3>6 DEF Sound, NeedsInit
      <4> QED
        BY <2>1, <4>1, <4>2 DEF Sound, InitHasVolumes
    <3> QED
      BY <3>4, <3>5, <3>6
  <2> QED
    BY <2>2, <2>3
<1> QED
  BY <1>1, MutationInvariant, PTL

\* Each container whose configuration is mounted is an argument of the init container, in the pod as it is admitted as
\* in between, and a pod that says it is injected is so in all containers that the last call saw.
THEOREM InjectedPodsAreConfigured == MutationSpec => []ContainersAreConfigured
<1>1. ASSUME MutationInv PROVE ContainersAreConfigured
  <2>1. Sound(pod, calls) /\ CallsInv /\ pod \in Pod
    BY <1>1 DEF MutationInv, MutatedInv, MutationTypeOK
  <2>2. ASSUME NEW c \in Container
        PROVE  /\ pod.arguments[c] > 0 <=> pod.mounts[c] \cap {"config", "splitOneAgent", "splitMetadata"} # {}
               /\ pod.arguments[c] > 1 => edited
               /\ pod.arguments[c] > 0 => pod.init # {}
    <3>1. pod.arguments[c] \in 0..2
      BY <2>1, FieldTypes DEF MaxCalls
    <3>2. pod.arguments[c] > 0 <=> pod.mounts[c] \cap {"config", "splitOneAgent", "splitMetadata"} # {}
      BY <2>1 DEF Sound, ToldOfMounts, ConfigMount
    <3>3. pod.arguments[c] > 1 => edited
      BY <2>1, <3>1 DEF CallsInv, ConfiguredAsNow
    <3>4. pod.arguments[c] > 0 => pod.init # {}
      BY <2>1, <3>2 DEF Sound, NeedsInit
    <3> QED
      BY <3>2, <3>3, <3>4
  <2>3. pod.annotation["dynatrace"] = "true" /\ ~edited /\ ~lost => AllInjected(pod, seen)
    BY <2>1 DEF CallsInv
  <2> QED
    BY <2>2, <2>3 DEF ContainersAreConfigured, AllInjected
<1> QED
  BY <1>1, MutationInvariant, PTL

\* "Prevent partial modifications" (Webhook.handle): a pod that says it is not injected has nothing of the operator's,
\* unless the first call had injected it and the second one met a failure.
THEOREM RefusedPodsAreUntouched == MutationSpec => []NothingPartial
<1>1. ASSUME MutationInv PROVE NothingPartial
  <2> DEFINE Says(a) == pod.annotation[a] = "false"
             mounts == UNION {pod.mounts[c] : c \in Container}
  <2>1. Sound(pod, calls) /\ CallsInv
    BY <1>1 DEF MutationInv, MutatedInv
  <2>2. (Says("dynatrace") \/ Says("metadata") \/ Says("volume")) /\ ~lost => pod.init = {} /\ mounts \subseteq {"otlpCerts"}
    <3>1. (Says("dynatrace") \/ Says("metadata") \/ Says("volume")) /\ ~lost => pod.init = {}
      BY <2>1 DEF CallsInv, Denies
    <3> QED
      BY <2>1, <3>1 DEF Sound, NeedsInit
  <2>3. Says("oneagent") => "bin" \notin mounts \cup pod.init
    BY <2>1 DEF Sound, AnnotationsTell
  <2>4. pod.annotation["otlp"] = "unset" => \A c \in Container : pod.env[c] \subseteq {"oneagent"}
    BY <2>1 DEF Sound, AnnotationsTell
  <2> QED
    BY <2>2, <2>3, <2>4, Zenon DEF NothingPartial
<1> QED
  BY <1>1, MutationInvariant, PTL

-----------------------------------------------------------------------------
(***************************************************************************)
(* The certificates (WebhookCertificates).                                 *)
(***************************************************************************)
USE DurationAssumption, RootAssumption, WorkersAssumption, BoundAssumption DEF PollInterval

(***************************************************************************)
(* Types                                                                   *)
(***************************************************************************)

LEMMA NoCertIsNone == NoCert \notin Cert /\ \A c \in Cert : c # NoCert /\ c.root # NoRoot
  BY DEF Cert, NoCert

\* The sums of the durations are times.
LEMMA Deadlines ==
    ASSUME CertTypeOK
    PROVE  /\ now \in Nat /\ now \in Time /\ now + PollInterval \in Time
           /\ now + RequeueAfter \in Time /\ now + ServerDuration \in Time /\ now + RootDuration \in Time
  BY DEF CertTypeOK, Time

\* ValidateCerts generates a root that nobody has seen.
LEMMA FreshRootIsNew ==
    ASSUME RootId \ RootsInUse # {}
    PROVE  FreshRoot \in RootId /\ FreshRoot \notin RootsInUse
  BY DEF FreshRoot

LEMMA IdleIsWork == IdleWork \in Work /\ NoSecret \in CertSecret
  BY DEF IdleWork, Work, NoSecret, CertSecret, NoCert

LEMMA ValidateCertsType ==
    ASSUME CertTypeOK, NEW s \in CertSecret, RootId \ RootsInUse # {}, s.root.root # FreshRoot
    PROVE  ValidateCerts(s) \in CertSecret
<1>1. FreshRoot \in RootId
  BY FreshRootIsNew
<1>2. [root |-> FreshRoot, notAfter |-> now + RootDuration] \in Cert
  BY <1>1, Deadlines DEF Cert
<1>3. s.root.root \in RootId \cup {NoRoot}
  BY DEF CertSecret, Cert, NoCert
<1>4. GenerateRootCerts(s) \in CertSecret
  BY <1>2, <1>3 DEF GenerateRootCerts, CertSecret
<1> DEFINE rooted == IF Outdated(s.root, RenewalThreshold) THEN GenerateRootCerts(s) ELSE s
<1>5. rooted \in CertSecret
  BY <1>4
<1>6. rooted.root \in Cert
  BY <1>2 DEF GenerateRootCerts, Outdated, CertSecret
<1>7. GenerateServerCerts(rooted) \in CertSecret
  <2>1. [root |-> rooted.root.root, notAfter |-> now + ServerDuration] \in Cert
    BY <1>6, Deadlines DEF Cert
  <2> HIDE DEF rooted
  <2> QED BY <1>5, <2>1 DEF GenerateServerCerts, CertSecret
<1> QED BY <1>5, <1>7 DEF ValidateCerts

LEMMA CombinedBundleType ==
    ASSUME NEW s \in CertSecret
    PROVE  CombinedBundle(s) \in SUBSET RootId
  BY DEF CombinedBundle, CertSecret, Cert, NoCert

(***************************************************************************)
(* The inductive invariant.  Time stands still while a worker is at work.  *)
(***************************************************************************)

\* the objects a worker has still to write
Ahead(pc) ==
    CASE pc \in {"writeSecret", "mutating"} -> Target
      [] pc = "validating" -> Target \ {"mutating"}
      [] pc = "dynakube" -> {"dynakube", "edgeconnect"}
      [] pc = "edgeconnect" -> {"edgeconnect"}
      [] OTHER -> {}

Writing(wk) == wk.pc \in {"writeSecret"} \cup Target

\* The operator is due within the interval, and works without time passing.
DueInv ==
    /\ now <= due /\ due <= now + RequeueAfter
    /\ work["operator"].pc # "idle" => due = now
    /\ work["operator"].pc # "done"

\* What was missed before the reconcile of the operator under way is still to be written by it.
RepairInv ==
    /\ \A t \in Checked : missed[t] > 0 => missed[t] + (due - now) <= RequeueAfter + 1
    /\ \A t \in Checked : missed[t] > 1 =>
          /\ work["operator"].pc = "secret" =>
                t \notin work["operator"].absent /\ work["operator"].seen[t] = bundle[t]
          /\ Writing(work["operator"]) => t \in Ahead(work["operator"].pc) \ work["operator"].absent

Valid(s) == ~Outdated(s.root, RenewalThreshold) /\ ~Outdated(s.server, RenewalThreshold)

\* a certificate that was issued under the root by now; while it has its whole life before it, the root is not due
Issued(cert, s) ==
    /\ cert.root = s.root.root
    /\ cert.notAfter <= now + ServerDuration
    /\ cert.notAfter = now + ServerDuration => ~Outdated(s.root, RenewalThreshold)

SecretInv ==
    Exists(secret) =>
        /\ secret.root \in Cert /\ secret.server \in Cert
        /\ secret.old # secret.root.root
        /\ Issued(secret.server, secret)

\* certs is what ValidateCerts makes of read, of which the root was not known before
Renewed(read, certs) ==
    /\ ~Valid(read)
    /\ Valid(certs)
    /\ certs.root \in Cert
    /\ certs.old # certs.root.root
    /\ certs.server = [root |-> certs.root.root, notAfter |-> now + ServerDuration]
    /\ \/ certs.root = read.root /\ certs.old = read.old
       \/ /\ Outdated(read.root, RenewalThreshold)
          /\ certs.old = read.root.root
          /\ certs.root.notAfter = now + RootDuration

\* Who is about to write the secret knows the current one or will be refused; who writes bundles has the current
\* one, which then is valid, so that nobody replaces it.
WorkOK(w) ==
    /\ work[w].pc = "writeSecret" =>
          /\ \/ Valid(work[w].read) /\ work[w].certs = work[w].read
             \/ Renewed(work[w].read, work[w].certs)
          /\ work[w].certs = work[w].read \/ "secret" \notin work[w].changed => work[w].read = secret
          /\ "secret" \notin work[w].changed /\ work[w].certs.root # work[w].read.root =>
                \A t \in Target : work[w].certs.root.root \notin bundle[t]
    /\ work[w].pc \in Target => work[w].certs = secret /\ Valid(secret)
    /\ work[w].pc \in {"secret", "writeSecret"} =>
          \A t \in work[w].absent : missed[t] = 0 => Valid(secret)

WorkInv == \A w \in Workers : WorkOK(w)

\* the worker will write the bundle, or find it to be the current one
Covers(w, t) ==
    \/ work[w].pc = "retry" /\ t \in Checked
    \/ work[w].pc = "secret" /\ t \in Checked \ work[w].absent /\ work[w].seen[t] = bundle[t]
    \/ work[w].pc = "writeSecret" /\ t \in Checked \ work[w].absent
    \/ work[w].pc \in Target /\ t \in Ahead(work[w].pc) \ work[w].absent

BundleInv ==
    Exists(secret) => \A t \in Target :
        /\ secret.root.root \in bundle[t] => bundle[t] = CombinedBundle(secret)
        /\ missed[t] = 0 => bundle[t] = CombinedBundle(secret) \/ \E w \in Workers : Covers(w, t)

\* of the current root, or of the previous one and issued before that was replaced, or expired
Current(cert) ==
    \/ Issued(cert, secret)
    \/ cert.root = secret.old /\ cert.notAfter + RootDuration < secret.root.notAfter + ServerDuration
    \/ cert.notAfter < now

PodInv ==
    /\ webhookPod.writing => Exists(secret) /\ webhookPod.read \in Cert /\ webhookPod.crt = webhookPod.read /\ Current(webhookPod.read)
    /\ Serving /\ ~webhookPod.stale => Exists(secret) /\ Current(webhookPod.served)

(***************************************************************************)
(* What the operations leave in the state of the workers.                  *)
(***************************************************************************)

\* a worker that noticed at most that an object was written
Kept(v) ==
    /\ work'[v].pc = work[v].pc /\ work'[v].seen = work[v].seen /\ work'[v].absent = work[v].absent
    /\ work'[v].read = work[v].read /\ work'[v].certs = work[v].certs
    /\ work[v].changed \subseteq work'[v].changed

LEMMA TouchFields ==
    ASSUME CertTypeOK, NEW o \in Configs \cup {"secret"}
    PROVE  /\ TouchAll(o) \in [Workers -> Work]
           /\ \A v \in Workers : TouchAll(o)[v].pc = work[v].pc /\ TouchAll(o)[v].seen = work[v].seen
           /\ \A v \in Workers : TouchAll(o)[v].absent = work[v].absent /\ TouchAll(o)[v].read = work[v].read
           /\ \A v \in Workers : TouchAll(o)[v].certs = work[v].certs
           /\ \A v \in Workers : TouchAll(o)[v].changed
                                   = IF WillWrite(v, o) THEN work[v].changed \cup {o} ELSE work[v].changed
<1>1. ASSUME NEW v \in Workers
      PROVE /\ [work[v] EXCEPT !.changed = @ \cup {o}] \in Work
            /\ work[v] \in Work
  BY DEF CertTypeOK, Work
<1>2. ASSUME NEW v \in Workers
      PROVE TouchAll(o)[v] = IF WillWrite(v, o) THEN [work[v] EXCEPT !.changed = @ \cup {o}] ELSE work[v]
  BY DEF TouchAll
<1>3. TouchAll(o) \in [Workers -> Work]
  <2> HIDE DEF WillWrite
  <2> QED BY <1>1 DEF TouchAll
<1> HIDE DEF WillWrite
<1> QED BY <1>1, <1>2, <1>3 DEF Work

\* who starts
LEMMA ReadConfigurationsFields ==
    ASSUME CertTypeOK, NEW w \in Workers, ReadConfigurations(w)
    PROVE  /\ CertTypeOK'
           /\ work[w].pc \in {"idle", "retry"} /\ (w = "operator" => due <= now)
           /\ work'[w].pc = "secret" /\ work'[w].changed = {}
           /\ \A t \in Checked : work'[w].seen[t] = bundle[t]
           /\ \A t \in Target : missed'[t] = IF t \in work'[w].absent THEN 1 ELSE missed[t]
           /\ \A v \in Workers \ {w} : Kept(v) /\ work'[v] = work[v]
           /\ UNCHANGED <<now, secret, bundle, due, webhookPod>>
<1>1. PICK absent \in SUBSET Configs :
         /\ IF absent = {} THEN UNCHANGED troubles ELSE Trouble
         /\ missed' = Miss(absent)
         /\ work' = [work EXCEPT ![w] = [IdleWork EXCEPT !.pc = "secret", !.absent = absent,
                                                     !.seen = [t \in Checked |-> bundle[t]]]]
  BY DEF ReadConfigurations
<1> DEFINE wk == [IdleWork EXCEPT !.pc = "secret", !.absent = absent, !.seen = [t \in Checked |-> bundle[t]]]
<1>2. /\ wk.pc = "secret" /\ wk.changed = {} /\ wk.absent = absent
      /\ \A t \in Checked : wk.seen[t] = bundle[t]
  BY DEF IdleWork
<1>3. wk \in Work
  <2>1. [t \in Checked |-> bundle[t]] \in [Checked -> SUBSET RootId]
    BY DEF CertTypeOK, Target
  <2> QED BY <2>1, IdleIsWork DEF IdleWork, Work
<1>4. work' = [work EXCEPT ![w] = wk]
  BY <1>1
<1> HIDE DEF wk
<1>5. work' \in [Workers -> Work] /\ work'[w] = wk /\ \A v \in Workers \ {w} : work'[v] = work[v]
  BY <1>3, <1>4 DEF CertTypeOK
<1>6. troubles' \in 0..MaxTroubles
  BY <1>1 DEF CertTypeOK, Trouble
<1>7. missed' \in [Target -> 0 .. RequeueAfter + 2]
  BY <1>1 DEF Miss, CertTypeOK
<1>8. CertTypeOK'
  BY <1>5, <1>6, <1>7 DEF CertTypeOK, ReadConfigurations
<1>9. \A t \in Target : missed'[t] = IF t \in work'[w].absent THEN 1 ELSE missed[t]
  BY <1>1, <1>2, <1>5 DEF Miss
<1> QED BY <1>2, <1>5, <1>8, <1>9 DEF ReadConfigurations, Kept

\* A secret is taken as it is, or replaced.
LEMMA ValidateCertsEffect ==
    ASSUME CertTypeOK, NEW s \in CertSecret, RootId \ RootsInUse # {}, s.root.root # FreshRoot,
           Exists(s) => s.old # s.root.root
    PROVE  \/ Valid(s) /\ ValidateCerts(s) = s
           \/ /\ Renewed(s, ValidateCerts(s))
              /\ ValidateCerts(s).root = s.root \/ ValidateCerts(s).root.root = FreshRoot
<1> DEFINE new == [root |-> FreshRoot, notAfter |-> now + RootDuration]
<1>1. FreshRoot \in RootId /\ new \in Cert
  BY FreshRootIsNew, Deadlines DEF Cert
<1>n. now \in Nat /\ now <= Horizon
  BY DEF CertTypeOK
<1>2. CASE Outdated(s.root, RenewalThreshold)
  <2>1. ~Valid(s)
    BY <1>2 DEF Valid
  <2>2. GenerateRootCerts(s) # s /\ GenerateRootCerts(s) = [root |-> new, old |-> s.root.root, server |-> s.server]
    BY DEF GenerateRootCerts
  <2> DEFINE certs == [root |-> new, old |-> s.root.root, server |-> [root |-> FreshRoot, notAfter |-> now + ServerDuration]]
  <2>3. ValidateCerts(s) = certs
    BY <1>2, <2>2 DEF ValidateCerts, GenerateServerCerts
  <2>4. new # NoCert /\ [root |-> FreshRoot, notAfter |-> now + ServerDuration] # NoCert
    BY <1>1 DEF NoCert
  <2>5. Valid(certs)
    BY <1>n, <2>4 DEF Valid, Outdated
  <2> QED BY <1>1, <1>2, <2>1, <2>3, <2>5 DEF Renewed
<1>3. CASE ~Outdated(s.root, RenewalThreshold) /\ Outdated(s.server, RenewalThreshold)
  <2>1. ~Valid(s) /\ s.root \in Cert
    BY <1>3 DEF Valid, Outdated, CertSecret
  <2> DEFINE srv == [root |-> s.root.root, notAfter |-> now + ServerDuration]
  <2> DEFINE certs == [s EXCEPT !.server = srv]
  <2>2. ValidateCerts(s) = certs
    BY <1>3 DEF ValidateCerts, GenerateServerCerts
  <2>3. srv # NoCert
    BY <2>1, NoCertIsNone DEF NoCert
  <2>4. certs.root = s.root /\ certs.old = s.old /\ certs.server = srv
    BY DEF CertSecret
  <2>5. Valid(certs)
    BY <1>n, <1>3, <2>3, <2>4 DEF Valid, Outdated
  <2>6. Exists(s)
    BY <2>1, NoCertIsNone DEF Exists, NoSecret
  <2> HIDE DEF certs
  <2> QED BY <2>1, <2>2, <2>4, <2>5, <2>6 DEF Renewed
<1>4. CASE Valid(s)
  BY <1>4 DEF Valid, ValidateCerts
<1> QED BY <1>2, <1>3, <1>4 DEF Valid

\* who is up to date, or takes what ValidateCerts made of the secret
LEMMA ReadSecretFields ==
    ASSUME CertTypeOK, SecretInv, NEW w \in Workers, ReadSecret(w)
    PROVE  /\ CertTypeOK'
           /\ work[w].pc = "secret"
           /\ \A v \in Workers \ {w} : Kept(v) /\ work'[v] = work[v]
           /\ UNCHANGED <<now, secret, bundle, webhookPod>>
           /\ \/ /\ work'[w].pc = IF w = "operator" THEN "idle" ELSE "done"
                 /\ due' = IF w = "operator" THEN now + RequeueAfter ELSE due
                 /\ Valid(secret)
                 /\ \A t \in Checked \ work[w].absent : work[w].seen[t] = {secret.root.root}
                 /\ \A t \in Target : missed'[t] = IF bundle[t] = {secret.root.root} THEN 0 ELSE missed[t]
              \/ /\ work'[w].pc = "writeSecret" /\ work'[w].absent = work[w].absent
                 /\ work'[w].read = secret /\ "secret" \notin work'[w].changed
                 /\ \/ Valid(secret) /\ work'[w].certs = secret
                    \/ /\ Renewed(secret, work'[w].certs)
                       /\ \/ work'[w].certs.root = secret.root
                          \/ \A t \in Target : work'[w].certs.root.root \notin bundle[t]
                 /\ UNCHANGED <<due, missed>>
<1>1. RootId \ RootsInUse # {} /\ secret \in CertSecret /\ work[w] \in Work
  BY DEF ReadSecret, CertTypeOK
<1>2. FreshRoot # secret.root.root /\ \A t \in Target : FreshRoot \notin bundle[t]
  BY <1>1, FreshRootIsNew DEF RootsInUse
<1> DEFINE new == ValidateCerts(secret)
<1>3. new \in CertSecret
  BY <1>1, <1>2, ValidateCertsType
<1>4. \/ Valid(secret) /\ new = secret
      \/ /\ Renewed(secret, new)
         /\ new.root = secret.root \/ new.root.root = FreshRoot
  BY <1>1, <1>2, ValidateCertsEffect DEF SecretInv
<1> HIDE DEF new
<1> DEFINE wk == [work[w] EXCEPT !.read = secret, !.certs = new, !.changed = @ \ {"secret"}, !.pc = "writeSecret"]
<1> DEFINE wk2 == [wk EXCEPT !.seen = IdleWork.seen]
<1>5. /\ wk \in Work /\ wk.pc = "writeSecret" /\ wk.absent = work[w].absent /\ wk.seen = work[w].seen
      /\ wk.read = secret /\ wk.certs = new /\ "secret" \notin wk.changed
  BY <1>1, <1>3 DEF Work
<1>6. \/ /\ IsUpToDate(wk) /\ Succeed(w)
         /\ missed' = [t \in Target |-> IF bundle[t] = {secret.root.root} THEN 0 ELSE missed[t]]
      \/ work' = [work EXCEPT ![w] = wk2] /\ UNCHANGED <<due, missed>>
  BY DEF ReadSecret, new
<1> HIDE DEF wk
<1>7. /\ wk2 \in Work /\ wk2.pc = "writeSecret" /\ wk2.absent = work[w].absent
      /\ wk2.read = secret /\ wk2.certs = new /\ "secret" \notin wk2.changed
  <2>1. IdleWork.seen \in [Checked -> SUBSET RootId]
    BY DEF IdleWork
  <2> QED BY <1>5, <2>1 DEF Work
<1> HIDE DEF wk2
<1>8. work[w].pc = "secret" /\ UNCHANGED <<now, secret, bundle, webhookPod, troubles>>
  BY DEF ReadSecret
<1>9. CASE /\ IsUpToDate(wk) /\ Succeed(w)
           /\ missed' = [t \in Target |-> IF bundle[t] = {secret.root.root} THEN 0 ELSE missed[t]]
  <2> DEFINE idle == [IdleWork EXCEPT !.pc = IF w = "operator" THEN "idle" ELSE "done"]
  <2>1. idle \in Work /\ idle.pc = IF w = "operator" THEN "idle" ELSE "done"
    BY IdleIsWork DEF IdleWork, Work
  <2>2. work' = [work EXCEPT ![w] = idle] /\ due' = IF w = "operator" THEN now + RequeueAfter ELSE due
    BY <1>9 DEF Succeed
  <2> HIDE DEF idle
  <2>3. work' \in [Workers -> Work] /\ work'[w] = idle /\ \A v \in Workers \ {w} : work'[v] = work[v]
    BY <2>1, <2>2 DEF CertTypeOK
  <2>4. due' \in Time
    BY <2>2, Deadlines DEF CertTypeOK
  <2>5. missed' \in [Target -> 0 .. RequeueAfter + 2]
    BY <1>9 DEF CertTypeOK
  <2>6. CertTypeOK'
    BY <1>8, <2>3, <2>4, <2>5 DEF CertTypeOK
  <2>7. new = secret /\ \A t \in Checked \ work[w].absent : work[w].seen[t] = {secret.root.root}
    BY <1>5, <1>9 DEF IsUpToDate
  <2>8. Valid(secret)
    BY <1>4, <2>7 DEF Renewed
  <2> QED BY <1>8, <1>9, <2>1, <2>2, <2>3, <2>6, <2>7, <2>8 DEF Kept
<1>10. CASE work' = [work EXCEPT ![w] = wk2] /\ UNCHANGED <<due, missed>>
  <2>1. work' \in [Workers -> Work] /\ work'[w] = wk2 /\ \A v \in Workers \ {w} : work'[v] = work[v]
    BY <1>7, <1>10 DEF CertTypeOK
  <2>2. CertTypeOK'
    BY <1>8, <1>10, <2>1 DEF CertTypeOK
  <2>3. new.root = secret.root \/ \A t \in Target : new.root.root \notin bundle[t]
    BY <1>2, <1>4
  <2>4. work'[w].certs = new /\ work'[w].read = secret
    BY <1>7, <2>1
  <2> QED BY <1>2, <1>4, <1>7, <1>8, <1>10, <2>1, <2>2, <2>3, <2>4 DEF Kept
<1> QED BY <1>6, <1>9, <1>10

\* a reconcile that failed starts again
LEMMA RetryFields ==
    ASSUME CertTypeOK, NEW w \in Workers, Retry(w)
    PROVE  /\ work' \in [Workers -> Work] /\ due' \in Time /\ missed' \in [Target -> 0 .. RequeueAfter + 2]
           /\ work'[w].pc = "retry"
           /\ \A v \in Workers \ {w} : Kept(v) /\ work'[v] = work[v]
           /\ due' = IF w = "operator" THEN now ELSE due
           /\ \A t \in Target : missed'[t] = IF t = "edgeconnect" /\ work[w].pc \in Target THEN 1 ELSE missed[t]
<1> DEFINE idle == [IdleWork EXCEPT !.pc = "retry"]
<1>1. idle \in Work /\ idle.pc = "retry"
  BY IdleIsWork DEF IdleWork, Work
<1>2. work' = [work EXCEPT ![w] = idle] /\ due' = IF w = "operator" THEN now ELSE due
  BY DEF Retry
<1> HIDE DEF idle
<1>3. work' \in [Workers -> Work] /\ work'[w] = idle /\ \A v \in Workers \ {w} : work'[v] = work[v]
  BY <1>1, <1>2 DEF CertTypeOK
<1>4. due' \in Time
  BY <1>2, Deadlines DEF CertTypeOK
<1>5. /\ missed' \in [Target -> 0 .. RequeueAfter + 2]
      /\ \A t \in Target : missed'[t] = IF t = "edgeconnect" /\ work[w].pc \in Target THEN 1 ELSE missed[t]
  BY DEF Retry, Miss, CertTypeOK
<1> QED BY <1>1, <1>2, <1>3, <1>4, <1>5 DEF Kept

\* who is done with an object goes on to the next
LEMMA StepFields ==
    ASSUME CertTypeOK, NEW w \in Workers, NEW pc \in Target, work' = Step(w, pc)
    PROVE  /\ work' \in [Workers -> Work]
           /\ work'[w].pc = pc /\ work'[w].certs = work[w].certs /\ work'[w].absent = work[w].absent
           /\ \A v \in Workers \ {w} : Kept(v) /\ work'[v] = work[v]
<1> DEFINE wk == [work[w] EXCEPT !.pc = pc, !.read = NoSecret]
<1>1. wk \in Work /\ wk.pc = pc /\ wk.certs = work[w].certs /\ wk.absent = work[w].absent
  BY IdleIsWork DEF CertTypeOK, Work
<1>2. work' = [work EXCEPT ![w] = wk]
  BY DEF Step, CertTypeOK
<1> HIDE DEF wk
<1>3. work' \in [Workers -> Work] /\ work'[w] = wk /\ \A v \in Workers \ {w} : work'[v] = work[v]
  BY <1>1, <1>2 DEF CertTypeOK
<1> QED BY <1>1, <1>3 DEF Kept

\* the secret is left alone, refused, or replaced by what was made of it
LEMMA WriteSecretFields ==
    ASSUME CertTypeOK, NEW w \in Workers, WriteSecret(w)
    PROVE  /\ CertTypeOK'
           /\ work[w].pc = "writeSecret"
           /\ \A v \in Workers \ {w} : Kept(v)
           /\ UNCHANGED <<now, bundle, webhookPod>>
           /\ \/ /\ work[w].certs = work[w].read
                 /\ work'[w].pc = "mutating" /\ work'[w].certs = work[w].certs /\ work'[w].absent = work[w].absent
                 /\ UNCHANGED <<secret, due, missed>>
              \/ /\ work'[w].pc = "retry"
                 /\ due' = IF w = "operator" THEN now ELSE due
                 /\ UNCHANGED <<secret, missed>>
              \/ /\ ~Exists(work[w].read) \/ work[w].certs # work[w].read
                 /\ "secret" \notin work[w].changed
                 /\ secret' = work[w].certs
                 /\ work'[w].pc = "mutating" /\ work'[w].certs = work[w].certs /\ work'[w].absent = work[w].absent
                 /\ \A v \in Workers \ {w} : work[v].pc \in {"secret", "writeSecret"} => "secret" \in work'[v].changed
                 /\ UNCHANGED <<due, missed>>
<1>1. work[w].pc = "writeSecret" /\ UNCHANGED <<now, bundle, webhookPod, troubles>>
  BY DEF WriteSecret
<1>2. \/ work[w].certs = work[w].read /\ work' = Step(w, "mutating") /\ UNCHANGED <<secret, due, missed>>
      \/ Retry(w) /\ UNCHANGED secret
      \/ /\ ~Exists(work[w].read) \/ work[w].certs # work[w].read
         /\ "secret" \notin work[w].changed
         /\ secret' = work[w].certs /\ work' = Written(w) /\ UNCHANGED <<due, missed>>
  BY DEF WriteSecret
<1>3. CASE work[w].certs = work[w].read /\ work' = Step(w, "mutating") /\ UNCHANGED <<secret, due, missed>>
  <2>1. "mutating" \in Target
    BY DEF Target, Checked, Configs
  <2>2. /\ work' \in [Workers -> Work]
        /\ work'[w].pc = "mutating" /\ work'[w].certs = work[w].certs /\ work'[w].absent = work[w].absent
        /\ \A v \in Workers \ {w} : Kept(v) /\ work'[v] = work[v]
    BY <1>3, <2>1, StepFields
  <2>3. CertTypeOK'
    BY <1>1, <1>3, <2>2 DEF CertTypeOK
  <2> QED BY <1>1, <1>3, <2>2, <2>3
<1>4. CASE Retry(w) /\ UNCHANGED secret
  <2>1. /\ work' \in [Workers -> Work] /\ due' \in Time /\ missed' \in [Target -> 0 .. RequeueAfter + 2]
        /\ work'[w].pc = "retry"
        /\ \A v \in Workers \ {w} : Kept(v) /\ work'[v] = work[v]
        /\ due' = IF w = "operator" THEN now ELSE due
    BY <1>4, RetryFields
  <2>2. missed' = missed
    BY <1>1, <1>4 DEF Retry, Target, Checked, Configs
  <2>3. CertTypeOK'
    BY <1>1, <1>4, <2>1 DEF CertTypeOK
  <2> QED BY <1>1, <1>4, <2>1, <2>2, <2>3
<1>5. CASE /\ ~Exists(work[w].read) \/ work[w].certs # work[w].read
           /\ "secret" \notin work[w].changed
           /\ secret' = work[w].certs /\ work' = Written(w) /\ UNCHANGED <<due, missed>>
  <2> DEFINE wk == [work[w] EXCEPT !.pc = "mutating", !.read = NoSecret]
  <2>1. work[w] \in Work
    BY DEF CertTypeOK
  <2>2. wk \in Work /\ wk.pc = "mutating" /\ wk.certs = work[w].certs /\ wk.absent = work[w].absent
    BY <2>1, IdleIsWork DEF Work, Target, Checked, Configs
  <2>3. TouchAll("secret") \in [Workers -> Work]
    BY TouchFields
  <2>4. work' = [TouchAll("secret") EXCEPT ![w] = wk]
    <3> DEFINE touched == TouchAll("secret")
    <3>1. work' = [[touched EXCEPT ![w] = work[w]] EXCEPT ![w].pc = "mutating", ![w].read = NoSecret]
      BY <1>5 DEF Written, Touch
    <3>2. touched \in [Workers -> Work]
      BY <2>3
    <3> HIDE DEF touched
    <3> QED BY <3>1, <3>2 DEF wk, touched
  <2> HIDE DEF wk
  <2>5. /\ work' \in [Workers -> Work] /\ work'[w] = wk
        /\ \A v \in Workers \ {w} : work'[v] = TouchAll("secret")[v]
    BY <2>2, <2>3, <2>4
  <2>6. \A v \in Workers \ {w} : Kept(v)
    <3> SUFFICES ASSUME NEW v \in Workers \ {w} PROVE Kept(v)
      OBVIOUS
    <3> DEFINE tv == TouchAll("secret")[v]
    <3>1. work'[v] = tv
      BY <2>5
    <3>2. /\ tv.pc = work[v].pc /\ tv.seen = work[v].seen /\ tv.absent = work[v].absent
          /\ tv.read = work[v].read /\ tv.certs = work[v].certs /\ work[v].changed \subseteq tv.changed
      <4> HIDE DEF WillWrite
      <4> QED BY TouchFields
    <3> HIDE DEF tv
    <3> QED BY <3>1, <3>2 DEF Kept
  <2>7. \A v \in Workers \ {w} : work[v].pc \in {"secret", "writeSecret"} => "secret" \in work'[v].changed
    <3>1. \A v \in Workers : work[v].pc \in {"secret", "writeSecret"} => WillWrite(v, "secret")
      BY DEF WillWrite
    <3> HIDE DEF WillWrite
    <3> QED BY <2>5, <3>1, TouchFields
  <2>8. CertTypeOK'
    <3>1. secret' \in CertSecret
      BY <1>5, <2>1 DEF Work
    <3> QED BY <1>1, <1>5, <2>5, <3>1 DEF CertTypeOK
  <2> QED BY <1>1, <1>5, <2>2, <2>5, <2>6, <2>7, <2>8
<1> QED BY <1>2, <1>3, <1>4, <1>5

\* the order of the objects
LEMMA Order ==
    /\ Ahead("mutating") = Target /\ Ahead("writeSecret") = Target /\ Ahead("edgeconnect") = {"edgeconnect"}
    /\ \A t \in Target : t \in Ahead(t) /\ Ahead(t) \subseteq Target
    /\ \A t \in Target \ {"edgeconnect"} : After(t) \in Target /\ Ahead(After(t)) = Ahead(t) \ {t}
    /\ Checked \subseteq Target /\ Configs \subseteq Checked /\ "edgeconnect" \in Target \ Checked
    /\ \A pc \in {"idle", "secret", "writeSecret", "retry", "done"} : pc \notin Target
  BY DEF Ahead, After, Target, Checked, Configs

\* the bundle of one object
BundleWritten(w, t) ==
    /\ bundle'[t] = CombinedBundle(work[w].certs) /\ missed'[t] = 0
    /\ \A u \in Target \ {t} : bundle'[u] = bundle[u] /\ missed'[u] = missed[u]

LEMMA WriteBundleFields ==
    ASSUME CertTypeOK, NEW w \in Workers, NEW t \in Target, WriteBundle(w, t)
    PROVE  /\ BundleWritten(w, t)
           /\ bundle' \in [Target -> SUBSET RootId] /\ missed' \in [Target -> 0 .. RequeueAfter + 2]
<1>1. CombinedBundle(work[w].certs) \in SUBSET RootId
  <2>1. work[w].certs \in CertSecret
    BY DEF CertTypeOK, Work
  <2> QED BY <2>1, CombinedBundleType
<1>2. 0 \in 0 .. RequeueAfter + 2
  OBVIOUS
<1> QED BY <1>1, <1>2 DEF CertTypeOK, WriteBundle, BundleWritten

\* a configuration is passed over, refused or written
LEMMA UpdateClientFields ==
    ASSUME CertTypeOK, NEW w \in Workers, NEW t \in Configs, UpdateClientConfigurations(w, t)
    PROVE  /\ CertTypeOK'
           /\ work[w].pc = t
           /\ \A v \in Workers \ {w} : Kept(v)
           /\ UNCHANGED <<now, secret, webhookPod>>
           /\ \/ /\ t \in work[w].absent
                 /\ work'[w].pc = After(t) /\ work'[w].certs = work[w].certs /\ work'[w].absent = work[w].absent
                 /\ UNCHANGED <<bundle, due, missed>>
              \/ /\ work'[w].pc = "retry"
                 /\ due' = IF w = "operator" THEN now ELSE due
                 /\ \A u \in Target : missed'[u] = IF u = "edgeconnect" THEN 1 ELSE missed[u]
                 /\ UNCHANGED bundle
              \/ /\ work'[w].pc = After(t) /\ work'[w].certs = work[w].certs /\ work'[w].absent = work[w].absent
                 /\ BundleWritten(w, t)
                 /\ UNCHANGED due
<1>1. work[w].pc = t /\ UNCHANGED <<now, secret, webhookPod, troubles>>
  BY DEF UpdateClientConfigurations
<1>2. \/ t \in work[w].absent /\ work' = Step(w, After(t)) /\ UNCHANGED <<bundle, due, missed>>
      \/ Retry(w) /\ UNCHANGED bundle
      \/ WriteBundle(w, t) /\ work' = [Touch(w, t) EXCEPT ![w].pc = After(t)] /\ UNCHANGED due
  BY DEF UpdateClientConfigurations
<1>3. t \in Target /\ After(t) \in Target
  BY Order
<1>4. CASE t \in work[w].absent /\ work' = Step(w, After(t)) /\ UNCHANGED <<bundle, due, missed>>
  <2>1. /\ work' \in [Workers -> Work]
        /\ work'[w].pc = After(t) /\ work'[w].certs = work[w].certs /\ work'[w].absent = work[w].absent
        /\ \A v \in Workers \ {w} : Kept(v) /\ work'[v] = work[v]
    BY <1>3, <1>4, StepFields
  <2>2. CertTypeOK'
    BY <1>1, <1>4, <2>1 DEF CertTypeOK
  <2> QED BY <1>1, <1>4, <2>1, <2>2
<1>5. CASE Retry(w) /\ UNCHANGED bundle
  <2>1. /\ work' \in [Workers -> Work] /\ due' \in Time /\ missed' \in [Target -> 0 .. RequeueAfter + 2]
        /\ work'[w].pc = "retry"
        /\ \A v \in Workers \ {w} : Kept(v) /\ work'[v] = work[v]
        /\ due' = IF w = "operator" THEN now ELSE due
        /\ \A u \in Target : missed'[u] = IF u = "edgeconnect" /\ work[w].pc \in Target THEN 1 ELSE missed[u]
    BY <1>5, RetryFields
  <2>2. CertTypeOK'
    BY <1>1, <1>5, <2>1 DEF CertTypeOK
  <2> QED BY <1>1, <1>3, <1>5, <2>1, <2>2
<1>6. CASE WriteBundle(w, t) /\ work' = [Touch(w, t) EXCEPT ![w].pc = After(t)] /\ UNCHANGED due
  <2> DEFINE wk == [work[w] EXCEPT !.pc = After(t)]
  <2> DEFINE touched == TouchAll(t)
  <2>1. wk \in Work /\ wk.pc = After(t) /\ wk.certs = work[w].certs /\ wk.absent = work[w].absent
    <3>1. After(t) \in {"idle", "secret", "writeSecret", "retry", "done"} \cup Target
      BY <1>3
    <3>2. work[w] \in Work
      BY DEF CertTypeOK
    <3> HIDE DEF After
    <3> QED BY <3>1, <3>2 DEF Work
  <2>2. touched \in [Workers -> Work]
    BY TouchFields
  <2>3. work' = [[touched EXCEPT ![w] = work[w]] EXCEPT ![w].pc = After(t)]
    BY <1>6 DEF Touch
  <2> HIDE DEF touched
  <2>4. work' = [touched EXCEPT ![w] = wk]
    BY <2>2, <2>3
  <2> HIDE DEF wk
  <2>5. work' \in [Workers -> Work] /\ work'[w] = wk /\ \A v \in Workers \ {w} : work'[v] = touched[v]
    BY <2>1, <2>2, <2>4
  <2>6. \A v \in Workers \ {w} : Kept(v)
    <3> SUFFICES ASSUME NEW v \in Workers \ {w} PROVE Kept(v)
      OBVIOUS
    <3> DEFINE tv == touched[v]
    <3>1. work'[v] = tv
      BY <2>5
    <3>2. /\ tv.pc = work[v].pc /\ tv.seen = work[v].seen /\ tv.absent = work[v].absent
          /\ tv.read = work[v].read /\ tv.certs = work[v].certs /\ work[v].changed \subseteq tv.changed
      <4> HIDE DEF WillWrite
      <4> QED BY TouchFields DEF touched
    <3> HIDE DEF tv
    <3> QED BY <3>1, <3>2 DEF Kept
  <2>7. /\ BundleWritten(w, t)
        /\ bundle' \in [Target -> SUBSET RootId] /\ missed' \in [Target -> 0 .. RequeueAfter + 2]
    BY <1>3, <1>6, WriteBundleFields
  <2>8. CertTypeOK'
    BY <1>1, <1>6, <2>5, <2>7 DEF CertTypeOK
  <2> QED BY <1>1, <1>6, <2>1, <2>5, <2>6, <2>7, <2>8
<1> QED BY <1>2, <1>4, <1>5, <1>6

\* a CRD is written, and the last one ends the reconcile
LEMMA UpdateCRDFields ==
    ASSUME CertTypeOK, NEW w \in Workers, NEW t \in Target \ Configs, UpdateCRDConfiguration(w, t)
    PROVE  /\ CertTypeOK'
           /\ work[w].pc = t
           /\ \A v \in Workers \ {w} : Kept(v)
           /\ UNCHANGED <<now, secret, webhookPod>>
           /\ BundleWritten(w, t)
           /\ \/ /\ t = "edgeconnect"
                 /\ work'[w].pc = IF w = "operator" THEN "idle" ELSE "done"
                 /\ due' = IF w = "operator" THEN now + RequeueAfter ELSE due
              \/ /\ t # "edgeconnect"
                 /\ work'[w].pc = After(t) /\ work'[w].certs = work[w].certs /\ work'[w].absent = work[w].absent
                 /\ UNCHANGED due
<1>1. work[w].pc = t /\ UNCHANGED <<now, secret, webhookPod, troubles>> /\ WriteBundle(w, t)
  BY DEF UpdateCRDConfiguration
<1>2. \/ t = "edgeconnect" /\ Succeed(w)
      \/ t # "edgeconnect" /\ work' = Step(w, After(t)) /\ UNCHANGED due
  BY DEF UpdateCRDConfiguration
<1>3. /\ BundleWritten(w, t)
      /\ bundle' \in [Target -> SUBSET RootId] /\ missed' \in [Target -> 0 .. RequeueAfter + 2]
  BY <1>1, WriteBundleFields
<1>4. CASE t = "edgeconnect" /\ Succeed(w)
  <2> DEFINE idle == [IdleWork EXCEPT !.pc = IF w = "operator" THEN "idle" ELSE "done"]
  <2>1. idle \in Work /\ idle.pc = IF w = "operator" THEN "idle" ELSE "done"
    BY IdleIsWork DEF IdleWork, Work
  <2>2. work' = [work EXCEPT ![w] = idle] /\ due' = IF w = "operator" THEN now + RequeueAfter ELSE due
    BY <1>4 DEF Succeed
  <2> HIDE DEF idle
  <2>3. work' \in [Workers -> Work] /\ work'[w] = idle /\ \A v \in Workers \ {w} : work'[v] = work[v]
    BY <2>1, <2>2 DEF CertTypeOK
  <2>4. due' \in Time
    BY <2>2, Deadlines DEF CertTypeOK
  <2>5. CertTypeOK'
    BY <1>1, <1>3, <2>3, <2>4 DEF CertTypeOK
  <2> QED BY <1>1, <1>3, <1>4, <2>1, <2>2, <2>3, <2>5 DEF Kept
<1>5. CASE t # "edgeconnect" /\ work' = Step(w, After(t)) /\ UNCHANGED due
  <2>1. After(t) \in Target
    BY <1>5, Order
  <2>2. /\ work' \in [Workers -> Work]
        /\ work'[w].pc = After(t) /\ work'[w].certs = work[w].certs /\ work'[w].absent = work[w].absent
        /\ \A v \in Workers \ {w} : Kept(v) /\ work'[v] = work[v]
    BY <1>5, <2>1, StepFields
  <2>3. CertTypeOK'
    BY <1>1, <1>3, <1>5, <2>2 DEF CertTypeOK
  <2> QED BY <1>1, <1>3, <1>5, <2>2, <2>3
<1> QED BY <1>2, <1>4, <1>5

LEMMA CallFailsFields ==
    ASSUME CertTypeOK, NEW w \in Workers, CallFails(w)
    PROVE  /\ CertTypeOK'
           /\ work[w].pc \notin {"idle", "retry", "done"} /\ work'[w].pc = "retry"
           /\ \A v \in Workers \ {w} : Kept(v) /\ work'[v] = work[v]
           /\ due' = IF w = "operator" THEN now ELSE due
           /\ \A t \in Target : missed'[t] = IF t = "edgeconnect" /\ work[w].pc \in Target THEN 1 ELSE missed[t]
           /\ UNCHANGED <<now, secret, bundle, webhookPod>>
<1>1. /\ work[w].pc \notin {"idle", "retry", "done"} /\ Retry(w) /\ UNCHANGED <<now, secret, bundle, webhookPod>>
      /\ troubles' \in 0..MaxTroubles
  BY DEF CallFails, Trouble, CertTypeOK
<1>2. /\ work' \in [Workers -> Work] /\ due' \in Time /\ missed' \in [Target -> 0 .. RequeueAfter + 2]
      /\ work'[w].pc = "retry"
      /\ \A v \in Workers \ {w} : Kept(v) /\ work'[v] = work[v]
      /\ due' = IF w = "operator" THEN now ELSE due
      /\ \A t \in Target : missed'[t] = IF t = "edgeconnect" /\ work[w].pc \in Target THEN 1 ELSE missed[t]
  BY <1>1, RetryFields
<1>3. CertTypeOK'
  BY <1>1, <1>2 DEF CertTypeOK
<1> QED BY <1>1, <1>2, <1>3

\* The webhook pod: only its record changes.
LEMMA PodFields ==
    ASSUME CertTypeOK, Webhook \/ WebhookRestarts
    PROVE  CertTypeOK' /\ UNCHANGED <<now, secret, bundle, work, due, missed>>
<1> DEFINE C == Cert \cup {NoCert}
<1>1. /\ webhookPod \in WebhookPod /\ webhookPod.crt \in C /\ webhookPod.key \in C /\ webhookPod.read \in C /\ webhookPod.served \in C
      /\ secret.server \in C /\ NoCert \in C /\ now + PollInterval \in Time
  BY Deadlines DEF CertTypeOK, WebhookPod, CertSecret
<1>2. \A crt, key \in C : Loaded(crt, key) \in C
  BY <1>1 DEF Loaded
<1>3. troubles \in 0..MaxTroubles
  BY DEF CertTypeOK
<1> HIDE DEF C
<1>4. CASE Poll
  <2>1. Loaded(secret.server, webhookPod.key) \in C
    BY <1>1, <1>2
  <2> HIDE DEF Loaded
  <2>2. webhookPod' \in WebhookPod
    BY <1>1, <1>4, <2>1 DEF Poll, WebhookPod, C
  <2> QED BY <1>4, <2>2 DEF Poll, CertTypeOK
<1>5. CASE WriteKey
  <2>1. Loaded(webhookPod.crt, webhookPod.read) \in C
    BY <1>1, <1>2
  <2>2. (IF ~Serving /\ ~Outdated(webhookPod.read, PollInterval) THEN webhookPod.read ELSE Loaded(webhookPod.crt, webhookPod.read)) \in C
    BY <1>1, <2>1
  <2> HIDE DEF Loaded, Outdated, Serving
  <2>3. webhookPod' \in WebhookPod
    BY <1>1, <1>5, <2>2 DEF WriteKey, WebhookPod, C
  <2> QED BY <1>5, <2>3 DEF WriteKey, CertTypeOK
<1>6. CASE PollFails
  <2>1. webhookPod' \in WebhookPod
    BY <1>1, <1>6 DEF PollFails, WebhookPod
  <2>2. troubles' \in 0..MaxTroubles
    BY <1>3, <1>6 DEF PollFails, Trouble
  <2> QED BY <1>6, <2>1, <2>2 DEF PollFails, CertTypeOK
<1>7. CASE WebhookRestarts
  <2>1. PICK vanished \in BOOLEAN :
           webhookPod' = [webhookPod EXCEPT !.served = NoCert, !.read = NoCert, !.writing = FALSE, !.stale = FALSE,
                              !.crt = IF vanished THEN NoCert ELSE @, !.key = IF vanished THEN NoCert ELSE @]
    BY <1>7 DEF WebhookRestarts
  <2> DEFINE crt == IF vanished THEN NoCert ELSE webhookPod.crt
             key == IF vanished THEN NoCert ELSE webhookPod.key
  <2>2. webhookPod' \in WebhookPod
    <3>1. crt \in C /\ key \in C
      BY <1>1
    <3>2. webhookPod' = [webhookPod EXCEPT !.served = NoCert, !.read = NoCert, !.writing = FALSE, !.stale = FALSE,
                             !.crt = crt, !.key = key]
      BY <2>1
    <3> HIDE DEF crt, key
    <3>3. webhookPod' = [crt |-> crt, key |-> key, read |-> NoCert, served |-> NoCert, due |-> webhookPod.due,
                  writing |-> FALSE, stale |-> FALSE]
      BY <1>1, <3>2 DEF WebhookPod
    <3>4. webhookPod.due \in Time
      BY <1>1 DEF WebhookPod
    <3> HIDE DEF NoCert
    <3> QED BY <1>1, <3>1, <3>3, <3>4 DEF WebhookPod, C
  <2>3. troubles' \in 0..MaxTroubles
    <3>1. Trouble
      BY <1>7 DEF WebhookRestarts
    <3> QED BY <1>3, <3>1 DEF Trouble
  <2> QED BY <1>7, <2>2, <2>3 DEF WebhookRestarts, CertTypeOK
<1> QED BY <1>4, <1>5, <1>6, <1>7 DEF Webhook

\* what a pod serves after it polled, or did not
LEMMA PodServes ==
    ASSUME CertTypeOK, Webhook \/ WebhookRestarts, webhookPod.writing => webhookPod.crt = webhookPod.read
    PROVE  /\ webhookPod'.writing => webhookPod'.crt = webhookPod'.read
           /\ \/ webhookPod'.writing = FALSE
              \/ ~webhookPod.writing /\ Exists(secret) /\ webhookPod'.read = secret.server
           /\ \/ webhookPod'.served = NoCert
              \/ webhookPod'.served = webhookPod.served /\ webhookPod'.stale = webhookPod.stale
              \/ Exists(secret) /\ webhookPod'.served = secret.server
              \/ webhookPod.writing /\ webhookPod'.served = webhookPod.read
<1>1. webhookPod \in WebhookPod
  BY DEF CertTypeOK
<1>2. CASE Poll
  <2> DEFINE s == Loaded(secret.server, webhookPod.key)
  <2>1. webhookPod' = [webhookPod EXCEPT !.read = secret.server, !.crt = secret.server, !.writing = TRUE, !.served = s]
    BY <1>2 DEF Poll
  <2>2. s = secret.server \/ s = webhookPod.served
    BY DEF Loaded
  <2> HIDE DEF s
  <2>3. /\ webhookPod'.read = secret.server /\ webhookPod'.crt = secret.server /\ webhookPod'.served = s /\ webhookPod'.stale = webhookPod.stale
    BY <1>1, <2>1 DEF WebhookPod
  <2> QED BY <1>2, <2>2, <2>3 DEF Poll
<1>3. CASE WriteKey
  <2> DEFINE s == IF ~Serving /\ ~Outdated(webhookPod.read, PollInterval) THEN webhookPod.read ELSE Loaded(webhookPod.crt, webhookPod.read)
  <2>1. /\ webhookPod.writing /\ webhookPod' = [webhookPod EXCEPT !.key = webhookPod.read, !.writing = FALSE, !.read = NoCert,
                                      !.due = now + PollInterval, !.stale = FALSE, !.served = s]
    BY <1>3 DEF WriteKey
  <2>2. s = webhookPod.read \/ s = NoCert
    BY <2>1 DEF Loaded, Serving
  <2> HIDE DEF s
  <2>3. webhookPod'.writing = FALSE /\ webhookPod'.served = s
    BY <1>1, <2>1 DEF WebhookPod
  <2> QED BY <2>1, <2>2, <2>3
<1>4. CASE PollFails
  <2>1. webhookPod'.writing = FALSE /\ webhookPod'.served = webhookPod.served /\ webhookPod'.stale = webhookPod.stale
    BY <1>1, <1>4 DEF PollFails, WebhookPod
  <2> QED BY <2>1
<1>5. CASE WebhookRestarts
  <2>1. PICK vanished \in BOOLEAN :
           webhookPod' = [webhookPod EXCEPT !.served = NoCert, !.read = NoCert, !.writing = FALSE, !.stale = FALSE,
                              !.crt = IF vanished THEN NoCert ELSE @, !.key = IF vanished THEN NoCert ELSE @]
    BY <1>5 DEF WebhookRestarts
  <2>2. webhookPod'.writing = FALSE /\ webhookPod'.served = NoCert
    BY <1>1, <2>1 DEF WebhookPod
  <2> QED BY <2>2
<1> QED BY <1>2, <1>3, <1>4, <1>5 DEF Webhook

LEMMA ReapplyFields ==
    ASSUME CertTypeOK, NEW t \in Target, Reapply(t)
    PROVE  /\ CertTypeOK'
           /\ \A v \in Workers : Kept(v)
           /\ bundle'[t] = {} /\ missed'[t] = 1
           /\ \A u \in Target \ {t} : bundle'[u] = bundle[u] /\ missed'[u] = missed[u]
           /\ UNCHANGED <<now, secret, due, webhookPod>>
<1>1. /\ bundle' = [bundle EXCEPT ![t] = {}] /\ missed' = Miss({t}) /\ troubles' \in 0..MaxTroubles
      /\ work' = (IF t \in Configs THEN TouchAll(t) ELSE work) /\ UNCHANGED <<now, secret, due, webhookPod>>
  BY DEF Reapply, Trouble, CertTypeOK
<1>2. work' \in [Workers -> Work] /\ \A v \in Workers : Kept(v)
  <2>1. CASE t \in Configs
    <3> DEFINE touched == TouchAll(t)
    <3>1. work' = touched /\ touched \in [Workers -> Work]
      BY <1>1, <2>1, TouchFields
    <3>2. ASSUME NEW v \in Workers PROVE Kept(v)
      <4>1. /\ touched[v].pc = work[v].pc /\ touched[v].seen = work[v].seen /\ touched[v].absent = work[v].absent
            /\ touched[v].read = work[v].read /\ touched[v].certs = work[v].certs
            /\ work[v].changed \subseteq touched[v].changed
        <5> HIDE DEF WillWrite
        <5> QED BY <2>1, TouchFields
      <4> HIDE DEF touched
      <4> QED BY <3>1, <4>1 DEF Kept
    <3> QED BY <3>1, <3>2
  <2>2. CASE t \notin Configs
    BY <1>1, <2>2 DEF CertTypeOK, Kept
  <2> QED BY <2>1, <2>2
<1>3. /\ missed' \in [Target -> 0 .. RequeueAfter + 2] /\ missed'[t] = 1
      /\ \A u \in Target \ {t} : missed'[u] = missed[u]
  BY <1>1 DEF Miss, CertTypeOK
<1>4. bundle' \in [Target -> SUBSET RootId] /\ bundle'[t] = {} /\ \A u \in Target \ {t} : bundle'[u] = bundle[u]
  BY <1>1 DEF CertTypeOK
<1>5. CertTypeOK'
  BY <1>1, <1>2, <1>3, <1>4 DEF CertTypeOK
<1> QED BY <1>1, <1>2, <1>3, <1>4, <1>5

LEMMA DeleteSecretFields ==
    ASSUME CertTypeOK, DeleteSecret
    PROVE  /\ CertTypeOK' /\ Settled
           /\ secret' = NoSecret
           /\ ~webhookPod'.writing /\ webhookPod'.served = webhookPod.served /\ webhookPod'.stale = Serving
           /\ UNCHANGED <<now, bundle, work, due, missed>>
<1>1. /\ secret' = NoSecret /\ webhookPod' = [webhookPod EXCEPT !.stale = Serving] /\ ~webhookPod.writing /\ Settled
      /\ troubles' \in 0..MaxTroubles /\ UNCHANGED <<now, bundle, work, due, missed>>
  BY DEF DeleteSecret, Trouble, CertTypeOK
<1>2. Serving \in BOOLEAN /\ webhookPod \in WebhookPod
  BY DEF Serving, CertTypeOK
<1>3. webhookPod' \in WebhookPod /\ ~webhookPod'.writing /\ webhookPod'.served = webhookPod.served /\ webhookPod'.stale = Serving
  <2> HIDE DEF Serving
  <2> QED BY <1>1, <1>2 DEF WebhookPod
<1> QED BY <1>1, <1>3, IdleIsWork DEF CertTypeOK

LEMMA TickFields ==
    ASSUME CertTypeOK, Tick
    PROVE  /\ CertTypeOK' /\ Settled
           /\ now' = now + 1 /\ due > now /\ ~webhookPod.writing
           /\ \A t \in Target : missed'[t] = IF t \in Checked /\ missed[t] \in 1 .. RequeueAfter + 1
                                             THEN missed[t] + 1 ELSE missed[t]
           /\ UNCHANGED <<secret, bundle, work, due, webhookPod, troubles>>
<1>1. /\ now < Horizon /\ Settled /\ now' = now + 1 /\ due > now /\ ~webhookPod.writing /\ missed' = MissedLonger
      /\ UNCHANGED <<secret, bundle, work, due, webhookPod, troubles>>
  BY DEF Tick
<1>2. now' \in 0..Horizon
  BY <1>1 DEF CertTypeOK
<1>3. missed' \in [Target -> 0 .. RequeueAfter + 2]
  BY <1>1 DEF MissedLonger, CertTypeOK
<1>4. \A t \in Target : missed'[t] = IF t \in Checked /\ missed[t] \in 1 .. RequeueAfter + 1
                                     THEN missed[t] + 1 ELSE missed[t]
  BY <1>1 DEF MissedLonger
<1>5. CertTypeOK'
  BY <1>1, <1>2, <1>3 DEF CertTypeOK
<1> QED BY <1>1, <1>4, <1>5

LEMMA InitTypes == CertInit => CertTypeOK
<1> SUFFICES ASSUME CertInit PROVE CertTypeOK
  OBVIOUS
<1>1. 0 \in Time /\ 0 \in 0..Horizon /\ 0 \in 0..MaxTroubles /\ 0 \in 0 .. RequeueAfter + 2
  BY DEF Time
<1>2. webhookPod \in WebhookPod
  BY <1>1 DEF CertInit, WebhookPod
<1> QED BY <1>1, <1>2, IdleIsWork DEF CertInit, CertTypeOK

-----------------------------------------------------------------------------
(***************************************************************************)
(* What was missed is repaired.                                            *)
(***************************************************************************)

LEMMA Numbers ==
    ASSUME CertTypeOK
    PROVE  now \in Nat /\ due \in Nat /\ \A t \in Target : missed[t] \in Nat
  BY DEF CertTypeOK, Time

\* Nothing but the clock ages what was missed, and only the steps of the operator move its deadline.
LEMMA OperatorUntouched ==
    ASSUME CertTypeOK, CertTypeOK', DueInv, RepairInv, Kept("operator"), UNCHANGED <<now, due>>,
           \A t \in Checked : \/ missed'[t] \in {0, 1}
                              \/ missed'[t] = missed[t] /\ bundle'[t] = bundle[t]
    PROVE  DueInv' /\ RepairInv'
<1>1. now \in Nat /\ due \in Nat /\ \A t \in Checked : missed[t] \in Nat /\ missed'[t] \in Nat
  BY Numbers, Order DEF CertTypeOK
<1>2. DueInv'
  BY DEF DueInv, Kept
<1>3. \A t \in Checked : missed'[t] > 0 => missed'[t] + (due' - now') <= RequeueAfter + 1
  BY <1>1 DEF DueInv, RepairInv
<1>4. \A t \in Checked : missed'[t] > 1 => missed[t] > 1 /\ bundle'[t] = bundle[t]
  BY <1>1
<1> QED BY <1>2, <1>3, <1>4 DEF RepairInv, Kept, Writing

LEMMA OperatorStep ==
    ASSUME CertTypeOK, SecretInv, DueInv, RepairInv, CertNext
    PROVE  DueInv' /\ RepairInv'
<1> DEFINE op == work["operator"]
<1>1. now \in Nat /\ due \in Nat /\ \A t \in Checked : missed[t] \in Nat
  BY Numbers, Order
<1>2. ASSUME NEW w \in Workers, ReadConfigurations(w) PROVE DueInv' /\ RepairInv'
  <2>1. CASE w # "operator"
    BY <1>2, <2>1, ReadConfigurationsFields, OperatorUntouched, Order
  <2>2. CASE w = "operator"
    <3>1. DueInv'
      BY <1>1, <1>2, <2>2, ReadConfigurationsFields DEF DueInv
    <3>2. \A t \in Checked : missed'[t] = IF t \in work'[w].absent THEN 1 ELSE missed[t]
      BY <1>2, ReadConfigurationsFields, Order
    <3>3. \A t \in Checked : missed'[t] > 0 => missed'[t] + (due' - now') <= RequeueAfter + 1
      BY <1>1, <1>2, <3>2, ReadConfigurationsFields DEF DueInv, RepairInv
    <3>4. \A t \in Checked : missed'[t] > 1 => t \notin work'[w].absent /\ work'[w].seen[t] = bundle'[t]
      BY <1>2, <3>2, ReadConfigurationsFields
    <3>5. work'[w].pc = "secret" /\ ~Writing(work'[w])
      BY <1>2, ReadConfigurationsFields, Order DEF Writing
    <3> QED BY <2>2, <3>1, <3>3, <3>4, <3>5 DEF RepairInv
  <2> QED BY <2>1, <2>2
<1>3. ASSUME NEW w \in Workers, ReadSecret(w) PROVE DueInv' /\ RepairInv'
  <2>1. /\ CertTypeOK' /\ work[w].pc = "secret" /\ UNCHANGED <<now, secret, bundle>>
        /\ \A v \in Workers \ {w} : Kept(v)
    BY <1>3, ReadSecretFields
  <2>2. CASE /\ work'[w].pc = IF w = "operator" THEN "idle" ELSE "done"
             /\ due' = IF w = "operator" THEN now + RequeueAfter ELSE due
             /\ \A t \in Checked \ work[w].absent : work[w].seen[t] = {secret.root.root}
             /\ \A t \in Target : missed'[t] = IF bundle[t] = {secret.root.root} THEN 0 ELSE missed[t]
    <3>1. CASE w # "operator"
      BY <2>1, <2>2, <3>1, OperatorUntouched, Order
    <3>2. CASE w = "operator"
      <4>1. DueInv'
        BY <1>1, <2>1, <2>2, <3>2 DEF DueInv
      <4>2. \A t \in Checked : missed'[t] <= 1 /\ missed'[t] \in Nat
        <5> SUFFICES ASSUME NEW t \in Checked, missed[t] > 1 PROVE missed'[t] = 0
          BY <1>1, <2>2, Order
        <5>1. t \notin op.absent /\ op.seen[t] = bundle[t]
          BY <2>1, <3>2 DEF RepairInv
        <5> QED BY <2>2, <3>2, <5>1, Order
      <4>3. work'[w].pc = "idle" /\ ~Writing(work'[w])
        BY <2>2, <3>2, Order DEF Writing
      <4> QED BY <1>1, <2>1, <2>2, <3>2, <4>1, <4>2, <4>3 DEF RepairInv
    <3> QED BY <3>1, <3>2
  <2>3. CASE /\ work'[w].pc = "writeSecret" /\ work'[w].absent = work[w].absent
             /\ UNCHANGED <<due, missed>>
    <3>1. CASE w # "operator"
      BY <2>1, <2>3, <3>1, OperatorUntouched, Order
    <3>2. CASE w = "operator"
      <4>1. DueInv'
        BY <2>1, <2>3, <3>2 DEF DueInv
      <4>2. work'[w].pc # "secret" /\ Ahead(work'[w].pc) = Target
        BY <2>3, Order
      <4> QED BY <2>1, <2>3, <3>2, <4>1, <4>2, Order DEF RepairInv
    <3> QED BY <3>1, <3>2
  <2> QED BY <1>3, <2>2, <2>3, ReadSecretFields
<1>r. ASSUME NEW w \in Workers, CertTypeOK', work[w].pc \notin {"idle", "done"}, work'[w].pc = "retry",
             due' = (IF w = "operator" THEN now ELSE due), \A v \in Workers \ {w} : Kept(v), UNCHANGED now,
             \A t \in Checked : missed'[t] = missed[t] /\ bundle'[t] = bundle[t]
      PROVE  DueInv' /\ RepairInv'
  <2>1. CASE w # "operator"
    BY <1>r, <2>1, OperatorUntouched
  <2>2. CASE w = "operator"
    <3>1. due' = due /\ DueInv'
      BY <1>1, <1>r, <2>2 DEF DueInv
    <3>2. work'[w].pc # "secret" /\ ~Writing(work'[w])
      BY <1>r, Order DEF Writing
    <3> QED BY <1>r, <2>2, <3>1, <3>2 DEF RepairInv
  <2> QED BY <2>1, <2>2
<1>s. ASSUME NEW w \in Workers, NEW t \in Target \ {"edgeconnect"}, CertTypeOK', work[w].pc = t, work'[w].pc = After(t),
             work'[w].absent = work[w].absent, \A v \in Workers \ {w} : Kept(v), UNCHANGED <<now, due>>,
             BundleWritten(w, t) \/ (t \in work[w].absent /\ UNCHANGED <<bundle, missed>>)
      PROVE  DueInv' /\ RepairInv'
  <2>1. CASE w # "operator"
    BY <1>s, <2>1, OperatorUntouched, Order DEF BundleWritten
  <2>2. CASE w = "operator"
    <3>1. DueInv'
      BY <1>s, <2>2, Order DEF DueInv
    <3>2. work'[w].pc \in Target /\ Ahead(work'[w].pc) = Ahead(t) \ {t} /\ work'[w].pc # "secret" /\ Writing(op)
      BY <1>s, <2>2, Order DEF Writing
    <3>3. ASSUME NEW u \in Checked, missed'[u] > 1
          PROVE u \in Ahead(work'[w].pc) \ work'[w].absent /\ missed[u] > 1 /\ missed'[u] = missed[u]
      <4>1. u # t /\ missed'[u] = missed[u]
        <5>1. CASE BundleWritten(w, t)
          BY <3>3, <5>1, Order DEF BundleWritten
        <5>2. CASE t \in work[w].absent /\ UNCHANGED <<bundle, missed>>
          BY <1>s, <2>2, <3>2, <3>3, <5>2 DEF RepairInv
        <5> QED BY <1>s, <5>1, <5>2
      <4>2. u \in Ahead(t) \ op.absent
        BY <1>s, <2>2, <3>2, <3>3, <4>1 DEF RepairInv
      <4> QED BY <1>s, <2>2, <3>2, <3>3, <4>1, <4>2
    <3>4. ASSUME NEW u \in Checked, missed'[u] > 0 PROVE missed'[u] + (due' - now') <= RequeueAfter + 1
      <4>1. missed'[u] = missed[u] \/ missed'[u] = 0
        BY <1>s, Order DEF BundleWritten
      <4> QED BY <1>1, <1>s, <3>4, <4>1 DEF RepairInv
    <3> QED BY <2>2, <3>1, <3>2, <3>3, <3>4 DEF RepairInv
  <2> QED BY <2>1, <2>2
<1>4. ASSUME NEW w \in Workers, WriteSecret(w) PROVE DueInv' /\ RepairInv'
  <2>1. /\ CertTypeOK' /\ work[w].pc = "writeSecret" /\ UNCHANGED <<now, bundle>>
        /\ \A v \in Workers \ {w} : Kept(v)
        /\ \/ work'[w].pc = "mutating" /\ work'[w].absent = work[w].absent /\ UNCHANGED <<due, missed>>
           \/ work'[w].pc = "retry" /\ due' = (IF w = "operator" THEN now ELSE due) /\ UNCHANGED missed
    BY <1>4, WriteSecretFields
  <2>2. CASE work'[w].pc = "mutating" /\ work'[w].absent = work[w].absent /\ UNCHANGED <<due, missed>>
    <3>1. CASE w # "operator"
      BY <2>1, <2>2, <3>1, OperatorUntouched
    <3>2. CASE w = "operator"
      <4>1. DueInv'
        BY <2>1, <2>2, <3>2 DEF DueInv
      <4>2. Writing(op) /\ Ahead(op.pc) = Target /\ Ahead(work'[w].pc) = Target /\ work'[w].pc # "secret"
        BY <2>1, <2>2, <3>2, Order DEF Writing
      <4> QED BY <2>1, <2>2, <3>2, <4>1, <4>2 DEF RepairInv
    <3> QED BY <3>1, <3>2
  <2>3. CASE work'[w].pc = "retry" /\ due' = (IF w = "operator" THEN now ELSE due) /\ UNCHANGED missed
    BY <1>r, <2>1, <2>3
  <2> QED BY <2>1, <2>2, <2>3
<1>5. ASSUME NEW w \in Workers, NEW t \in Configs, UpdateClientConfigurations(w, t) PROVE DueInv' /\ RepairInv'
  <2>1. t \in Target \ {"edgeconnect"} /\ t \notin {"idle", "done"} /\ \A u \in Checked : u \in Target \ {"edgeconnect"}
    BY Order DEF Configs
  <2>2. /\ CertTypeOK' /\ work[w].pc = t /\ UNCHANGED now
        /\ \A v \in Workers \ {w} : Kept(v)
        /\ \/ /\ t \in work[w].absent /\ UNCHANGED <<bundle, due, missed>>
              /\ work'[w].pc = After(t) /\ work'[w].absent = work[w].absent
           \/ /\ work'[w].pc = "retry" /\ due' = IF w = "operator" THEN now ELSE due
              /\ \A u \in Target : missed'[u] = IF u = "edgeconnect" THEN 1 ELSE missed[u]
              /\ UNCHANGED bundle
           \/ /\ work'[w].pc = After(t) /\ work'[w].absent = work[w].absent
              /\ BundleWritten(w, t) /\ UNCHANGED due
    BY <1>5, UpdateClientFields
  <2>3. CASE /\ t \in work[w].absent /\ UNCHANGED <<bundle, due, missed>>
             /\ work'[w].pc = After(t) /\ work'[w].absent = work[w].absent
    BY <1>s, <2>1, <2>2, <2>3
  <2>4. CASE /\ work'[w].pc = "retry" /\ due' = IF w = "operator" THEN now ELSE due
             /\ \A u \in Target : missed'[u] = IF u = "edgeconnect" THEN 1 ELSE missed[u]
             /\ UNCHANGED bundle
    <3>1. \A u \in Checked : missed'[u] = missed[u] /\ bundle'[u] = bundle[u]
      BY <2>1, <2>4
    <3> QED BY <1>r, <2>1, <2>2, <2>4, <3>1
  <2>5. CASE /\ work'[w].pc = After(t) /\ work'[w].absent = work[w].absent
             /\ BundleWritten(w, t) /\ UNCHANGED due
    BY <1>s, <2>1, <2>2, <2>5
  <2> QED BY <2>2, <2>3, <2>4, <2>5
<1>6. ASSUME NEW w \in Workers, NEW t \in Target \ Configs, UpdateCRDConfiguration(w, t) PROVE DueInv' /\ RepairInv'
  <2>f. /\ CertTypeOK' /\ work[w].pc = t /\ UNCHANGED now /\ BundleWritten(w, t)
        /\ \A v \in Workers \ {w} : Kept(v)
        /\ t = "edgeconnect" => /\ work'[w].pc = IF w = "operator" THEN "idle" ELSE "done"
                               /\ due' = IF w = "operator" THEN now + RequeueAfter ELSE due
        /\ t # "edgeconnect" => work'[w].pc = After(t) /\ work'[w].absent = work[w].absent /\ UNCHANGED due
    BY <1>6, UpdateCRDFields
  <2>1. CASE t # "edgeconnect"
    BY <1>s, <2>1, <2>f
  <2>2. CASE t = "edgeconnect"
    <3>1. /\ work'[w].pc = IF w = "operator" THEN "idle" ELSE "done"
          /\ due' = IF w = "operator" THEN now + RequeueAfter ELSE due
          /\ \A u \in Checked : missed'[u] = missed[u] /\ bundle'[u] = bundle[u]
      BY <2>2, <2>f, Order DEF BundleWritten
    <3>2. CASE w # "operator"
      BY <2>2, <2>f, <3>1, <3>2, OperatorUntouched
    <3>3. CASE w = "operator"
      <4>1. DueInv'
        BY <1>1, <2>f, <3>1, <3>3 DEF DueInv
      <4>2. \A u \in Checked : missed'[u] <= 1
        <5>1. Writing(op) /\ Ahead(op.pc) = {"edgeconnect"}
          BY <2>2, <2>f, <3>3, Order DEF Writing
        <5> QED BY <1>1, <3>1, <5>1, Order DEF RepairInv
      <4>3. work'[w].pc # "secret" /\ ~Writing(work'[w])
        BY <3>1, <3>3, Order DEF Writing
      <4> QED BY <1>1, <2>f, <3>1, <3>3, <4>1, <4>2, <4>3 DEF RepairInv, BundleWritten
    <3> QED BY <3>2, <3>3
  <2> QED BY <2>1, <2>2
<1>7. ASSUME NEW w \in Workers, CallFails(w) PROVE DueInv' /\ RepairInv'
  <2>1. \A t \in Checked : missed'[t] = missed[t] /\ bundle'[t] = bundle[t]
    BY <1>7, CallFailsFields, Order
  <2> QED BY <1>7, <1>r, <2>1, CallFailsFields
<1>8. CASE Webhook \/ WebhookRestarts
  BY <1>8, PodFields, OperatorUntouched DEF Kept
<1>9. CASE DeleteSecret
  BY <1>9, DeleteSecretFields, OperatorUntouched DEF Kept
<1>10. ASSUME NEW t \in Target, Reapply(t) PROVE DueInv' /\ RepairInv'
  <2>1. \A u \in Checked : \/ missed'[u] \in {0, 1}
                           \/ missed'[u] = missed[u] /\ bundle'[u] = bundle[u]
    BY <1>10, ReapplyFields, Order
  <2> QED BY <1>10, <2>1, ReapplyFields, OperatorUntouched
<1>11. CASE Tick
  <2>1. op.pc = "idle" /\ now' = now + 1 /\ due > now /\ UNCHANGED <<due, work, bundle>>
    BY <1>11, TickFields DEF Settled, DueInv
  <2>2. DueInv'
    BY <1>1, <2>1 DEF DueInv
  <2>3. ~Writing(op)
    BY <2>1, Order DEF Writing
  <2>4. \A t \in Checked : missed'[t] > 0 => missed[t] > 0 /\ missed'[t] <= missed[t] + 1 /\ missed'[t] \in Nat
    BY <1>1, <1>11, TickFields, Order
  <2> QED BY <1>1, <2>1, <2>2, <2>3, <2>4 DEF RepairInv
<1> QED BY <1>2, <1>3, <1>4, <1>5, <1>6, <1>7, <1>8, <1>9, <1>10, <1>11 DEF CertNext, Controller

-----------------------------------------------------------------------------
(***************************************************************************)
(* What is served is trusted.                                              *)
(***************************************************************************)

LEMMA NoSecretIsOutdated ==
    ASSUME NEW s \in CertSecret
    PROVE  /\ Valid(s) => Exists(s) /\ s.root \in Cert
           /\ s.root \in Cert => Exists(s)
           /\ ~Exists(NoSecret)
           /\ \A c \in CertSecret : ~Renewed(c, c)
  BY NoCertIsNone DEF Valid, Outdated, Exists, NoSecret, CertSecret, Renewed

\* A worker that replaces the secret makes a valid one of one that is not.
LEMMA SecretIsReplaced ==
    ASSUME CertTypeOK, WorkInv, NEW w \in Workers, work[w].pc = "writeSecret",
           ~Exists(work[w].read) \/ work[w].certs # work[w].read, "secret" \notin work[w].changed
    PROVE  /\ Renewed(secret, work[w].certs) /\ ~Valid(secret) /\ Valid(work[w].certs)
           /\ work[w].certs.root # secret.root => \A t \in Target : work[w].certs.root.root \notin bundle[t]
           /\ \A t \in work[w].absent : missed[t] # 0
<1>1. work[w].read \in CertSecret /\ WorkOK(w)
  BY DEF CertTypeOK, Work, WorkInv
<1>2. work[w].read = secret
  BY <1>1 DEF WorkOK
<1>3. Renewed(work[w].read, work[w].certs)
  BY <1>1, NoSecretIsOutdated DEF WorkOK
<1>4. ~Valid(secret) /\ Valid(work[w].certs)
  BY <1>2, <1>3 DEF Renewed
<1> QED BY <1>1, <1>2, <1>3, <1>4 DEF WorkOK

LEMMA SecretStep ==
    ASSUME CertTypeOK, SecretInv, WorkInv, CertNext
    PROVE  SecretInv'
<1>1. CASE UNCHANGED <<now, secret>>
  BY <1>1 DEF SecretInv, Issued, Outdated, Exists
<1>2. ASSUME NEW w \in Workers, WriteSecret(w) PROVE SecretInv'
  <2>1. CASE UNCHANGED secret
    BY <1>1, <1>2, <2>1, WriteSecretFields
  <2>2. CASE /\ ~Exists(work[w].read) \/ work[w].certs # work[w].read
             /\ "secret" \notin work[w].changed
             /\ secret' = work[w].certs
    <3>1. Renewed(secret, secret') /\ now' = now
      BY <1>2, <2>2, SecretIsReplaced, WriteSecretFields
    <3>2. secret' \in CertSecret /\ now \in Nat
      BY <1>2, WriteSecretFields DEF CertTypeOK
    <3>3. secret'.server \in Cert
      BY <3>1, <3>2, Deadlines DEF Renewed, Cert
    <3> QED BY <3>1, <3>2, <3>3 DEF SecretInv, Renewed, Issued, Valid, Outdated
  <2> QED BY <1>2, <2>1, <2>2, WriteSecretFields
<1>3. CASE DeleteSecret
  BY <1>3, DeleteSecretFields DEF SecretInv, Exists
<1>4. CASE Tick
  <2>1. now' = now + 1 /\ UNCHANGED secret /\ now \in Nat
    BY <1>4, TickFields, Numbers
  <2>2. SUFFICES ASSUME Exists(secret) PROVE Issued(secret.server, secret)'
    BY <2>1 DEF SecretInv, Exists
  <2>3. secret.server.notAfter \in Nat
    BY <2>2 DEF SecretInv, Cert, Time
  <2> QED BY <2>1, <2>2, <2>3 DEF SecretInv, Issued
<1>5. ASSUME NEW w \in Workers, Controller(w) \/ CallFails(w), ~WriteSecret(w) PROVE UNCHANGED <<now, secret>>
  BY <1>5
  DEF Controller, ReadConfigurations, ReadSecret, UpdateClientConfigurations, UpdateCRDConfiguration,
      CallFails
<1>6. Webhook \/ WebhookRestarts \/ (\E t \in Target : Reapply(t)) => UNCHANGED <<now, secret>>
  BY PodFields, ReapplyFields
<1> QED BY <1>1, <1>2, <1>3, <1>4, <1>5, <1>6 DEF CertNext

\* what another worker does not disturb
LEMMA WorkerKept ==
    ASSUME CertTypeOK, NEW v \in Workers, WorkOK(v), Kept(v), UNCHANGED <<now, secret>>,
           \A t \in Target : missed[t] # 0 /\ missed'[t] = 0 => Valid(secret),
           \A t \in Target : bundle'[t] \subseteq bundle[t] \/ Valid(secret)
    PROVE  WorkOK(v)'
<1>1. Valid(secret)' = Valid(secret) /\ work[v].absent \subseteq Target /\ work[v].read \in CertSecret
  BY Order DEF Valid, Outdated, CertTypeOK, Work
<1>2. /\ Valid(work[v].read)' = Valid(work[v].read)
      /\ Renewed(work[v].read, work[v].certs)' = Renewed(work[v].read, work[v].certs)
  BY DEF Renewed, Valid, Outdated, Kept
<1>3. ASSUME work[v].pc = "writeSecret", "secret" \notin work'[v].changed, work[v].certs.root # work[v].read.root
      PROVE  \A t \in Target : work[v].certs.root.root \notin bundle'[t]
  <2>1. "secret" \notin work[v].changed /\ work[v].certs # work[v].read
    BY <1>3 DEF Kept
  <2>2. ~Valid(secret)
    BY <1>3, <2>1 DEF WorkOK, Renewed
  <2> QED BY <1>3, <2>1, <2>2 DEF WorkOK
<1>4. ASSUME work[v].pc \in {"secret", "writeSecret"}, NEW t \in work[v].absent, missed'[t] = 0 PROVE Valid(secret)
  BY <1>1, <1>4 DEF WorkOK
<1>5. work'[v].pc = "writeSecret" =>
        /\ \/ Valid(work[v].read)' /\ work[v].certs = work[v].read
           \/ Renewed(work[v].read, work[v].certs)'
        /\ work'[v].certs = work'[v].read \/ "secret" \notin work'[v].changed => work'[v].read = secret
        /\ "secret" \notin work'[v].changed /\ work'[v].certs.root # work'[v].read.root =>
              \A t \in Target : work'[v].certs.root.root \notin bundle'[t]
  BY <1>2, <1>3 DEF WorkOK, Kept
<1>6. work'[v].pc \in Target => work'[v].certs = secret /\ Valid(secret)
  BY DEF WorkOK, Kept
<1>7. work'[v].pc \in {"secret", "writeSecret"} => \A t \in work'[v].absent : missed'[t] = 0 => Valid(secret)
  BY <1>4 DEF Kept
<1>8. work'[v].read = work[v].read /\ work'[v].certs = work[v].certs
  BY DEF Kept
<1> HIDE DEF Kept
<1> QED BY <1>1, <1>5, <1>6, <1>7, <1>8 DEF WorkOK

LEMMA WorkStep ==
    ASSUME CertTypeOK, SecretInv, WorkInv, CertNext
    PROVE  WorkInv'
<1>1. ASSUME NEW w \in Workers, ReadConfigurations(w) PROVE WorkInv'
  <2> USE <1>1, ReadConfigurationsFields
  <2>1. ASSUME NEW v \in Workers \ {w} PROVE WorkOK(v)'
    <3>1. WorkOK(v) /\ Kept(v) /\ UNCHANGED <<now, secret, bundle>>
      BY DEF WorkInv
    <3>2. \A t \in Target : missed[t] # 0 => missed'[t] # 0
      OBVIOUS
    <3> QED BY <3>1, <3>2, WorkerKept
  <2>2. work'[w].pc = "secret" /\ work'[w].absent \subseteq Target /\ work'[w].pc \notin Target
    BY Order DEF CertTypeOK, Work
  <2>3. \A t \in work'[w].absent : missed'[t] # 0
    BY <2>2
  <2>4. WorkOK(w)'
    BY <2>2, <2>3 DEF WorkOK
  <2> QED BY <2>1, <2>4 DEF WorkInv
<1>2. ASSUME NEW w \in Workers, ReadSecret(w) PROVE WorkInv'
  <2>1. /\ UNCHANGED <<now, secret, bundle>> /\ work[w].pc = "secret"
        /\ \A v \in Workers \ {w} : Kept(v)
        /\ \/ /\ work'[w].pc \in {"idle", "done"} /\ Valid(secret)
           \/ /\ work'[w].pc = "writeSecret" /\ work'[w].absent = work[w].absent
              /\ work'[w].read = secret
              /\ \/ Valid(secret) /\ work'[w].certs = secret
                 \/ /\ Renewed(secret, work'[w].certs)
                    /\ \/ work'[w].certs.root = secret.root
                       \/ \A t \in Target : work'[w].certs.root.root \notin bundle[t]
              /\ UNCHANGED missed
    BY <1>2, ReadSecretFields
  <2>2. \A t \in Target : missed[t] # 0 /\ missed'[t] = 0 => Valid(secret)
    BY <2>1
  <2>3. ASSUME NEW v \in Workers \ {w} PROVE WorkOK(v)'
    <3>1. WorkOK(v)
      BY DEF WorkInv
    <3> QED BY <2>1, <2>2, <3>1, WorkerKept
  <2>4. CASE work'[w].pc \in {"idle", "done"}
    BY <2>3, <2>4, Order DEF WorkInv, WorkOK
  <2>5. CASE /\ work'[w].pc = "writeSecret" /\ work'[w].absent = work[w].absent
             /\ work'[w].read = secret
             /\ \/ Valid(secret) /\ work'[w].certs = secret
                \/ /\ Renewed(secret, work'[w].certs)
                   /\ \/ work'[w].certs.root = secret.root
                      \/ \A t \in Target : work'[w].certs.root.root \notin bundle[t]
             /\ UNCHANGED missed
    <3> DEFINE certs == work'[w].certs
    <3>1. Valid(secret)' = Valid(secret)
      BY <2>1 DEF Valid, Outdated
    <3>2. /\ (\/ Valid(secret) /\ certs = secret
              \/ Renewed(secret, certs))
          /\ certs.root # secret.root => \A t \in Target : certs.root.root \notin bundle[t]
      BY <2>5
    <3> HIDE DEF certs
    <3>4. \A t \in work[w].absent : missed'[t] = 0 => Valid(secret)
      BY <2>1, <2>5 DEF WorkInv, WorkOK
    <3>5. work'[w].pc \notin Target
      BY <2>5, Order
    <3>6. WorkOK(w)'
      <4>1. work'[w].certs = certs
        BY DEF certs
      <4>3. (Valid(work[w].read)' /\ work'[w].certs = work'[w].read) \/ Renewed(work[w].read, work[w].certs)'
        BY <2>1, <2>5, <3>1, <3>2, <4>1 DEF Renewed, Valid, Outdated
      <4> QED BY <2>1, <2>5, <3>1, <3>2, <3>4, <3>5, <4>1, <4>3 DEF WorkOK
    <3> QED BY <2>3, <3>6 DEF WorkInv
  <2> QED BY <2>1, <2>4, <2>5
<1>r. ASSUME NEW w \in Workers, work'[w].pc \in {"retry", "idle", "done"}, UNCHANGED <<now, secret>>,
             \A v \in Workers \ {w} : Kept(v),
             \A t \in Target : missed[t] # 0 /\ missed'[t] = 0 => Valid(secret),
             \A t \in Target : bundle'[t] \subseteq bundle[t] \/ Valid(secret)
      PROVE  WorkInv'
  <2>1. ASSUME NEW v \in Workers \ {w} PROVE WorkOK(v)'
    BY <1>r, WorkerKept DEF WorkInv
  <2>2. WorkOK(w)'
    BY <1>r, Order DEF WorkOK
  <2> QED BY <2>1, <2>2 DEF WorkInv
<1>s. ASSUME NEW w \in Workers, work'[w].pc \in Target, work'[w].certs = secret, Valid(secret), UNCHANGED <<now, secret>>,
             \A v \in Workers \ {w} : Kept(v)
      PROVE  WorkInv'
  <2>1. ASSUME NEW v \in Workers \ {w} PROVE WorkOK(v)'
    BY <1>s, WorkerKept DEF WorkInv
  <2>2. Valid(secret)'
    BY <1>s DEF Valid, Outdated
  <2>3. WorkOK(w)'
    BY <1>s, <2>2, Order DEF WorkOK
  <2> QED BY <2>1, <2>3 DEF WorkInv
<1>3. ASSUME NEW w \in Workers, WriteSecret(w) PROVE WorkInv'
  <2>1. /\ CertTypeOK' /\ UNCHANGED <<now, bundle>> /\ work[w].pc = "writeSecret"
        /\ \A v \in Workers \ {w} : Kept(v)
        /\ \/ /\ work[w].certs = work[w].read
              /\ work'[w].pc = "mutating" /\ work'[w].certs = work[w].certs
              /\ UNCHANGED <<secret, due, missed>>
           \/ /\ work'[w].pc = "retry"
              /\ UNCHANGED <<secret, missed>>
           \/ /\ ~Exists(work[w].read) \/ work[w].certs # work[w].read
              /\ "secret" \notin work[w].changed
              /\ secret' = work[w].certs
              /\ work'[w].pc = "mutating" /\ work'[w].certs = work[w].certs
              /\ \A v \in Workers \ {w} : work[v].pc \in {"secret", "writeSecret"} => "secret" \in work'[v].changed
              /\ UNCHANGED <<due, missed>>
    BY <1>3, WriteSecretFields
  <2>2. CASE /\ work[w].certs = work[w].read
             /\ work'[w].pc = "mutating" /\ work'[w].certs = work[w].certs
             /\ UNCHANGED <<secret, due, missed>>
    <3>1. work[w].read \in CertSecret /\ WorkOK(w)
      BY DEF CertTypeOK, Work, WorkInv
    <3>2. work[w].read = secret /\ Valid(secret)
      BY <2>1, <2>2, <3>1, NoSecretIsOutdated DEF WorkOK
    <3>3. work'[w].pc \in Target /\ work'[w].certs = secret
      BY <2>2, <3>2 DEF Target, Checked, Configs
    <3> QED BY <1>s, <2>1, <2>2, <3>2, <3>3
  <2>3. CASE work'[w].pc = "retry" /\ UNCHANGED <<secret, missed>>
    BY <1>r, <2>1, <2>3
  <2>4. CASE /\ ~Exists(work[w].read) \/ work[w].certs # work[w].read
             /\ "secret" \notin work[w].changed
             /\ secret' = work[w].certs
             /\ work'[w].pc = "mutating" /\ work'[w].certs = work[w].certs
             /\ \A v \in Workers \ {w} : work[v].pc \in {"secret", "writeSecret"} => "secret" \in work'[v].changed
             /\ UNCHANGED <<due, missed>>
    <3>1. ~Valid(secret) /\ Valid(work[w].certs)
      BY <2>1, <2>4, SecretIsReplaced
    <3>2. Valid(secret)'
      BY <2>1, <2>4, <3>1 DEF Valid, Outdated
    <3>3. WorkOK(w)'
      BY <2>4, <3>2, Order DEF WorkOK
    <3>4. ASSUME NEW v \in Workers \ {w} PROVE WorkOK(v)'
      <4>1. WorkOK(v) /\ Kept(v) /\ work[v].read \in CertSecret
        BY <2>1 DEF WorkInv, CertTypeOK, Work
      <4>2. work[v].pc \notin Target
        BY <3>1, <4>1 DEF WorkOK
      <4>3. CASE work[v].pc = "writeSecret"
        <5>1. "secret" \in work'[v].changed
          BY <2>4, <4>3
        <5>2. Renewed(work[v].read, work[v].certs) /\ work[v].certs # work[v].read
          BY <3>1, <4>1, <4>3, NoSecretIsOutdated DEF WorkOK
        <5>3. Renewed(work[v].read, work[v].certs)' /\ work'[v].certs # work'[v].read
          BY <2>1, <4>1, <5>2 DEF Renewed, Valid, Outdated, Kept
        <5>4. work'[v].pc = "writeSecret" /\ work'[v].pc \notin Target
          BY <4>1, <4>3, Order DEF Kept
        <5> QED BY <3>2, <5>1, <5>3, <5>4 DEF WorkOK
      <4>4. CASE work[v].pc # "writeSecret"
        BY <3>2, <4>1, <4>2, <4>4 DEF WorkOK, Kept
      <4> QED BY <4>3, <4>4
    <3> QED BY <3>3, <3>4 DEF WorkInv
  <2> QED BY <2>1, <2>2, <2>3, <2>4
<1>4. ASSUME NEW w \in Workers, NEW t \in Configs, UpdateClientConfigurations(w, t) PROVE WorkInv'
  <2>1. /\ work[w].pc = t /\ UNCHANGED <<now, secret>>
        /\ \A v \in Workers \ {w} : Kept(v)
        /\ \/ work'[w].pc = After(t) /\ work'[w].certs = work[w].certs
           \/ work'[w].pc = "retry"
    BY <1>4, UpdateClientFields
  <2>2. t \in Target /\ After(t) \in Target
    BY Order
  <2>3. work[w].certs = secret /\ Valid(secret)
    BY <2>1, <2>2 DEF WorkInv, WorkOK
  <2> QED BY <1>r, <1>s, <2>1, <2>2, <2>3
<1>5. ASSUME NEW w \in Workers, NEW t \in Target \ Configs, UpdateCRDConfiguration(w, t) PROVE WorkInv'
  <2>1. /\ work[w].pc = t /\ UNCHANGED <<now, secret>>
        /\ \A v \in Workers \ {w} : Kept(v)
        /\ \/ work'[w].pc \in {"idle", "done"}
           \/ t # "edgeconnect" /\ work'[w].pc = After(t) /\ work'[w].certs = work[w].certs
    BY <1>5, UpdateCRDFields
  <2>2. t # "edgeconnect" => After(t) \in Target
    BY Order
  <2>3. work[w].certs = secret /\ Valid(secret)
    BY <2>1, <2>2 DEF WorkInv, WorkOK
  <2> QED BY <1>r, <1>s, <2>1, <2>2, <2>3
<1>6. ASSUME NEW w \in Workers, CallFails(w) PROVE WorkInv'
  BY <1>6, <1>r, CallFailsFields
<1>7. CASE Webhook \/ WebhookRestarts
  <2>1. ASSUME NEW v \in Workers PROVE WorkOK(v)'
    BY <1>7, PodFields, WorkerKept DEF WorkInv, Kept
  <2> QED BY <2>1 DEF WorkInv
<1>8. ASSUME NEW t \in Target, Reapply(t) PROVE WorkInv'
  <2>1. /\ \A v \in Workers : Kept(v)
        /\ UNCHANGED <<now, secret>>
        /\ \A u \in Target : bundle'[u] \subseteq bundle[u]
        /\ \A u \in Target : missed[u] # 0 => missed'[u] # 0
    BY <1>8, ReapplyFields
  <2>2. ASSUME NEW v \in Workers PROVE WorkOK(v)'
    BY <2>1, WorkerKept DEF WorkInv
  <2> QED BY <2>2 DEF WorkInv
<1>9. CASE DeleteSecret \/ Tick
  <2>1. Settled /\ UNCHANGED work
    BY <1>9, DeleteSecretFields, TickFields
  <2> QED BY <2>1, Order DEF Settled, WorkInv, WorkOK
<1> QED BY <1>1, <1>2, <1>3, <1>4, <1>5, <1>6, <1>7, <1>8, <1>9 DEF CertNext, Controller

\* the bundle of one object, as BundleInv has it
BundleOK(t) ==
    /\ secret.root.root \in bundle[t] => bundle[t] = CombinedBundle(secret)
    /\ missed[t] = 0 => bundle[t] = CombinedBundle(secret) \/ \E w \in Workers : Covers(w, t)

\* Who stays at what it does goes on covering a bundle that nobody writes.
LEMMA CoversKept ==
    ASSUME NEW v \in Workers, NEW t \in Target, Kept(v), bundle'[t] = bundle[t], Covers(v, t)
    PROVE  Covers(v, t)'
<1> HIDE DEF Ahead
<1> QED BY DEF Covers, Kept

\* A step of one worker keeps what the others cover, and has to answer for what it covered itself.
LEMMA BundleKept ==
    ASSUME NEW w \in Workers, NEW t \in Target, BundleOK(t), \A v \in Workers \ {w} : Kept(v),
           UNCHANGED secret, bundle'[t] = bundle[t], missed'[t] = 0 => missed[t] = 0,
           missed'[t] = 0 /\ Covers(w, t) => Covers(w, t)' \/ bundle[t] = CombinedBundle(secret)
    PROVE  BundleOK(t)'
<1>1. ASSUME missed'[t] = 0, NEW v \in Workers, Covers(v, t)
      PROVE  bundle[t] = CombinedBundle(secret) \/ \E u \in Workers : Covers(u, t)'
  <2>1. CASE v = w
    BY <1>1, <2>1
  <2>2. CASE v # w
    BY <1>1, <2>2, CoversKept
  <2> QED BY <2>1, <2>2
<1>2. CombinedBundle(secret)' = CombinedBundle(secret)
  BY DEF CombinedBundle
<1> QED BY <1>1, <1>2 DEF BundleOK

LEMMA BundleStep ==
    ASSUME CertTypeOK, SecretInv, WorkInv, BundleInv, CertNext
    PROVE  BundleInv'
<1> HIDE DEF Ahead
<1>1. ASSUME NEW w \in Workers, ReadConfigurations(w), Exists(secret), NEW t \in Target PROVE BundleOK(t)'
  <2>1. BundleOK(t) /\ UNCHANGED <<secret, bundle>> /\ \A v \in Workers \ {w} : Kept(v)
    BY <1>1, ReadConfigurationsFields DEF BundleInv, BundleOK
  <2>2. missed'[t] = 0 => missed[t] = 0 /\ t \notin work'[w].absent
    BY <1>1, ReadConfigurationsFields
  <2>3. missed'[t] = 0 /\ Covers(w, t) => Covers(w, t)'
    <3>1. work[w].pc \in {"idle", "retry"} /\ work'[w].pc = "secret"
          /\ \A u \in Checked : work'[w].seen[u] = bundle'[u]
      BY <1>1, <2>1, ReadConfigurationsFields
    <3>2. Covers(w, t) => t \in Checked
      BY <3>1, Order DEF Covers
    <3> QED BY <2>2, <3>1, <3>2 DEF Covers
  <2> QED BY <2>1, <2>2, <2>3, BundleKept
<1>2. ASSUME NEW w \in Workers, ReadSecret(w), Exists(secret), NEW t \in Target PROVE BundleOK(t)'
  <2>1. BundleOK(t)
    BY <1>2 DEF BundleInv, BundleOK
  <2>2. /\ UNCHANGED <<secret, bundle>> /\ work[w].pc = "secret"
        /\ \A v \in Workers \ {w} : Kept(v)
        /\ \/ /\ work'[w].pc \in {"idle", "done"}
              /\ \A u \in Checked \ work[w].absent : work[w].seen[u] = {secret.root.root}
              /\ \A u \in Target : missed'[u] = IF bundle[u] = {secret.root.root} THEN 0 ELSE missed[u]
           \/ /\ work'[w].pc = "writeSecret" /\ work'[w].absent = work[w].absent
              /\ UNCHANGED missed
    BY <1>2, ReadSecretFields
  <2>3. Covers(w, t) => t \in Checked \ work[w].absent /\ work[w].seen[t] = bundle[t]
    BY <2>2, Order DEF Covers
  <2>4. CASE bundle[t] = CombinedBundle(secret)
    BY <2>1, <2>2, <2>4 DEF BundleOK, CombinedBundle
  <2>5. CASE bundle[t] # CombinedBundle(secret)
    <3>1. secret.root.root \notin bundle[t]
      BY <2>1, <2>5 DEF BundleOK
    <3>2. missed'[t] = missed[t]
      BY <2>2, <3>1
    <3>3. Covers(w, t) => Covers(w, t)'
      BY <2>2, <2>3, <3>1 DEF Covers
    <3> QED BY <2>1, <2>2, <3>2, <3>3, BundleKept
  <2> QED BY <2>4, <2>5
<1>3. ASSUME NEW w \in Workers, WriteSecret(w), Exists(secret)' PROVE BundleInv'
  <2>1. /\ UNCHANGED bundle /\ work[w].pc = "writeSecret"
        /\ \A v \in Workers \ {w} : Kept(v)
        /\ \/ /\ work'[w].pc = "mutating" /\ work'[w].absent = work[w].absent
              /\ UNCHANGED <<secret, missed>>
           \/ /\ work'[w].pc = "retry"
              /\ UNCHANGED <<secret, missed>>
           \/ /\ ~Exists(work[w].read) \/ work[w].certs # work[w].read
              /\ "secret" \notin work[w].changed
              /\ secret' = work[w].certs
              /\ work'[w].pc = "mutating" /\ work'[w].absent = work[w].absent
              /\ UNCHANGED missed
    BY <1>3, WriteSecretFields
  <2>2. CASE UNCHANGED <<secret, missed>> /\ (work'[w].pc = "retry" \/ (work'[w].pc = "mutating" /\ work'[w].absent = work[w].absent))
    <3>1. \A t \in Target : BundleOK(t)
      BY <1>3, <2>2 DEF BundleInv, BundleOK, Exists
    <3>2. \A t \in Target : Covers(w, t) => t \in Checked \ work[w].absent
      BY <2>1, Order DEF Covers
    <3>3. \A t \in Target : Covers(w, t) => Covers(w, t)'
      BY <2>1, <2>2, <3>2, Order DEF Covers, Target, Checked, Configs
    <3>4. \A t \in Target : BundleOK(t)'
      BY <2>1, <2>2, <3>1, <3>3, BundleKept
    <3> QED BY <3>4 DEF BundleInv, BundleOK
  <2>3. CASE /\ ~Exists(work[w].read) \/ work[w].certs # work[w].read
             /\ "secret" \notin work[w].changed
             /\ secret' = work[w].certs
             /\ work'[w].pc = "mutating" /\ work'[w].absent = work[w].absent
             /\ UNCHANGED missed
    <3>1. /\ Renewed(secret, secret')
          /\ secret'.root # secret.root => \A t \in Target : secret'.root.root \notin bundle[t]
          /\ \A t \in work[w].absent : missed[t] # 0
      BY <2>1, <2>3, SecretIsReplaced
    <3>2. ASSUME NEW t \in Target, secret'.root.root \in bundle[t] PROVE bundle[t] = CombinedBundle(secret')
      <4>1. secret'.root = secret.root /\ secret.root \in Cert
        BY <3>1, <3>2 DEF Renewed
      <4>2. Exists(secret)
        BY <4>1, NoSecretIsOutdated DEF CertTypeOK
      <4>3. bundle[t] = CombinedBundle(secret)
        BY <3>2, <4>1, <4>2 DEF BundleInv
      <4>4. secret'.old = secret.old \/ secret'.old = secret.root.root
        BY <3>1 DEF Renewed
      <4>5. secret'.old # secret'.root.root
        BY <3>1 DEF Renewed
      <4> QED BY <4>1, <4>3, <4>4, <4>5 DEF CombinedBundle
    <3>3. ASSUME NEW t \in Target, missed[t] = 0 PROVE Covers(w, t)'
      <4>1. t \in Ahead("mutating") \ work'[w].absent /\ "mutating" \in Target
        BY <2>3, <3>1, <3>3, Order DEF Target, Checked, Configs
      <4> QED BY <2>3, <4>1 DEF Covers
    <3> QED BY <2>1, <2>3, <3>2, <3>3 DEF BundleInv, CombinedBundle
  <2> QED BY <2>1, <2>2, <2>3
<1>b. ASSUME NEW w \in Workers, NEW t \in Target, work[w].pc = t, BundleWritten(w, t), UNCHANGED secret,
             Exists(secret), \A v \in Workers \ {w} : Kept(v),
             \/ t = "edgeconnect"
             \/ t # "edgeconnect" /\ work'[w].pc = After(t) /\ work'[w].absent = work[w].absent
      PROVE  \A u \in Target : BundleOK(u)'
  <2>1. work[w].certs = secret
    BY <1>b DEF WorkInv, WorkOK
  <2>2. BundleOK(t)'
    BY <1>b, <2>1 DEF BundleOK, BundleWritten, CombinedBundle
  <2>3. ASSUME NEW u \in Target \ {t} PROVE BundleOK(u)'
    <3>1. BundleOK(u) /\ bundle'[u] = bundle[u] /\ missed'[u] = missed[u]
      BY <1>b, <2>3 DEF BundleInv, BundleOK, BundleWritten
    <3>2. Covers(w, u) => u \in Ahead(t) \ work[w].absent
      BY <1>b, Order DEF Covers
    <3>3. Covers(w, u) => Covers(w, u)'
      <4>1. CASE t = "edgeconnect"
        BY <2>3, <3>2, <4>1, Order
      <4>2. CASE t # "edgeconnect"
        BY <1>b, <2>3, <3>2, <4>2, Order DEF Covers
      <4> QED BY <4>1, <4>2
    <3> QED BY <1>b, <3>1, <3>3, BundleKept
  <2> QED BY <2>2, <2>3
<1>r. ASSUME NEW w \in Workers, UNCHANGED <<secret, bundle>>, Exists(secret),
             \A v \in Workers \ {w} : Kept(v), work'[w].pc = "retry",
             \A u \in Target : missed'[u] = IF u = "edgeconnect" /\ work[w].pc \in Target THEN 1 ELSE missed[u]
      PROVE  \A u \in Target : BundleOK(u)'
  <2> SUFFICES ASSUME NEW u \in Target PROVE BundleOK(u)'
    OBVIOUS
  <2>1. BundleOK(u) /\ (missed'[u] = 0 => missed[u] = 0)
    BY <1>r DEF BundleInv, BundleOK
  <2>2. missed'[u] = 0 /\ Covers(w, u) => u \in Checked
    <3>1. u \in Checked \/ u = "edgeconnect"
      BY DEF Target
    <3> QED BY <1>r, <3>1, Order DEF Covers
  <2>3. missed'[u] = 0 /\ Covers(w, u) => Covers(w, u)'
    BY <1>r, <2>2 DEF Covers
  <2> QED BY <1>r, <2>1, <2>3, BundleKept
<1>4. ASSUME NEW w \in Workers, NEW t \in Configs, UpdateClientConfigurations(w, t), Exists(secret)
      PROVE  \A u \in Target : BundleOK(u)'
  <2>1. /\ work[w].pc = t /\ UNCHANGED secret
        /\ \A v \in Workers \ {w} : Kept(v)
        /\ \/ /\ t \in work[w].absent
              /\ work'[w].pc = After(t) /\ work'[w].absent = work[w].absent
              /\ UNCHANGED <<bundle, due, missed>>
           \/ /\ work'[w].pc = "retry"
              /\ \A u \in Target : missed'[u] = IF u = "edgeconnect" THEN 1 ELSE missed[u]
              /\ UNCHANGED bundle
           \/ /\ work'[w].pc = After(t) /\ work'[w].absent = work[w].absent
              /\ BundleWritten(w, t)
    BY <1>4, UpdateClientFields
  <2>2. t \in Target /\ t # "edgeconnect" /\ After(t) \in Target /\ Ahead(After(t)) = Ahead(t) \ {t}
    BY Order
  <2>3. CASE /\ t \in work[w].absent
             /\ work'[w].pc = After(t) /\ work'[w].absent = work[w].absent
             /\ UNCHANGED <<bundle, due, missed>>
    <3> SUFFICES ASSUME NEW u \in Target PROVE BundleOK(u)'
      OBVIOUS
    <3>1. BundleOK(u)
      BY <1>4 DEF BundleInv, BundleOK
    <3>2. Covers(w, u) => u \in Ahead(t) \ work[w].absent
      BY <2>1, <2>2, Order DEF Covers
    <3>3. Covers(w, u) => Covers(w, u)'
      BY <2>2, <2>3, <3>2 DEF Covers
    <3> QED BY <2>1, <2>3, <3>1, <3>3, BundleKept
  <2>4. CASE /\ work'[w].pc = "retry"
             /\ \A u \in Target : missed'[u] = IF u = "edgeconnect" THEN 1 ELSE missed[u]
             /\ UNCHANGED bundle
    BY <1>4, <1>r, <2>1, <2>2, <2>4
  <2>5. CASE /\ work'[w].pc = After(t) /\ work'[w].absent = work[w].absent
             /\ BundleWritten(w, t)
    BY <1>4, <1>b, <2>1, <2>2, <2>5
  <2> QED BY <2>1, <2>3, <2>4, <2>5
<1>5. ASSUME NEW w \in Workers, NEW t \in Target \ Configs, UpdateCRDConfiguration(w, t), Exists(secret)
      PROVE  \A u \in Target : BundleOK(u)'
  <2>1. /\ work[w].pc = t /\ UNCHANGED secret /\ BundleWritten(w, t)
        /\ \A v \in Workers \ {w} : Kept(v)
        /\ \/ t = "edgeconnect"
           \/ t # "edgeconnect" /\ work'[w].pc = After(t) /\ work'[w].absent = work[w].absent
    BY <1>5, UpdateCRDFields
  <2> QED BY <1>5, <1>b, <2>1
<1>6. ASSUME NEW w \in Workers, CallFails(w), Exists(secret) PROVE \A u \in Target : BundleOK(u)'
  BY <1>6, <1>r, CallFailsFields
<1>k. ASSUME UNCHANGED secret, Exists(secret), \A v \in Workers : Kept(v), NEW t \in Target,
             missed'[t] = 0 => missed[t] = 0, bundle'[t] = bundle[t]
      PROVE  BundleOK(t)'
  <2>1. BundleOK(t)
    BY <1>k DEF BundleInv, BundleOK
  <2>2. Covers("operator", t) => Covers("operator", t)'
    BY <1>k, CoversKept
  <2> QED BY <1>k, <2>1, <2>2, BundleKept
<1>7. ASSUME Webhook \/ WebhookRestarts, Exists(secret), NEW t \in Target PROVE BundleOK(t)'
  BY <1>7, <1>k, PodFields DEF Kept
<1>8. ASSUME NEW t \in Target, Reapply(t), Exists(secret), NEW u \in Target PROVE BundleOK(u)'
  <2>1. CASE u = t
    BY <1>8, <2>1, ReapplyFields DEF BundleOK
  <2>2. CASE u # t
    BY <1>8, <1>k, <2>2, ReapplyFields
  <2> QED BY <2>1, <2>2
<1>9. ASSUME Tick, Exists(secret), NEW t \in Target PROVE BundleOK(t)'
  <2>1. missed'[t] = 0 => missed[t] = 0
    BY <1>9, TickFields, Numbers
  <2> QED BY <1>9, <1>k, <2>1, TickFields DEF Kept
<1>10. CASE DeleteSecret
  BY <1>10, DeleteSecretFields, NoSecretIsOutdated DEF BundleInv, Exists
<1>11. ASSUME UNCHANGED secret, Exists(secret) => \A t \in Target : BundleOK(t)' PROVE BundleInv'
  BY <1>11 DEF BundleInv, BundleOK, Exists
<1>12. ASSUME NEW w \in Workers, Controller(w) \/ CallFails(w), ~WriteSecret(w) PROVE UNCHANGED secret
  BY <1>12
  DEF Controller, ReadConfigurations, ReadSecret, UpdateClientConfigurations, UpdateCRDConfiguration,
      CallFails
<1>13. ASSUME NEW w \in Workers, Controller(w) \/ CallFails(w) PROVE BundleInv'
  <2>1. CASE WriteSecret(w)
    BY <1>3, <2>1 DEF BundleInv
  <2>2. CASE ~WriteSecret(w)
    BY <1>1, <1>2, <1>4, <1>5, <1>6, <1>11, <1>12, <1>13, <2>2 DEF Controller
  <2> QED BY <2>1, <2>2
<1>14. CASE Webhook \/ WebhookRestarts
  BY <1>7, <1>11, <1>14, PodFields
<1>15. ASSUME NEW t \in Target, Reapply(t) PROVE BundleInv'
  BY <1>8, <1>11, <1>15, ReapplyFields
<1>16. CASE Tick
  BY <1>9, <1>11, <1>16, TickFields
<1> QED BY <1>10, <1>13, <1>14, <1>15, <1>16 DEF CertNext

(***************************************************************************)
(* A certificate outlives the replacement of its root by one, and when it  *)
(* comes to a second one it has expired.                                   *)
(***************************************************************************)
LEMMA CurrentOutlivesReplacement ==
    ASSUME CertTypeOK, RootOutlivesServer, SecretInv, Exists(secret), NEW c \in Cert, Current(c),
           Renewed(secret, secret'), secret' \in CertSecret, UNCHANGED now
    PROVE  Current(c)'
<1>1. /\ now \in Nat /\ c.notAfter \in Nat
      /\ secret.root \in Cert /\ secret.root.notAfter \in Nat /\ secret.root # NoCert
  BY Numbers, NoCertIsNone DEF SecretInv, Cert, Time
<1>2. CASE secret'.root = secret.root /\ secret'.old = secret.old
  BY <1>2 DEF Current, Issued, Outdated
<1>3. CASE /\ Outdated(secret.root, RenewalThreshold)
           /\ secret'.old = secret.root.root
           /\ secret'.root.notAfter = now + RootDuration
  <2>1. now + RenewalThreshold > secret.root.notAfter
    BY <1>1, <1>3 DEF Outdated
  <2>2. CASE Issued(c, secret)
    <3>1. c.root = secret'.old /\ c.notAfter < now + ServerDuration
      BY <1>1, <1>3, <2>2 DEF Issued
    <3>2. c.notAfter + RootDuration < secret'.root.notAfter + ServerDuration
      BY <1>1, <1>3, <3>1
    <3> QED BY <3>1, <3>2 DEF Current
  <2>3. CASE c.notAfter + RootDuration < secret.root.notAfter + ServerDuration
    <3>1. c.notAfter < now
      BY <1>1, <2>1, <2>3 DEF RootOutlivesServer
    <3> QED BY <3>1 DEF Current
  <2>4. CASE c.notAfter < now
    BY <2>4 DEF Current
  <2> QED BY <2>2, <2>3, <2>4 DEF Current
<1> QED BY <1>2, <1>3 DEF Renewed

LEMMA PodStep ==
    ASSUME CertTypeOK, RootOutlivesServer, SecretInv, WorkInv, PodInv, CertNext
    PROVE  PodInv'
<1>t. webhookPod.served \in Cert \cup {NoCert} /\ (Serving => webhookPod.served \in Cert)
  BY DEF CertTypeOK, WebhookPod, Serving
<1>1. CASE UNCHANGED <<now, secret, webhookPod>>
  BY <1>1 DEF PodInv, Current, Issued, Outdated, Serving, Exists
<1>2. ASSUME NEW w \in Workers, WriteSecret(w) PROVE PodInv'
  <2>1. CASE UNCHANGED secret
    BY <1>1, <1>2, <2>1, WriteSecretFields
  <2>2. CASE /\ ~Exists(work[w].read) \/ work[w].certs # work[w].read
             /\ "secret" \notin work[w].changed
             /\ secret' = work[w].certs
    <3>1. Renewed(secret, secret') /\ UNCHANGED <<now, webhookPod>> /\ secret' \in CertSecret
      BY <1>2, <2>2, SecretIsReplaced, WriteSecretFields DEF CertTypeOK
    <3>2. Exists(secret')
      BY <3>1, NoSecretIsOutdated DEF Renewed
    <3>3. \A c \in Cert : Exists(secret) /\ Current(c) => Current(c)'
      BY <3>1, CurrentOutlivesReplacement
    <3>4. Exists(secret)'
      BY <3>2 DEF Exists
    <3>5. webhookPod.writing => webhookPod.read \in Cert /\ Current(webhookPod.read)'
      <4>1. ASSUME webhookPod.writing PROVE webhookPod.read \in Cert /\ Exists(secret) /\ Current(webhookPod.read)
        BY <4>1 DEF PodInv
      <4>2. ASSUME NEW c \in Cert, c = webhookPod.read, Current(c)' PROVE Current(webhookPod.read)'
        BY <3>1, <4>2 DEF Current, Issued, Outdated
      <4> QED BY <3>3, <4>1, <4>2
    <3>6. Serving /\ ~webhookPod.stale => Current(webhookPod.served)'
      <4>1. ASSUME Serving, ~webhookPod.stale PROVE webhookPod.served \in Cert /\ Exists(secret) /\ Current(webhookPod.served)
        BY <1>t, <4>1 DEF PodInv
      <4>2. ASSUME NEW c \in Cert, c = webhookPod.served, Current(c)' PROVE Current(webhookPod.served)'
        BY <3>1, <4>2 DEF Current, Issued, Outdated
      <4> QED BY <3>3, <4>1, <4>2
    <3> QED BY <3>1, <3>4, <3>5, <3>6 DEF PodInv, Serving
  <2> QED BY <1>2, <2>1, <2>2, WriteSecretFields
<1>3. CASE Webhook \/ WebhookRestarts
  <2>1. UNCHANGED <<now, secret>>
    BY <1>3, PodFields
  <2>2. /\ webhookPod'.writing => webhookPod'.crt = webhookPod'.read
        /\ \/ webhookPod'.writing = FALSE
           \/ ~webhookPod.writing /\ Exists(secret) /\ webhookPod'.read = secret.server
        /\ \/ webhookPod'.served = NoCert
           \/ webhookPod'.served = webhookPod.served /\ webhookPod'.stale = webhookPod.stale
           \/ Exists(secret) /\ webhookPod'.served = secret.server
           \/ webhookPod.writing /\ webhookPod'.served = webhookPod.read
    BY <1>3, PodServes DEF PodInv
  <2>3. Exists(secret) => secret.server \in Cert /\ Current(secret.server)
    BY DEF SecretInv, Current
  <2>4. ASSUME NEW c, Current(c) PROVE Current(c)'
    BY <2>1, <2>4 DEF Current, Issued, Outdated
  <2>5. webhookPod'.writing => Exists(secret) /\ webhookPod'.read \in Cert /\ webhookPod'.crt = webhookPod'.read /\ Current(webhookPod'.read)
    BY <2>2, <2>3
  <2>6. webhookPod'.served # NoCert /\ ~webhookPod'.stale => Exists(secret) /\ Current(webhookPod'.served)
    BY <2>2, <2>3 DEF PodInv, Serving
  <2>7. Exists(secret)' = Exists(secret)
    BY <2>1 DEF Exists
  <2> QED BY <2>1, <2>5, <2>6, <2>7 DEF PodInv, Current, Issued, Outdated, Serving
<1>4. CASE DeleteSecret
  BY <1>4, DeleteSecretFields DEF PodInv, Serving
<1>5. CASE Tick
  <2>1. now' = now + 1 /\ now \in Nat /\ ~webhookPod.writing /\ UNCHANGED <<secret, webhookPod>>
    BY <1>5, TickFields, Numbers
  <2>2. ASSUME Serving, ~webhookPod.stale PROVE Exists(secret) /\ Current(webhookPod.served)'
    <3>1. Exists(secret) /\ Current(webhookPod.served) /\ webhookPod.served.notAfter \in Nat
      BY <1>t, <2>2 DEF PodInv, Cert, Time
    <3> QED BY <2>1, <3>1 DEF Current, Issued
  <2> QED BY <2>1, <2>2 DEF PodInv, Serving, Exists
<1>6. ASSUME NEW w \in Workers, Controller(w) \/ CallFails(w), ~WriteSecret(w) PROVE UNCHANGED <<now, secret, webhookPod>>
  BY <1>6
  DEF Controller, ReadConfigurations, ReadSecret, UpdateClientConfigurations, UpdateCRDConfiguration,
      CallFails
<1>7. (\E t \in Target : Reapply(t)) => UNCHANGED <<now, secret, webhookPod>>
  BY ReapplyFields
<1> QED BY <1>1, <1>2, <1>3, <1>4, <1>5, <1>6, <1>7 DEF CertNext

-----------------------------------------------------------------------------
(***************************************************************************)
(* The theorems.                                                           *)
(***************************************************************************)

RepairedInv == CertTypeOK /\ SecretInv /\ WorkInv /\ BundleInv /\ DueInv /\ RepairInv

LEMMA TypeStep ==
    ASSUME CertTypeOK, SecretInv, CertNext
    PROVE  CertTypeOK'
<1>1. ASSUME NEW w \in Workers, Controller(w) \/ CallFails(w) PROVE CertTypeOK'
  BY <1>1, ReadConfigurationsFields, ReadSecretFields, WriteSecretFields, UpdateClientFields, UpdateCRDFields,
     CallFailsFields DEF Controller
<1> QED BY <1>1, PodFields, DeleteSecretFields, ReapplyFields, TickFields DEF CertNext

LEMMA InitInv == CertInit => RepairedInv /\ PodInv
<1> SUFFICES ASSUME CertInit PROVE RepairedInv /\ PodInv
  OBVIOUS
<1>1. CertTypeOK
  BY InitTypes
<1>2. secret = NoSecret /\ ~Exists(secret)
  BY DEF CertInit, Exists
<1>3. \A w \in Workers : work[w].pc = "idle"
  BY DEF CertInit, IdleWork
<1>4. WorkInv
  BY <1>3, Order DEF WorkInv, WorkOK
<1>5. DueInv /\ RepairInv
  <2>1. now = 0 /\ due = 0 /\ \A t \in Checked : missed[t] = 0
    BY Order DEF CertInit
  <2>2. ~Writing(work["operator"])
    BY <1>3, Order DEF Writing
  <2> QED BY <1>3, <2>1, <2>2 DEF DueInv, RepairInv
<1>6. PodInv
  BY DEF CertInit, PodInv, Serving
<1> QED BY <1>1, <1>2, <1>4, <1>5, <1>6 DEF RepairedInv, SecretInv, BundleInv

LEMMA RepairedStep == RepairedInv /\ [CertNext]_certVars => RepairedInv'
<1> SUFFICES ASSUME RepairedInv, [CertNext]_certVars PROVE RepairedInv'
  OBVIOUS
<1>1. CASE CertNext
  BY <1>1, TypeStep, SecretStep, WorkStep, BundleStep, OperatorStep DEF RepairedInv
<1>2. CASE UNCHANGED certVars
  <2>1. UNCHANGED <<now, secret, bundle, work, due, webhookPod, missed, troubles>>
    BY <1>2 DEF certVars
  <2>2. CertTypeOK'
    BY <2>1 DEF RepairedInv, CertTypeOK
  <2>3. SecretInv' /\ WorkInv'
    BY <2>1 DEF RepairedInv, SecretInv, WorkInv, WorkOK, Renewed, Issued, Valid, Outdated, Exists
  <2>4. BundleInv'
    BY <2>1 DEF RepairedInv, BundleInv, Covers, Exists, CombinedBundle
  <2>5. DueInv' /\ RepairInv'
    BY <2>1 DEF RepairedInv, DueInv, RepairInv, Writing
  <2> QED BY <2>2, <2>3, <2>4, <2>5 DEF RepairedInv
<1> QED BY <1>1, <1>2

LEMMA RepairedCorrect == CertSpec => []RepairedInv
<1>1. CertInit => RepairedInv
  BY InitInv
<1> QED BY <1>1, RepairedStep, PTL DEF CertSpec

(***************************************************************************)
(* A bundle that a reconcile went past, or that was applied anew, is       *)
(* written again within the requeue interval of the operator, whatever     *)
(* fails and whoever else renews.                                          *)
(***************************************************************************)
THEOREM MissedBundlesAreRepaired == CertSpec => []MissedIsRepaired
<1>1. RepairedInv => MissedIsRepaired
  <2> SUFFICES ASSUME RepairedInv, NEW t \in Checked PROVE missed[t] <= RequeueAfter + 1
    BY DEF MissedIsRepaired
  <2>1. now \in Nat /\ due \in Nat /\ missed[t] \in Nat
    BY Numbers, Order DEF RepairedInv
  <2> QED BY <2>1 DEF RepairedInv, DueInv, RepairInv
<1> QED BY <1>1, RepairedCorrect, PTL

(***************************************************************************)
(* When no reconcile is under way, each caller trusts what the pod serves, *)
(* however late the pod has polled, for all durations between which a      *)
(* second renewal of the root comes after the end of what the first one    *)
(* had replaced.                                                           *)
(***************************************************************************)
THEOREM ServedCertificateIsTrusted ==
    ASSUME RootOutlivesServer
    PROVE  CertSpec => []ServedIsTrusted
<1>1. RepairedInv /\ PodInv /\ [CertNext]_certVars => PodInv'
  <2> SUFFICES ASSUME RepairedInv, PodInv, [CertNext]_certVars PROVE PodInv'
    OBVIOUS
  <2>1. CASE CertNext
    BY <2>1, PodStep DEF RepairedInv
  <2>2. CASE UNCHANGED certVars
    BY <2>2 DEF certVars, PodInv, Current, Issued, Outdated, Serving, Exists
  <2> QED BY <2>1, <2>2
<1>2. RepairedInv /\ PodInv => ServedIsTrusted
  <2> SUFFICES ASSUME RepairedInv, PodInv, Settled, Trustworthy, NEW t \in Target, missed[t] = 0
               PROVE  webhookPod.served.root \in bundle[t]
    BY DEF ServedIsTrusted
  <2>1. \A w \in Workers : ~Covers(w, t)
    BY Order DEF Settled, Covers
  <2>2. Exists(secret) /\ Current(webhookPod.served) /\ webhookPod.served \in Cert /\ webhookPod.served.notAfter >= now
    BY DEF Trustworthy, PodInv, RepairedInv, CertTypeOK, WebhookPod, Serving
  <2>3. bundle[t] = CombinedBundle(secret)
    BY <2>1, <2>2 DEF RepairedInv, BundleInv
  <2>4. webhookPod.served.notAfter \in Nat /\ now \in Nat
    BY <2>2, Numbers DEF Cert, Time, RepairedInv
  <2>5. webhookPod.served.root \in {secret.root.root, secret.old}
    BY <2>2, <2>4 DEF Current, Issued
  <2>6. webhookPod.served.root # NoRoot
    BY <2>2, NoCertIsNone
  <2> QED BY <2>3, <2>5, <2>6 DEF CombinedBundle
<1>3. CertInit => PodInv
  BY InitInv
<1> QED BY <1>1, <1>2, <1>3, RepairedCorrect, PTL DEF CertSpec

=============================================================================
