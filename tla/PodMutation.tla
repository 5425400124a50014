---------------------------- MODULE PodMutation ----------------------------
(***************************************************************************)
(* The pod webhook.  A pod that is created passes the webhook, other       *)
(* webhooks may add containers, and then the API server calls it a second  *)
(* time (reinvocationPolicy IfNeeded).  A call runs the handler for the    *)
(* OneAgent and metadata, then the one for OTLP; both change the pod in    *)
(* place, and an error brings the pod of the request back.                 *)
(***************************************************************************)
EXTENDS Naturals, FiniteSets

CONSTANTS
    Container,
    DynaKubes,      \* the DynaKubes to consider (records, see DynaKube)
    Pods,           \* the pods to consider (records, see UserPod)
    MaxChanges      \* bound on changes of the DynaKube and of secrets

VARIABLES
    dk,          \* the DynaKube of the namespace
    source,      \* secrets in the namespace of the operator
    copies,      \* their copies in the namespace of the pod
    user,        \* what the creator of the pod decides
    pod,         \* what webhooks make of it
    calls,       \* calls of this webhook
    changed,     \* another webhook changed the pod since the last call
    outcome,     \* of the last call
    seen,        \* history: the containers of the last call that was not skipped
    changes,     \* changes of the DynaKube and of secrets
    edited,      \* history: the DynaKube changed since the first call
    lost         \* history: something that the first call had was missing in the second

mutationVars == <<dk, source, copies, user, pod, calls, changed, outcome, seen, changes, edited, lost>>

ASSUME ChangesAssumption == MaxChanges \in Nat

Feature == {"oneagent", "metadata", "otlp"}
Secret == {"init", "initCerts", "otlp", "otlpCerts"}
Volume == {"bin", "config", "input", "otlpCerts"}
Mount == {"bin", "preload", "config", "splitOneAgent", "splitMetadata", "otlpCerts"}
VolumeOf(m) == IF m \in {"bin", "otlpCerts"} THEN m ELSE "config"
Env == {"oneagent", "otlp", "attributes"}
Annotation == {"dynatrace", "oneagent", "metadata", "otlp", "volume"}
MaxCalls == 2

InjectionSettings == [on : SUBSET Feature, selects : SUBSET Feature, classic : BOOLEAN, ready : BOOLEAN, certs : BOOLEAN, override : BOOLEAN]
UserPod == [containers : SUBSET Container, excluded : SUBSET Container, inject : BOOLEAN, wants : SUBSET Feature, split : BOOLEAN, ownOTLP : SUBSET Container, foreign : SUBSET Volume]
Pod == [containers : SUBSET Container, mounts : [Container -> SUBSET Mount], env : [Container -> SUBSET Env],
        init : SUBSET Volume, arguments : [Container -> 0..MaxCalls], volumes : [Volume -> {"none", "ours", "foreign"}], annotation : [Annotation -> {"unset", "true", "false"}]]

\* what the schemas of the API server let through
ASSUME ObjectsAssumption == DynaKubes \subseteq InjectionSettings /\ Pods \subseteq UserPod

\* what may fail in a call: looking up the namespace or DynaKube, reading a secret, the owner of the pod (for either handler), the size of the metadata
Failure == Secret \cup {"none", "lookup", "owner", "ownerOTLP", "size"}

MutationTypeOK ==
    /\ dk \in InjectionSettings /\ user \in UserPod /\ pod \in Pod
    /\ source \cup copies \subseteq Secret
    /\ calls \in 0..MaxCalls /\ changes \in 0..MaxChanges
    /\ {changed, edited, lost} \subseteq BOOLEAN
    /\ outcome \in {"none", "skipped", "done", "undone", "admitted"}
    /\ seen \subseteq Container

NewPod(u) ==
    [containers |-> u.containers, mounts |-> [c \in Container |-> {}], env |-> [c \in Container |-> {}], init |-> {},
     arguments |-> [c \in Container |-> 0], volumes |-> [v \in Volume |-> IF v \in u.foreign THEN "foreign" ELSE "none"],
     annotation |-> [a \in Annotation |-> "unset"]]

MutationInit ==
    /\ dk \in DynaKubes /\ user \in Pods
    /\ source \in {{}, Secret} /\ copies = {}
    /\ pod = NewPod(user)
    /\ calls = 0 /\ changed = FALSE /\ outcome = "none" /\ seen = {}
    /\ changes = 0 /\ edited = FALSE /\ lost = FALSE
-----------------------------------------------------------------------------
(* A request: the pod so far, the DynaKube, and what fails *)

\* IsContainerExcludedFromInjection
Included(p) == p.containers \ user.excluded
Enabled(f) == f \in dk.on \cap dk.selects \cap user.wants
PreparesInit == dk.on \cap {"oneagent", "metadata"} # {}
IsSplitMountsEnabled == user.split \/ dk.classic
Set(p, a, value) == [p EXCEPT !.annotation[a] = value]
Change(p, field, cs, added) == [p EXCEPT ![field] = [c \in Container |-> IF c \in cs THEN @[c] \cup added ELSE @[c]]]

\* EnsureReplicated
Present(k, fail) == fail # k /\ k \in source \cup copies
InitSecrets == {"init"} \cup IF dk.certs THEN {"initCerts"} ELSE {}
OTLPSecrets == {"otlp"} \cup IF dk.certs THEN {"otlpCerts"} ELSE {}
\* the certificates come second
Found(ks, fail) == {k \in ks : Present(k, fail) /\ \A l \in ks : l \in {"init", "otlp"} => Present(l, fail)}
Missing(ks, fail) == Found(ks, fail) # ks

\* what a handler returns: the pod, and the annotation of its error ("none" without one)
Good(p) == [pod |-> p, error |-> "none"]
Error(p, a) == [pod |-> p, error |-> a]
-----------------------------------------------------------------------------
(* Metadata: the configuration of each container *)

\* findRootOwner asks the API server for one owner after the other
OwnerLookupFails(handler, fail) == fail = IF handler = "metadata" THEN "owner" ELSE "ownerOTLP"

ConfigMounts ==
    IF IsSplitMountsEnabled
    THEN (IF "oneagent" \in dk.on THEN {"splitOneAgent"} ELSE {}) \cup (IF PreparesInit THEN {"splitMetadata"} ELSE {})
    ELSE {"config"}

\* isInjected
IsConfigured(p, c) ==
    IF IsSplitMountsEnabled
    THEN /\ "oneagent" \in dk.on => "splitOneAgent" \in p.mounts[c]
         /\ "metadata" \in dk.on => "splitMetadata" \in p.mounts[c]
    ELSE "config" \in p.mounts[c]

AddContainerAttributes(p) ==
    LET new == {c \in Included(p) : ~IsConfigured(p, c)}
    IN  [Change(p, "mounts", new, ConfigMounts) EXCEPT !.arguments = [c \in Container |-> IF c \in new THEN @[c] + 1 ELSE @[c]]]

MutateMetadata(p, fail) ==
    IF OwnerLookupFails("metadata", fail) THEN Error(p, "metadata")
    ELSE Good(AddContainerAttributes(Set(p, "metadata", "true")))
-----------------------------------------------------------------------------
(* OneAgent *)

\* addCSIBinVolume, addEmptyDirBinVolume, AddInputVolume, AddConfigVolume
Conflicts(p, v) == p.volumes[v] = "foreign"
WithVolumes(p, vs) == [p EXCEPT !.volumes = [v \in Volume |-> IF v \in vs THEN "ours" ELSE @[v]]]

MutateUserContainers(p) ==
    LET new == {c \in Included(p) : "bin" \notin p.mounts[c]}
    IN  Change(Change(p, "mounts", new, {"bin", "preload"}), "env", new, {"oneagent"})

MutateOneAgent(p) ==
    IF ~dk.ready \/ Conflicts(p, "bin") THEN Error(p, "oneagent")
    ELSE Good(Set(MutateUserContainers([WithVolumes(p, {"bin"}) EXCEPT !.init = @ \cup {"bin"}]), "oneagent", "true"))

\* Mutant: a volume of that name is good enough
AddInitContainerAnyway(p) == Good([p EXCEPT !.init = @ \cup {"input", "config"}, !.volumes = [v \in Volume |-> IF v \in {"input", "config"} /\ ~Conflicts(p, v) THEN "ours" ELSE @[v]]])
AddInitContainer(p) ==
    IF Conflicts(p, "input") \/ Conflicts(p, "config") THEN Error(p, "volume")
    ELSE Good([WithVolumes(p, {"input", "config"}) EXCEPT !.init = @ \cup {"input", "config"}])

Then(result, Continue(_)) == IF result.error = "none" THEN Continue(result.pod) ELSE result

HandlePodMutation(p, fail) ==
    LET SetInjected(q) == Good(Set(q, "dynatrace", "true"))
        Finish(q) == Then(AddInitContainer(q), SetInjected)
        OneAgent(q) == IF Enabled("oneagent") THEN Then(MutateOneAgent(q), Finish) ELSE Finish(q)
    IN  IF Enabled("oneagent") \/ Enabled("metadata") THEN Then(MutateMetadata(p, fail), OneAgent)
        ELSE Good(Set(p, "dynatrace", "false"))

\* Mutant: containers that came later get the configuration only
ReinvokeMetadata(p) == AddContainerAttributes(p)
HandlePodReinvocation(p) ==
    LET q == AddContainerAttributes(p)
    IN  IF Enabled("oneagent") THEN MutateUserContainers(q) ELSE q

InjectionHandle(p, fail) ==
    IF ~PreparesInit THEN Good(p)
    ELSE IF Missing(InitSecrets, fail) THEN Good(Set(p, "dynatrace", "false"))
    ELSE IF p.init # {} THEN Good(HandlePodReinvocation(p))
    ELSE HandlePodMutation(p, fail)
-----------------------------------------------------------------------------
(* OTLP *)

\* shouldSkipContainer
Exporting(p) == {c \in Included(p) : dk.override \/ (c \notin user.ownOTLP /\ "otlp" \notin p.env[c])}

\* the injectors set the endpoints, headers and protocols of all signals
Inject(p, cs) == Change(p, "env", cs, {"otlp"})

MutateExporter(p) ==
    LET cs == Exporting(p)
        q == Inject(p, cs)
        r == Change(q, "mounts", cs, {"otlpCerts"})
    IN  IF ~dk.certs \/ cs = {} THEN Good(q)
        ELSE IF Conflicts(p, "otlpCerts") THEN Error(r, "otlp")
        ELSE Good(WithVolumes(r, {"otlpCerts"}))

MutateAttributes(p, fail) ==
    IF OwnerLookupFails("otlp", fail) THEN Error(p, "otlp")
    ELSE Good(Change(p, "env", Included(p), {"attributes"}))

\* a second call logs the errors of the mutators and keeps what they did
OTLPReinvoke(p, fail) == Good(MutateAttributes(MutateExporter(p).pod, fail).pod)

OTLPHandle(p, fail) ==
    LET Attributes(q) == MutateAttributes(q, fail)
        SetInjected(q) == Good(Set(q, "otlp", "true"))
    IN  IF ~Enabled("otlp") THEN Good(p)
        ELSE IF Missing(OTLPSecrets, fail) THEN Good(Set(p, "otlp", "false"))
        ELSE IF p.annotation["otlp"] = "true" THEN Then(OTLPReinvoke(p, fail), SetInjected)
        ELSE Then(Then(MutateExporter(p), Attributes), SetInjected)
-----------------------------------------------------------------------------
(* The webhook *)

\* the annotation writer is the attributes of the last mutator that made them
HasAnnotationWriter(p, fail) ==
    \/ PreparesInit /\ ~Missing(InitSecrets, fail) /\ p.init = {} /\ (Enabled("oneagent") \/ Enabled("metadata"))
    \/ Enabled("otlp") /\ ~Missing(OTLPSecrets, fail) /\ ~OwnerLookupFails("otlp", fail)

\* the annotation itself is written once and not modelled, its limit is
ApplyJSONAnnotation(p, q, fail) == IF fail = "size" /\ HasAnnotationWriter(p, fail) THEN Error(q, "dynatrace") ELSE Good(q)

\* Mutant: an error keeps the modifications so far
KeepPartial(p, result) == Set(result.pod, result.error, "false")
\* prevent partial modifications
Undo(p, result) == Set(p, result.error, "false")

MutationRequired(p) == user.inject /\ Included(p) # {}

Handle(p, fail) ==
    LET OTLP(q) == OTLPHandle(q, fail)
        Write(q) == ApplyJSONAnnotation(p, q, fail)
    IN  Then(Then(InjectionHandle(p, fail), OTLP), Write)

\* The copies that a call makes: the OTLP handler runs when the first one returned no error
Replicated(p, fail) ==
    (IF PreparesInit THEN Found(InitSecrets, fail) ELSE {})
        \cup IF Enabled("otlp") /\ InjectionHandle(p, fail).error = "none" THEN Found(OTLPSecrets, fail) ELSE {}

\* createMutationRequestBase fails, or nothing is to be done: the patch is empty
Skip(fail) ==
    /\ fail = "lookup" \/ ~MutationRequired(pod)
    /\ outcome' = "skipped"
    /\ UNCHANGED <<pod, copies, seen, lost>>

Mutate(fail) ==
    LET result == Handle(pod, fail)
    IN  /\ fail # "lookup" /\ MutationRequired(pod)
        /\ pod' = IF result.error = "none" THEN result.pod ELSE Undo(pod, result)
        /\ copies' = copies \cup Replicated(pod, fail)
        /\ outcome' = IF result.error = "none" THEN "done" ELSE "undone"
        /\ seen' = IF result.error = "none" THEN pod.containers ELSE seen
        /\ lost' = (lost \/ (pod.init # {} /\ (Missing(InitSecrets, fail) \/ result.error # "none")))

Call(fail) ==
    /\ calls = 0 \/ (calls < MaxCalls /\ changed)
    /\ outcome # "admitted"
    /\ Skip(fail) \/ Mutate(fail)
    /\ calls' = calls + 1 /\ changed' = FALSE
    /\ UNCHANGED <<dk, source, user, changes, edited>>

\* another webhook adds a sidecar
AddContainer(c) ==
    /\ outcome # "admitted" /\ c \notin pod.containers
    /\ pod' = [pod EXCEPT !.containers = @ \cup {c}]
    /\ changed' = TRUE
    /\ UNCHANGED <<dk, source, copies, user, calls, outcome, seen, changes, edited, lost>>

Admit ==
    /\ calls > 0 /\ outcome # "admitted"
    /\ ~changed \/ calls = MaxCalls
    /\ outcome' = "admitted"
    /\ UNCHANGED <<dk, source, copies, user, pod, calls, changed, seen, changes, edited, lost>>

MayChange == changes < MaxChanges /\ outcome # "admitted" /\ changes' = changes + 1

EditDynaKube ==
    /\ MayChange
    /\ \/ \E f \in Feature : dk' = [dk EXCEPT !.on = IF f \in @ THEN @ \ {f} ELSE @ \cup {f}]
       \/ dk' = [dk EXCEPT !.ready = ~@]
       \/ dk' = [dk EXCEPT !.certs = ~@]
    /\ dk' \in DynaKubes
    /\ edited' = (calls > 0)
    /\ UNCHANGED <<source, copies, user, pod, calls, changed, outcome, seen, lost>>

\* the operator writes or removes the secrets
ReconcileSecrets ==
    /\ MayChange
    /\ \E ks \in {{"init", "initCerts"}, {"otlp", "otlpCerts"}} :
            \/ source' = source \cup ks /\ copies' = copies \cup ks
            \/ source' = source \ ks /\ copies' = copies \ ks
    /\ UNCHANGED <<dk, user, pod, calls, changed, outcome, seen, edited, lost>>

MutationNext ==
    \/ \E fail \in Failure : Call(fail)
    \/ \E c \in Container : AddContainer(c)
    \/ Admit
    \/ EditDynaKube
    \/ ReconcileSecrets

MutationSpec == MutationInit /\ [][MutationNext]_mutationVars
-----------------------------------------------------------------------------
(* Properties *)

Mounted(p) == p.init \cup {VolumeOf(m) : m \in UNION {p.mounts[c] : c \in p.containers}}

\* Whatever a container or the init container mounts is a volume of the pod, and the one of the operator: otherwise
\* the API server refuses the pod, and the webhook keeps an application from starting.  Two exceptions: a DynaKube that
\* changes between two calls (handle.go:181 mounts volumes that only the first call adds), and a second call, which
\* only logs that the volume for the certificates is the user's (exporter/mutator.go:86).
MountsHaveVolumes ==
    edited \/ \A v \in Mounted(pod) :
                \/ pod.volumes[v] = "ours"
                \/ v = "otlpCerts" /\ pod.volumes[v] = "foreign" /\ calls = MaxCalls

\* The init container is told once of each container that has a configuration mounted, and of no other: a container
\* without an argument would find its mount empty.  And a pod that says it is injected is injected in all its
\* containers that the last call saw, sidecars of other webhooks too.
ContainersAreConfigured ==
    /\ \A c \in Container :
          /\ pod.arguments[c] > 0 <=> pod.mounts[c] \cap {"config", "splitOneAgent", "splitMetadata"} # {}
          /\ pod.arguments[c] > 1 => edited
          /\ pod.arguments[c] > 0 => pod.init # {}
    /\ (pod.annotation["dynatrace"] = "true" /\ calls > 0 /\ ~edited /\ ~lost) =>
          \A c \in seen \ user.excluded :
              /\ pod.arguments[c] = 1
              /\ pod.annotation["oneagent"] = "true" => "bin" \in pod.mounts[c]

\* Prevent partial modifications (webhook.go:92): a pod that says it is not injected has nothing of the operator,
\* unless it had been injected by a first call and the second one met a failure.
NothingPartial ==
    LET Says(a) == pod.annotation[a] = "false"
        mounts == UNION {pod.mounts[c] : c \in Container}
    IN  /\ (Says("dynatrace") \/ Says("metadata") \/ Says("volume")) /\ ~lost => pod.init = {} /\ mounts \subseteq {"otlpCerts"}
        /\ Says("oneagent") => "bin" \notin mounts \cup pod.init
        /\ pod.annotation["otlp"] = "unset" => \A c \in Container : pod.env[c] \subseteq {"oneagent"}

=============================================================================
