------------------------- MODULE NamespaceInjection -------------------------
(***************************************************************************)
(* Namespaces are given to DynaKubes by a label, and get copies of the     *)
(* secrets that the pods injected there need.  The operator maps from the  *)
(* side of a DynaKube, one reconcile at a time and one call per step; the  *)
(* namespace webhook maps from the side of a namespace when a user changes *)
(* it; the pod webhook copies a secret that is not there yet.              *)
(***************************************************************************)
EXTENDS Naturals, FiniteSets

CONSTANTS
    Namespace,
    DynaKube,
    NoDynaKube,
    HostMonitoring, \* DynaKubes that ask for the init secret without injection
    InitialMatches, \* selectors at the start
    InitiallyOff,   \* features that are off at the start
    MaxToken,       \* bound on the renewals of a token
    MaxEdits,       \* bound on the changes users make
    MaxFaults       \* bound on failing calls and crashes

ASSUME NamespaceAssumption ==
    /\ IsFiniteSet(Namespace) /\ IsFiniteSet(DynaKube) /\ Namespace # {}
    /\ NoDynaKube \notin DynaKube /\ HostMonitoring \subseteq DynaKube
ASSUME BoundAssumption == {MaxToken, MaxEdits, MaxFaults} \subseteq Nat /\ MaxToken >= 1

VARIABLES
    dks,        \* the DynaKubes in the API server, with what their selectors match
    cache,      \* what the cached client of the webhook has seen of them
    label,      \* the DynaKube each namespace is given to
    source,     \* the secrets in the namespace of the operator
    secret,     \* the copies in the namespaces
    conditions, \* in the status of each DynaKube
    op,         \* the operator's reconcile
    touched,    \* namespaces that changed since the operator listed them (resource version)
    pod,        \* a pod being admitted
    clean,      \* history: DynaKubes reconciled without error since the last change
    orphans,    \* history: namespaces that may hold secrets that no DynaKube will delete
    tainted,    \* history: DynaKubes whose reconcile met a failure
    edits, faults

objects == <<label, source, secret, conditions>>
vars == <<dks, cache, label, source, secret, conditions, op, touched, pod, clean, orphans, tainted, edits, faults>>

\* OneAgent injection and metadata enrichment share their secrets: "bootstrap"
Feature == {"bootstrap", "otlp"}
Kind == Feature \X {"config", "certs"}
Condition == Feature \X {"feature", "config", "certs"}
KindsOf(fs) == {k \in Kind : k[1] \in fs}

Token == 1..MaxToken
\* with what the tenant has for it: groups, a process grouping
Spec == [exists : BOOLEAN, on : SUBSET Feature, selects : SUBSET (Feature \X Namespace), certs : BOOLEAN, token : Token, groups : BOOLEAN]
NoSecret == [dk |-> NoDynaKube, token |-> 1]
Content(d, s) == [dk |-> d, token |-> s.token]
Secret == {NoSecret} \cup [dk : DynaKube, token : Token]

NewDynaKube(d) == [exists |-> TRUE, on |-> {f \in Feature : <<d, f>> \notin InitiallyOff}, selects |-> {m \in Feature \X Namespace : <<d, m[1], m[2]>> \in InitialMatches},
                   certs |-> FALSE, token |-> 1, groups |-> TRUE]

Idle == [pc |-> "idle", kind |-> <<"bootstrap", "config">>, dk |-> NoDynaKube, copy |-> [exists |-> FALSE, on |-> {}, selects |-> {}, certs |-> FALSE, token |-> 1, groups |-> FALSE],
         conds |-> {}, todo |-> {}, new |-> [n \in Namespace |-> NoDynaKube], flags |-> {}, owned |-> {}, removed |-> {}, targets |-> [f \in Feature |-> {}],
         existing |-> {}, failed |-> FALSE, disturbed |-> FALSE, gone |-> FALSE]
NoPod == [ns |-> CHOOSE n \in Namespace : TRUE, kind |-> <<"otlp", "config">>, held |-> NoSecret]

PC == {"idle", "map", "labels", "unmatched", "source", "list", "write", "unmap", "unmapLabels", "unmapSecrets", "finish"}
FirstKind == <<"bootstrap", "config">>
Reconciliation ==
    [pc : PC, kind : Kind, dk : DynaKube \cup {NoDynaKube}, copy : Spec, conds : SUBSET Condition, todo : SUBSET Namespace,
     new : [Namespace -> DynaKube \cup {NoDynaKube}], flags : SUBSET (Feature \X Namespace), owned : SUBSET Namespace,
     removed : SUBSET Namespace, targets : [Feature -> SUBSET Namespace], existing : SUBSET Namespace,
     failed : BOOLEAN, disturbed : BOOLEAN, gone : BOOLEAN]

TypeOK ==
    /\ dks \in [DynaKube -> Spec]
    /\ cache \in [DynaKube -> Spec]
    /\ label \in [Namespace -> DynaKube \cup {NoDynaKube}]
    /\ source \in [DynaKube -> [Kind -> Secret]]
    /\ secret \in [Namespace -> [Kind -> Secret]]
    /\ conditions \in [DynaKube -> SUBSET Condition]
    /\ op \in Reconciliation
    /\ touched \cup orphans \subseteq Namespace
    /\ pod \in [ns : Namespace, kind : Kind, held : Secret]
    /\ clean \cup tainted \subseteq DynaKube
    /\ edits \in 0..MaxEdits /\ faults \in 0..MaxFaults

Init ==
    /\ dks = [d \in DynaKube |-> NewDynaKube(d)]
    /\ cache = dks
    /\ label = [n \in Namespace |-> NoDynaKube]
    /\ source = [d \in DynaKube |-> [k \in Kind |-> NoSecret]]
    /\ secret = [n \in Namespace |-> [k \in Kind |-> NoSecret]]
    /\ conditions = [d \in DynaKube |-> {}]
    /\ op = Idle
    /\ touched = {}
    /\ pod = NoPod
    /\ clean = {} /\ orphans = {} /\ tainted = {}
    /\ edits = 0 /\ faults = 0
-----------------------------------------------------------------------------
(* Which DynaKube a namespace belongs to *)

\* compileSelectors looks at enabled features only
Flags(s) == {m \in s.selects : m[1] \in s.on}
Matching(list, n) == {d \in DynaKube : list[d].exists /\ \E m \in Flags(list[d]) : m[2] = n}
\* ConflictChecker
Conflict(list, n) == Cardinality(Matching(list, n)) > 1
\* Mutant: a namespace keeps the label of a DynaKube that does not match it any more
UpdatedOnly(list, n) == IF Matching(list, n) # {} THEN CHOOSE d \in Matching(list, n) : TRUE ELSE label[n]
\* updateNamespace: the label of a DynaKube that is not in the list stays
Updated(list, n) ==
    CASE Matching(list, n) # {} -> CHOOSE d \in Matching(list, n) : TRUE
      [] Matching(list, n) = {} /\ label[n] \in DynaKube /\ list[label[n]].exists -> NoDynaKube
      [] OTHER -> label[n]

\* GetNamespacesForDynakube
Labelled(d) == {n \in Namespace : label[n] = d}

Busy == op.pc # "idle"
\* a change of the users, or of the operator or a webhook for another DynaKube, makes another reconcile necessary
Changed(ds) == clean' = clean \ ds
Disturb(r) == IF Busy THEN [r EXCEPT !.disturbed = TRUE] ELSE r
\* a call may fail, in a given number of steps
MayFail == IF faults < MaxFaults THEN BOOLEAN ELSE {FALSE}
Fault(fails) ==
    /\ faults' = faults + (IF fails THEN 1 ELSE 0)
    /\ tainted' = IF fails THEN tainted \cup {op.dk} ELSE tainted
-----------------------------------------------------------------------------
(* The operator *)

\* getDynakubeOrCleanup and reconcileSubReconcilers; a DynaKube that is gone is unmapped
Begin(d) ==
    /\ ~Busy
    /\ dks[d].exists \/ d \notin clean
    /\ op' = [Idle EXCEPT !.dk = d, !.copy = dks[d],
                !.pc = IF dks[d].exists THEN "map" ELSE "unmap",
                !.conds = conditions[d] \cup
                            IF dks[d].exists /\ "bootstrap" \in dks[d].on THEN {<<"bootstrap", "feature">>} ELSE {}]
    /\ UNCHANGED <<dks, cache, objects, touched, pod, clean, orphans, tainted, edits, faults>>

\* the reconcilers for versions, connection information and rules come first and end it with their error
SubReconcilersFail(d) ==
    /\ ~Busy
    /\ dks[d].exists
    /\ faults < MaxFaults
    /\ faults' = faults + 1
    /\ \E set \in SUBSET (IF "bootstrap" \in dks[d].on THEN {<<"bootstrap", "feature">>} ELSE {}) :
         conditions' = [conditions EXCEPT ![d] = @ \cup set]
    /\ Changed({d})
    /\ UNCHANGED <<dks, cache, label, source, secret, op, touched, pod, orphans, tainted, edits>>

Generate(r, targets) == [r EXCEPT !.pc = "source", !.kind = FirstKind, !.targets = targets,
                           !.todo = {}, !.removed = {}, !.new = Idle.new, !.flags = {}, !.owned = {}]
\* Reconcile: when the mapping failed, what carries the label is used
MapFailed(r) ==
    /\ op' = Generate([r EXCEPT !.failed = TRUE], [f \in Feature |-> Labelled(r.dk)])
    /\ orphans' = orphans \cup r.removed

\* MatchingNamespaces: the own entry of the list is the copy of the reconcile
Map ==
    LET d == op.dk
        list == [dks EXCEPT ![d] = op.copy]
        flags == Flags(op.copy)
    IN /\ op.pc = "map"
       /\ \E fails \in MayFail :
            /\ Fault(fails)
            /\ IF op.copy.on = {}
               THEN /\ op' = IF fails THEN [op EXCEPT !.pc = "unmap", !.failed = TRUE]
                             ELSE Generate(op, [f \in Feature |-> Labelled(d)])
                    /\ UNCHANGED <<touched, orphans>>
               ELSE IF fails \/ \E n \in Namespace : Conflict(list, n)
               THEN MapFailed(op) /\ UNCHANGED touched
               ELSE /\ op' = [op EXCEPT !.pc = "labels", !.flags = flags,
                                !.owned = Labelled(d) \cup {m[2] : m \in flags},
                                !.new = [n \in Namespace |-> Updated(list, n)],
                                !.todo = {n \in Namespace : Updated(list, n) # label[n]}]
                    /\ touched' = {}
                    /\ UNCHANGED orphans
       /\ UNCHANGED <<dks, cache, objects, pod, clean, edits>>

UpdateLabel(n) ==
    /\ op.pc = "labels"
    /\ n \in op.todo
    /\ \E fails \in MayFail :
         /\ Fault(fails)
         /\ IF fails \/ n \in touched
            THEN MapFailed(op) /\ UNCHANGED <<label, clean>>
            ELSE /\ label' = [label EXCEPT ![n] = op.new[n]]
                 /\ op' = [op EXCEPT !.todo = @ \ {n}, !.removed = IF label[n] = op.dk THEN @ \cup {n} ELSE @]
                 \* taken from a DynaKube that will not find its label any more
                 /\ orphans' = IF label[n] \in {op.dk, NoDynaKube} THEN orphans ELSE orphans \cup {n}
                 /\ Changed(DynaKube \ {op.dk})
    /\ UNCHANGED <<dks, cache, source, secret, conditions, touched, pod, edits>>

Relabelled ==
    /\ op.pc = "labels"
    /\ op.todo = {}
    /\ op' = [op EXCEPT !.pc = "unmatched", !.todo = op.owned]
    /\ UNCHANGED <<dks, cache, objects, touched, pod, clean, orphans, tainted, edits, faults>>

Without(s, ks) == [k \in Kind |-> IF k \in ks THEN NoSecret ELSE s[k]]
UnmatchedKinds(n) == KindsOf({f \in Feature : <<f, n>> \notin op.flags})

\* deleteUnmatchedReplicatedSecrets: the secrets of one namespace; the first error ends it
DeleteUnmatched(n) ==
    /\ op.pc = "unmatched"
    /\ n \in op.todo
    /\ \E fails \in MayFail :
         /\ Fault(fails)
         /\ IF fails
            THEN MapFailed(op) /\ UNCHANGED secret
            ELSE /\ secret' = [secret EXCEPT ![n] = Without(@, UnmatchedKinds(n))]
                 /\ op' = [op EXCEPT !.todo = @ \ {n}, !.removed = @ \ {n}]
                 /\ orphans' = IF UnmatchedKinds(n) = Kind THEN orphans \ {n} ELSE orphans
    /\ UNCHANGED <<dks, cache, label, source, conditions, touched, pod, clean, edits>>

Mapped ==
    /\ op.pc = "unmatched"
    /\ op.todo = {}
    /\ op' = Generate(op, [f \in Feature |-> {n \in Namespace : <<f, n>> \in op.flags}])
    /\ UNCHANGED <<dks, cache, objects, touched, pod, clean, orphans, tainted, edits, faults>>

At(step, k) == op.pc = step /\ op.kind = k
\* the secrets of a reconcile, one after the other
AfterKind(r, k) ==
    IF k = <<"otlp", "certs">> THEN [r EXCEPT !.pc = IF r.copy.on = {} THEN "unmap" ELSE "finish", !.existing = {}]
    ELSE [r EXCEPT !.pc = "source", !.existing = {}, !.kind = IF k[2] = "config" THEN <<k[1], "certs">> ELSE <<"otlp", "config">>]
\* where an error is told: only one of the API server in the condition of the feature
Telling(k) == {k, <<k[1], "feature">>}
\* Mutant: the error is logged only
LoggedError(r, k, told) ==
    AfterKind([r EXCEPT !.conds = @ \cup told],
              IF k = <<"otlp", "config">> THEN <<"otlp", "certs">> ELSE k)

\* an error of the configuration does not keep the certificates of the bootstrapper from being written
AfterError(r, k, told) ==
    AfterKind([r EXCEPT !.failed = TRUE, !.conds = @ \cup told],
              IF k = <<"otlp", "config">> THEN <<"otlp", "certs">> ELSE k)

\* Mutant: host agents are not thought of
InjectionNeeded(f) == f \in op.copy.on
Needed(f) == f \in op.copy.on \/ (f = "bootstrap" /\ op.dk \in HostMonitoring)
CleanupDue(f) ==
    IF f = "bootstrap" THEN {<<f, "feature">>, <<f, "config">>} \cap op.conds # {} ELSE <<f, "feature">> \in op.conds
FeatureConditions(f) == {c \in Condition : c[1] = f}

DeleteSecrets(ks, ns) == secret' = [n \in Namespace |-> IF n \in ns THEN Without(secret[n], ks) ELSE secret[n]]

\* where a pod got a copy of the certificates after the namespaces were listed
LateCopies(f) == {n \in Labelled(op.dk) \ op.targets[f] : secret[n][<<f, "certs">>] # NoSecret}

\* cleanupInitSecret, cleanupOTLPSecret: errors are logged; the first keeps the certificates
Cleanup(f) ==
    /\ At("source", <<f, "config">>)
    /\ ~Needed(f)
    /\ IF ~CleanupDue(f)
       THEN op' = AfterKind(op, <<f, "certs">>) /\ UNCHANGED <<source, secret, orphans, faults, tainted>>
       ELSE \E fails \in MayFail :
              /\ Fault(fails)
              /\ source' = [source EXCEPT ![op.dk] = Without(@, KindsOf({f}) \ IF fails THEN {<<f, "certs">>} ELSE {})]
              /\ IF fails THEN UNCHANGED secret ELSE DeleteSecrets(KindsOf({f}), op.targets[f])
              /\ orphans' = orphans \cup LateCopies(f)
              /\ op' = AfterKind([op EXCEPT !.conds = @ \ (FeatureConditions(f) \ IF fails THEN {<<f, "certs">>} ELSE {})],
                                 <<f, "certs">>)
    /\ UNCHANGED <<dks, cache, label, conditions, touched, pod, clean, edits>>

\* certificates that are not asked for any more
CleanupCerts(f) ==
    LET k == <<f, "certs">> IN
    /\ At("source", k)
    /\ ~op.copy.certs
    /\ IF k \notin op.conds
       THEN op' = AfterKind(op, k) /\ UNCHANGED <<source, secret, orphans, faults, tainted>>
       ELSE \E fails \in MayFail :
              /\ Fault(fails)
              /\ source' = [source EXCEPT ![op.dk] = Without(@, {k})]
              /\ IF fails THEN UNCHANGED secret ELSE DeleteSecrets({k}, op.targets[f])
              /\ orphans' = orphans \cup LateCopies(f)
              /\ \E told \in SUBSET Telling(k) :
                   op' = IF fails THEN [AfterError(op, k, told) EXCEPT !.conds = @ \ {k}]
                         ELSE AfterKind([op EXCEPT !.conds = @ \ {k}], k)
    /\ UNCHANGED <<dks, cache, label, conditions, touched, pod, clean, edits>>

\* without injection the only data is the process grouping
HasData(k) == k # FirstKind \/ "bootstrap" \in op.copy.on \/ dks[op.dk].groups

\* createSourceForWebhook: before the copies, for the pods admitted meanwhile; garbage collected when
\* the DynaKube that owns it was deleted since.  Without data nothing is written, and what is there stays
WriteSource(k) ==
    /\ At("source", k)
    /\ IF k[2] = "config" THEN Needed(k[1]) ELSE op.copy.certs
    /\ \E fails \in MayFail :
         /\ Fault(fails)
         /\ IF fails
            THEN (\E told \in SUBSET Telling(k) : op' = AfterError(op, k, told)) /\ UNCHANGED source
            ELSE IF ~HasData(k)
            THEN op' = AfterKind(op, k) /\ UNCHANGED source
            ELSE /\ source' = IF op.gone THEN source ELSE [source EXCEPT ![op.dk][k] = Content(op.dk, op.copy)]
                 /\ op' = [op EXCEPT !.pc = "list"]
    /\ UNCHANGED <<dks, cache, label, secret, conditions, touched, pod, clean, orphans, edits>>

\* CreateOrUpdateForNamespaces: what is there decides between update and creation
ListSecrets(k) ==
    /\ At("list", k)
    /\ op' = [op EXCEPT !.pc = "write", !.existing = {n \in Namespace : secret[n][k] # NoSecret}]
    /\ UNCHANGED <<dks, cache, objects, touched, pod, clean, orphans, tainted, edits, faults>>

\* a copy that the pod webhook made meanwhile cannot be created
WriteSecrets(k) ==
    LET ns == op.targets[k[1]] IN
    /\ At("write", k)
    /\ \E lost \in SUBSET ns :
         /\ lost # {} => faults < MaxFaults
         /\ LET refused == {n \in ns : n \notin op.existing /\ secret[n][k] # NoSecret} \cup lost
            IN /\ Fault(lost # {})
               /\ secret' = [n \in Namespace |-> IF n \in ns \ refused THEN [secret[n] EXCEPT ![k] = Content(op.dk, op.copy)] ELSE secret[n]]
               /\ \E told \in IF lost = {} THEN {Telling(k)} ELSE {{k}, Telling(k)} :
                    op' = IF refused # {} THEN AfterError(op, k, told)
                          ELSE AfterKind([op EXCEPT !.conds = @ \cup {k} \cup IF k[1] = "otlp" THEN {<<"otlp", "feature">>} ELSE {}], k)
    /\ UNCHANGED <<dks, cache, label, source, conditions, touched, pod, clean, orphans, edits>>
-----------------------------------------------------------------------------
(* UnmapFromDynaKube: deferred when nothing is enabled, and after a deletion *)

\* errors are only logged, but for a DynaKube that is gone; either way what is left keeps its label for
\* the next reconcile, and this one does not count as clean
UnmapFails(r) == [r EXCEPT !.pc = "finish", !.failed = TRUE]
Unmap ==
    /\ op.pc = "unmap"
    /\ \E fails \in MayFail :
         /\ Fault(fails)
         /\ op' = IF fails THEN UnmapFails(op) ELSE [op EXCEPT !.pc = "unmapLabels", !.todo = Labelled(op.dk)]
    /\ touched' = {}
    /\ UNCHANGED <<dks, cache, objects, pod, clean, orphans, edits>>

UnmapLabel(n) ==
    /\ op.pc = "unmapLabels"
    /\ n \in op.todo
    /\ \E fails \in MayFail :
         /\ Fault(fails)
         /\ IF fails \/ n \in touched
            THEN op' = UnmapFails(op) /\ UNCHANGED <<label, clean>>
            ELSE /\ label' = [label EXCEPT ![n] = NoDynaKube]
                 /\ op' = [op EXCEPT !.pc = "unmapSecrets", !.todo = @ \ {n}, !.removed = {n}]
                 /\ Changed(DynaKube \ {op.dk})
    /\ UNCHANGED <<dks, cache, source, secret, conditions, touched, pod, orphans, edits>>

\* Mutant: only the secrets of the bootstrapper are deleted
UnmapBootstrap ==
    /\ op.pc = "unmapSecrets"
    /\ \E fails \in MayFail :
         /\ Fault(fails)
         /\ IF fails
            THEN op' = UnmapFails(op) /\ orphans' = orphans \cup op.removed /\ UNCHANGED secret
            ELSE /\ DeleteSecrets(KindsOf({"bootstrap"}), op.removed)
                 /\ op' = [op EXCEPT !.pc = "unmapLabels", !.removed = {}]
                 /\ orphans' = orphans \ op.removed
    /\ UNCHANGED <<dks, cache, label, source, conditions, touched, pod, clean, edits>>

UnmapSecrets ==
    /\ op.pc = "unmapSecrets"
    /\ \E fails \in MayFail :
         /\ Fault(fails)
         /\ IF fails
            THEN op' = UnmapFails(op) /\ orphans' = orphans \cup op.removed /\ UNCHANGED secret
            ELSE /\ DeleteSecrets(Kind, op.removed)
                 /\ op' = [op EXCEPT !.pc = "unmapLabels", !.removed = {}]
                 /\ orphans' = orphans \ op.removed
    /\ UNCHANGED <<dks, cache, label, source, conditions, touched, pod, clean, edits>>

Unmapped ==
    /\ op.pc = "unmapLabels"
    /\ op.todo = {}
    /\ op' = [op EXCEPT !.pc = "finish"]
    /\ UNCHANGED <<dks, cache, objects, touched, pod, clean, orphans, tainted, edits, faults>>

\* handleError writes the status
Finish ==
    /\ op.pc = "finish"
    /\ \E fails \in MayFail :
         /\ Fault(fails)
         /\ conditions' = IF fails \/ ~op.copy.exists THEN conditions ELSE [conditions EXCEPT ![op.dk] = op.conds]
         /\ clean' = IF fails \/ op.failed \/ op.disturbed THEN clean \ {op.dk} ELSE clean \cup {op.dk}
    /\ op' = Idle
    /\ touched' = {}
    /\ UNCHANGED <<dks, cache, label, source, secret, pod, orphans, edits>>

Crash ==
    /\ Busy
    /\ faults < MaxFaults
    /\ Fault(TRUE)
    /\ op' = Idle
    /\ Changed({op.dk})
    /\ orphans' = orphans \cup op.removed
    /\ touched' = {}
    /\ UNCHANGED <<dks, cache, objects, pod, edits>>

Reconcile ==
    \/ \E d \in DynaKube : Begin(d) \/ SubReconcilersFail(d)
    \/ Map \/ Relabelled \/ Mapped \/ Unmap \/ UnmapSecrets \/ Unmapped \/ Finish
    \/ \E n \in Namespace : UpdateLabel(n) \/ DeleteUnmatched(n) \/ UnmapLabel(n)
    \/ \E f \in Feature : Cleanup(f) \/ CleanupCerts(f)
    \/ \E k \in Kind : WriteSource(k) \/ ListSecrets(k) \/ WriteSecrets(k)
-----------------------------------------------------------------------------
(* The webhooks *)

\* a user changes the labels of a namespace, so that selectors match it or do not any more; Handle
\* maps it with the DynaKubes of the cache, or refuses the change
EditNamespace(n) ==
    /\ edits < MaxEdits
    /\ edits' = edits + 1
    /\ \E matches \in SUBSET (DynaKube \X Feature) :
         LET at(list) == [d \in DynaKube |-> [list[d] EXCEPT !.selects =
                              {m \in @ : m[2] # n} \cup {<<f, n>> : f \in {g \in Feature : <<d, g>> \in matches}}]]
         IN /\ ~Conflict(at(cache), n)
            /\ dks' = at(dks)
            /\ cache' = at(cache)
            /\ label' = [label EXCEPT ![n] = Updated(at(cache), n)]
    /\ orphans' = IF label[n] \in {label'[n], NoDynaKube} THEN orphans ELSE orphans \cup {n}
    /\ touched' = IF op.pc \in {"labels", "unmapLabels", "unmapSecrets"} THEN touched \cup {n} ELSE touched
    /\ op' = Disturb(op)
    /\ Changed(DynaKube)
    /\ UNCHANGED <<source, secret, conditions, pod, tainted, faults>>

CacheSync ==
    /\ cache # dks
    /\ cache' = dks
    /\ UNCHANGED <<dks, objects, op, touched, pod, clean, orphans, tainted, edits, faults>>

\* EnsureReplicated for a pod of a namespace: nothing is done when the secret is there, whoever's it is
Replicate(n, k) ==
    LET d == label[n] IN
    /\ pod = NoPod
    /\ d # NoDynaKube
    /\ dks[d].exists
    /\ k[1] \in dks[d].on
    /\ k[2] = "certs" => dks[d].certs
    /\ secret[n][k] = NoSecret
    /\ source[d][k] # NoSecret
    /\ pod' = [ns |-> n, kind |-> k, held |-> source[d][k]]
    /\ UNCHANGED <<dks, cache, objects, op, touched, clean, orphans, tainted, edits, faults>>

CreateReplicated ==
    /\ pod # NoPod
    /\ pod' = NoPod
    /\ IF secret[pod.ns][pod.kind] = NoSecret
       THEN /\ secret' = [secret EXCEPT ![pod.ns][pod.kind] = pod.held]
            \* too late: what asked for it is gone, or the clean-up of this secret has been there
            /\ orphans' = IF \/ label[pod.ns] # pod.held.dk
                             \/ pod.ns \in op.removed
                             \/ source[pod.held.dk][pod.kind] = NoSecret
                             \/ pod.kind[2] = "certs" /\ ~dks[pod.held.dk].certs
                          THEN orphans \cup {pod.ns} ELSE orphans
            /\ op' = Disturb(op)
            /\ Changed(DynaKube)
       ELSE UNCHANGED <<secret, orphans, op, clean>>
    /\ UNCHANGED <<dks, cache, label, source, conditions, touched, tainted, edits, faults>>
-----------------------------------------------------------------------------
(* Users *)

EditDynaKube(d) ==
    /\ edits < MaxEdits
    /\ edits' = edits + 1
    /\ \/ /\ dks[d].exists
          /\ \/ \E f \in Feature : dks' = [dks EXCEPT ![d].on = (@ \ {f}) \cup ({f} \ @)]
             \/ \E m \in Feature \X Namespace : dks' = [dks EXCEPT ![d].selects = (@ \ {m}) \cup ({m} \ @)]
             \/ dks' = [dks EXCEPT ![d].certs = ~@]
             \/ dks[d].token < MaxToken /\ dks' = [dks EXCEPT ![d].token = @ + 1]
             \/ d \in HostMonitoring /\ dks' = [dks EXCEPT ![d].groups = ~@]
          /\ op' = Disturb(op)
          /\ UNCHANGED <<source, conditions, orphans>>
       \/ /\ dks[d].exists
          /\ dks' = [dks EXCEPT ![d].exists = FALSE]
          \* the secrets it owns are garbage collected
          /\ source' = [source EXCEPT ![d] = [k \in Kind |-> NoSecret]]
          /\ op' = [Disturb(op) EXCEPT !.gone = @ \/ op.dk = d]
          /\ UNCHANGED <<conditions, orphans>>
       \/ /\ ~dks[d].exists
          /\ dks' = [dks EXCEPT ![d].exists = TRUE]
          /\ conditions' = [conditions EXCEPT ![d] = {}]
          /\ op' = Disturb(op)
          \* created again before it was unmapped: no condition tells of its copies
          /\ orphans' = orphans \cup Labelled(d)
          /\ UNCHANGED source
    /\ Changed(DynaKube)
    /\ UNCHANGED <<cache, label, secret, touched, pod, tainted, faults>>

Next ==
    \/ Reconcile \/ Crash
    \/ \E n \in Namespace : EditNamespace(n) \/ \E k \in Kind : Replicate(n, k)
    \/ CacheSync \/ CreateReplicated
    \/ \E d \in DynaKube : EditDynaKube(d)

InjectionSpec == Init /\ [][Next]_vars
-----------------------------------------------------------------------------
(* Properties *)

\* every DynaKube was reconciled without error since the last change, and no pod is being admitted
Settled == ~Busy /\ clean = DynaKube /\ pod = NoPod
Owner(n) == IF Matching(dks, n) = {} THEN NoDynaKube ELSE CHOOSE d \in Matching(dks, n) : TRUE

\* Whatever the webhook wrote in between, from however old a cache: once every DynaKube was
\* reconciled, each namespace carries the label of the one DynaKube that matches it (MapFromDynakube).
LabelsAgree == Settled => \A n \in Namespace : label[n] = Owner(n)

\* Then a namespace holds the current secrets of its DynaKube, for the features that match it and no
\* others, also when it came from another DynaKube whose secrets have the same names.  Certificates
\* that nobody asks for any more are left only when the condition that tells of them was lost (by a
\* failure or a crash before the status was written, or because the DynaKube was created again before
\* it was unmapped), in a namespace that another than its DynaKube took away, or where a pod was
\* admitted too late: after the clean-up, or in the middle of one that lists its namespaces first.
SecretsAgree ==
    Settled => \A n \in Namespace, k \in Kind : label[n] # NoDynaKube =>
        LET d == label[n] IN
        IF <<k[1], n>> \in Flags(dks[d]) /\ (k[2] = "certs" => dks[d].certs)
        THEN secret[n][k] = Content(d, dks[d])
        ELSE secret[n][k] = NoSecret \/ (k[2] = "certs" /\ (n \in orphans \/ d \in tainted))

\* And a namespace without a DynaKube holds none, unless its label was taken away by another than a
\* successful reconcile of the DynaKube it belonged to, or a pod was admitted too late.
NothingIsLeft ==
    Settled => \A n \in Namespace \ orphans : label[n] = NoDynaKube => \A k \in Kind : secret[n][k] = NoSecret

\* asked for, but there is nothing to write
Silent(d, k) == k = FirstKind /\ d \in HostMonitoring /\ dks[d].exists /\ "bootstrap" \notin dks[d].on /\ ~dks[d].groups

\* The secrets in the operator's namespace follow the features; only a failure can leave one behind,
\* because the conditions decide on the clean-up.  The configuration of host monitoring without
\* injection is out of date, or missing, for as long as the tenant has no process grouping for it.
SourcesAgree ==
    Settled => \A d \in DynaKube \ tainted, k \in Kind : Silent(d, k) \/
        source[d][k] = IF dks[d].exists /\ (k[1] \in dks[d].on \/ (k[1] = "bootstrap" /\ d \in HostMonitoring))
                            /\ (k[2] = "certs" => dks[d].certs)
                       THEN Content(d, dks[d]) ELSE NoSecret
=============================================================================
