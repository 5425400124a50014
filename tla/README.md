# A TLA+ model of the Dynatrace Operator

This directory holds TLA+ modules that model the stateful core of the Dynatrace Operator, the TLC
configurations that check them on small instances, and proofs checked by TLAPS. Paths such as
`csi/server/server.go` are relative to `pkg/controllers/` unless they start with `pkg/`.
`PROJECT.json` lists components, runs, the lines every definition stands for, and the hazards the
properties are about; there, `src/` stands for the root of the repository.

- [1 The system](#1-the-system): inventory of components, state, operations, interactions, hard behaviour
- [2 Modules](#2-modules): what models what
- [3 Runs](#3-runs): what each shows, bounds, fairness
- [4 Proofs](#4-proofs)
- [5 What the models leave out of their properties, and why](#5-what-the-models-leave-out-of-their-properties-and-why)
- [6 Not modelled](#6-not-modelled)
- [7 Plan](#7-plan)

Commands: `tlc -workers 2 -config dk.cfg MCDynaKubeController.tla`, `tlapm CSIDriver_proofs.tla`.

## 1 The system

Three binaries out of one image: the **operator** (one leader, one worker per controller), the
**webhook**, and the **CSI driver**, a DaemonSet pod with the containers provisioner, server,
registrar and liveness probe. They share nothing but the API server and, on each node, the
directory `/data` and the mount table.

### CSI driver (`csi/`)

| part | state | operations |
|---|---|---|
| provisioner `provisioner/controller.go`, `install.go` | `/data/codemodules/<version>`, `/data/_dynakubes/<dk>/latest-codemodule`, download Jobs, work queue | reconcile a DynaKube: make its directory, install the module (archive, image or Job), replace the symlink, clean up |
| clean-up `provisioner/cleanup/` | package variable `ticker`; a snapshot of the file system | periodic run, run at once after a deletion; removes unknown directories, host directories, symlinks, modules |
| server `server/server.go` and publishers | overlay and bind mounts, `/data/appmounts/<volume>`, pod-info symlinks, retry tracker directories | NodePublishVolume, NodeUnpublishVolume |
| limiter `server/server.go:334` | an atomic counter | admits or rejects a call |

*Interaction.* The provisioner installs and removes what the server mounts. They are separate
processes without a lock; the symlink is the only hand-over. The kubelet repeats calls until it gets
an OK. *Hard:* every pair of file system calls can be interleaved with the other process, with users,
or with a crash of either container; answers get lost; the data directory survives everything.
*Correct when* no module in use disappears, the symlink only leads to complete modules, every volume
ends up mounted or given up, and unpublished volumes and unused modules leave nothing behind.

### Nodes controller (`nodes/`)

State: the ConfigMap `dynatrace-node-cache` (per node: last seen, last marked, IP address), read at
the start and written at the end of a reconcile. Operations: update of a node, deletion of a node,
prune. It reads the instances that the OneAgent reconciler writes to the DynaKube status, and sends
"mark for termination" events to the tenant. *Hard:* the event and the write that remembers it are
two steps; the informer lags behind the API server; deletions are missed during a restart; entries
without an IP address fail for ever. *Correct when* no mark is stored that was not sent, no node is
forgotten before its event, and every cordoned node with an agent is marked, hourly.

### DynaKube controller (`dynakube/`)

State: the status of the DynaKube (conditions, phase, versions, connection information), the objects
it manages (26 kinds that matter, of ten reconcilers), all of it in the API server. One reconcile walks
through a fixed pipeline (Istio, tokens, entity, ActiveGate, Kubernetes monitoring, extensions,
collector, KSPM, log monitoring, injection, OneAgent) on a copy of the status that is written once, at
the end (and once in the middle, with new connection information). Five modules look at five sides
of it:

| side | state | hard behaviour | correct when |
|---|---|---|---|
| objects and conditions (`controller.go`, the reconcilers) | what exists, conditions, phase | conditions are the only memory of what exists and get lost: in a crash, in a conflict that counts as success, when the tenant answers "too many requests" | what the spec asks for is deployed in the end, what it no longer asks for is removed, errors of one part do not stop the others, the phase tells the truth |
| the tenant (`version/`, `token/`, `k8sentity/`, `kspm/kspmsettings/`, `logmonitoring/logmonsettings/`, `metadata/rules/`, `pkg/clients/`) | versions, scopes, entity, settings objects; a cache of responses | requests are answered from the cache, or put off by the age of a condition | the status follows the spec and the tenant within the threshold, no version goes backwards |
| contents and pods (the generators of secrets, config maps and templates) | hashes in templates, contents of secrets | a pod keeps what it started with; templates mount what other reconcilers make under conditions of their own | running pods have the current contents, pods can start, roll-outs end |
| the mesh (`istio/`, `connectioninfo/`) | service entries | the hosts come from a status filled half-way; a condition says there is something to clean up | the entries are those of the hosts in use |
| namespaces (`injection/`, `pkg/injection/namespace/`) | labels and copied secrets | operator, namespace webhook and pod webhook all write them; overlapping selectors, lagging caches | label and secrets of the right DynaKube, nothing left behind |

### Webhook, EdgeConnect, certificates

| component | state | hard behaviour | correct when |
|---|---|---|---|
| EdgeConnect controller `edgeconnect/` | tenant-side EdgeConnect and connection setting, client secret, configuration, finalizer, Deployment | creation at the tenant followed by the secret that remembers it; deletion with a finalizer; users at the tenant | one object at the tenant at a time, none after deletion, pods connect with the credentials of today |
| certificates controller `certificates/`, `pkg/webhook/certificates/` | secret, CA bundles in webhook configurations and CRDs, two files of each webhook pod | two processes renew; the pod polls every six hours | what is served is trusted by every caller, what was missed is repaired |
| pod webhook `pkg/webhook/mutation/pod/` | the pod; copies of secrets in its namespace | called twice, other webhooks in between; an error brings back the pod of the request | no mount without its volume, every container configured, no half-injected pod |
| validation and conversion `pkg/api/` | stored DynaKubes | validators compare with a list that is old when the object is stored; clients of v1beta5 write back what they read | nothing exclusive is shared, old clients read back what they wrote and may write it back |

*Interaction.* Admission decides which DynaKubes the controller sees; the controller's
injection step makes the labels and secrets that the pod webhook and the CSI server need; the
certificates controller keeps every webhook callable; the CSI server mounts what the provisioner
installed for the version in the status; the nodes controller reads the OneAgent instances there.

## 2 Modules

| module | models | notes |
|---|---|---|
| `CSINode` | the shared data directory, mount table and DynaKubes of one node | the variables both containers use; symlinks, directories and mounts are functions and sets |
| `CSIProvisioner` | `csi/provisioner/`, `csi/provisioner/cleanup/`, `pkg/injection/codemodule/installer/` | `ppc` is the place of the one worker; every file system call whose result is used later is a step |
| `CSIServer` | `csi/server/server.go`, `csi/server/volumes/` | `handler[vol]` is the place of the call; `kubelet[vol]` is what the kubelet waits for |
| `CSIDriver` | both, interleaved; fairness, properties, inductive invariants | composes `CSIProvisioner` and `CSIServer` over `CSINode` |
| `CodeModuleStore` | abstract: what the driver promises about modules | refined by `CSIDriver` (`StoreSpec`) |
| `GrpcLimiter` | the interceptor, one step per atomic operation | proved only |
| `NodesController` | `nodes/` with its cache, the tenant as a history of events | times are ages in ticks |
| `DynaKubeObjects` | the table of managed objects and the pipeline | one record per reconciler: when it is needed, when a condition is set, what a failing delete does |
| `DynaKubeController` | `dynakube/controller.go`, `phase.go`, `UpdateStatus` | walks through the table; `status` is the copy, `stored` the object |
| `TenantStatus` | versions, scopes, entity, settings objects, rules, the cache of responses | one request per step; `st` is the copy, `cache` the answers |
| `WorkloadRollout` | secrets and config maps, hashes, volumes and mounts of all workloads, roll-out | a content says which value of each source it was made of; `position` is the place in `Steps`, of which those that are `Enabled` are taken |
| `IstioReconciler` | service entries and virtual services of operator, OneAgent, ActiveGate; connection information; the reconcile around them | hosts are addresses or names |
| `NamespaceInjection` | mapper, bootstrapper and exporter secrets, both webhooks | `pc` is the place of the reconcile of a DynaKube |
| `EdgeConnectController` | reconcile and deletion of an EdgeConnect | one call per step; users and tenant act meanwhile |
| `WebhookCertificates` | the certificates controller in operator and certgen, the watcher of the webhook | a certificate is its root and its end |
| `PodMutation` | both handlers with their mutators, two calls | a pod is what it mounts, its volumes, its containers' configuration |
| `DynaKubeAdmission` | conversion and validation of DynaKubes | a rule about one field is a "flaw" |
| `MC...` | small instances | |
| `..._proofs` | theorems | |

Definitions whose comment begins with `Mutant` are faulty variants of the definition that follows;
the specifications do not use them. Each property is known to fail when one of them takes the
place of its original.

**From code to actions.** A file system, mount or API call is one action when somebody could act
before the next one that matters; a handler that only computes is one action. A failure of a
call costs one of `MaxFaults` (or `MaxTroubles`, `MaxDisturbances`); lost answers
(the call took effect, the caller got an error) are separate from failures. Calls whose failure the code only logs
have failing outcomes where something is left behind by it (the clean-up of volumes, deletions in the DynaKube
pipeline and the mesh); a failure that changes nothing another step looks at has none of its own. A crash of a container
or of the operator keeps `/data`, mounts and API objects and drops everything else. Names, contents
and versions are model values.

**CSI.** `codeModules[v]` is `absent`, `partial` (an image whose layers failed to be unpacked, which the installer
logs and ignores) or `full`. `latest[dk]` is the target of the symlink, which may dangle.
`appMountDirs[vol]` holds the directory of a volume with its pod-info file and the tracker of the
retry time. A volume may have been published by an older version of the driver (layout `mapped`).
`hostMounts[vol] = "orphaned"` is a bind mount whose source directory was removed.

**Nodes.** Ages are capped above an hour, because no comparison distinguishes older ones; time only
passes between reconciles. The mark and the stored cache are two steps. `InformerLag` and `PodsHaveIP`
are properties of the environment.

**DynaKube.** A step of `Pipeline` is set up (`SetUp`, `SetUpFails`) when the spec needs its object,
and cleaned up (`CleanUp`, `CleanUpFails`) when it does not and its condition, if the reconciler looks at
it, is there. `Postpone` is the error for missing endpoints that ends a reconcile without failing
it. `TenantUnreachable` drops the status; `WriteStatus` loses it silently in a conflict. `lost` is a
history variable that says that this happened. The workloads' pods are `fresh` (created, no status yet),
`stale` (the counts are of the old generation), `rolling` or `complete`.

**Tenant.** `Tick` lets `DynatraceAPIRequestThreshold` pass for conditions and cache alike. The status
and `tenant` are compared only when settled: after enough undisturbed reconciles.

**Workloads.** The values of a DynaKube and of their sources are counted; the content of an object says, for each
source, which value of it it holds (a generated one counts how often it was generated), and a hash is a content.
`StartReconcile` reads the DynaKube. An error ends the component it is in (`NextComponent`), one of the proxy the reconcile.
`Wanted`, `Applies`, `Rotate` and `Generate` say which reconciler makes which object; `...Volumes`,
`...Mounts`, `...Hashed` say what each template refers to. A pod records the contents it started with.

**Istio.** `ConditionOf` and `LookedFor` are the names under which conditions are set and looked
for. `leaked` is a history variable: components whose entries no condition mentions because a delete or the
status was lost, or because the ActiveGate failed before its StatefulSet. Answers are the tenant's
current ones; the cache of answers belongs to `TenantStatus`.

**Injection.** `orphans` records the namespaces whose label was moved, or whose clean-up failed,
while only the label knew of their secrets, and those where a pod got a copy that no clean-up will find (`LateCopies`). `Settled` as above.

**EdgeConnect.** `tenant` is a set of objects with ids; `clientSecret`, `configSecret` and the Deployment carry
the uid of their owner, and the garbage collector removes those of a gone one.

**Certificates.** The clock counts poll intervals. The bundles a caller trusts are read at the
moment of a call, so `ServedIsTrusted` quantifies over all of them. A secret is read only while a root is left to generate: the run has
six, more than it can use.

**Pods.** `Handle` runs a handler, `Undo` brings back the pod of the request; the DynaKube and the
secrets may change between two calls.

**Admission.** A request is converted, asked about (each of three lists is a step of its own), and
stored. Symmetry exchanges the clients.

## 3 Runs

All runs pass and explore their instance completely.

| run | instance | shows |
|---|---|---|
| `csi_apps` | DynaKubes d1 (archive) and d2 (Job), 2 versions, 1 app volume, perhaps of an older layout, 2 edits, 1 fault | symlinks switch to installed modules only (`LatestSwitchedToInstalled`); the driver implements `CodeModuleStore` (`StoreSpec`); an answered publish is mounted (`PublishedIsMounted`), an unpublished volume leaves nothing unless a step of its clean-up failed (`GoneLeavesNothing`) |
| `csi_converges` | d1 (image) and d2 (Job), 2 versions, host volume of d1, 2 edits, 1 fault, fairness | the symlink of d1 converges (`LatestConverges`), unused modules go (`UnusedBinsCollected`), an answered host volume is bound (`HostPublishedIsBound`) |
| `nodes` | 2 nodes, informer lag, 1 change, 1 fault, fairness | `MarkMeansSent`, `ForgottenAfterEvent`, `CordonedIsMarked`, `GoneLeavesCache` |
| `dk` | extensions, KSPM (always failing) and OneAgent, objects that report, clean up and fail in every way; endpoints only through an ActiveGate; 1 edit at any time or a lost DaemonSet, 1 fault, fairness | `NothingIsForgotten`, `EnabledIsDeployed`, `DisabledIsRemoved`, `PhaseSettles`, `ErrorsHeal`, `RemovedWhateverIsLost` |
| `tenant` | a group of specs about versions and one about settings; 2 changes, 1 fault | `VersionsFollowSpec`, `SettingsAreCurrent`, `NoDowngrade` |
| `workloads` | every combination of features that decides on volumes, deployed once; six DynaKubes with 2 disturbances | `PodsCanStart`, `PodsAreCurrent`, `RolloutsStop` |
| `istio` | 8 specs, endpoints of one and both kinds, none and malformed, an unknown network zone; 1 change, 2 faults; from an empty cluster and from that of an older operator | `EntriesAgree` |
| `injection` | 2 namespaces, 2 DynaKubes, 1 new token, 1 edit, 1 fault | `LabelsAgree`, `SecretsAgree`, `NothingIsLeft`, `SourcesAgree` |
| `edgeconnect` | 4 tokens, 6 objects at the tenant, 2 incarnations, 2 edits, 2 faults, fairness | `OneManagedObject`, `GoneLeavesNoObject`, `PodsGetTheCredentials`, `TokensAgree` |
| `certificates` | operator and certgen, 6 roots, server certificates of 3 and roots of 4 intervals, renewal 2 before, until 6; 2 troubles | `ServedIsTrusted`, `MissedIsRepaired` |
| `pods` | 1 or 2 containers, pods and DynaKubes with any features, 1 change | `MountsHaveVolumes`, `ContainersAreConfigured`, `NothingPartial` |
| `admission` | 2 names, 2 clients, 3 requests, 1 failing list | `NothingIsShared`, `OldClientsReadBack`, `OldWriteBackIsAccepted` |

The comment before each property says what it promises. What each exempts is listed in section 5.

**Bounds.** `MaxEdits`, `MaxChanges`, `MaxRequests` and `MaxFaults` bound what users and failures do;
everything the program itself does is unbounded. Initial states are not only the empty ones: nodes and
features start in any combination, volumes and service entries may come from an older version, so one
or two edits reach an upgrade, a switch-off or a re-creation from every situation. Two versions are
needed for an update that leaves an old module behind, two DynaKubes for a clean-up that one causes
and the other suffers, two namespaces for a label that moves while another stays, two incarnations
for an object of a resource that was created again. One fault is enough for the anomalies of one
failing call, and each retry after it is checked; calls that fail over and over are modelled
by `BrokenCalls` and by entries without IP; where two steps must both go wrong (Istio, EdgeConnect,
certificates, workloads) two are allowed. `Hour = 1` and `PruneInterval = 0` keep the order of the two
periods of the nodes controller; the intervals of `certificates` keep the order poll < renewal < server
< root and let both roots be renewed within the horizon. In `dk` the objects are chosen so that each
way to report, guard, clean up and fail occurs next to the ones it shares a condition or a read with.

**Fairness** (`FairSpec`, `LiveSpec`), and why the code justifies it:

- workers, handlers and Jobs go on when they can (WF): threads of running processes; Jobs have
  `activeDeadlineSeconds`; the ticker and the retry time are clocks.
- `Reconcile(dk)` of the provisioner: strong fairness, since each result requeues the DynaKube and the
  work queue is first-in first-out, so one busy DynaKube cannot starve another. Likewise
  `DetermineDynaKube(n)` and `Tick` of the nodes controller.
- the kubelet repeats unanswered calls and keeps updating Node objects; instances of gone nodes are
  collected with their pods; the garbage collector collects.
- the DynaKube and EdgeConnect workers (WF): every result, error or not, is followed by another reconcile
  (`RequeueAfter`, or the back-off of the work queue); workloads get ready in the end.
- nothing forces users to act, calls to fail, or pods to come and go.

Liveness that a repeated reconcile undoes and redoes is stated as `[]<>` (the symlink is removed and created
again in each reconcile), the rest as `<>[]`. `VersionsFollowSpec`, `SettingsAreCurrent`, `PodsAreCurrent`,
`EntriesAgree`, `LabelsAgree`, `SecretsAgree`, `NothingIsLeft` and `SourcesAgree` need no fairness: they are
invariants of settled states, a fixed number of undisturbed reconciles after the last change.

Deadlock is checked where the system cannot stop (nodes, DynaKube, Istio). A CSI driver without
DynaKubes and volumes, an EdgeConnect that is gone, an admitted pod, an answered request or a clock at its horizon has nothing to do.

## 4 Proofs

For all values of the constants that satisfy the assumptions named in the modules: any set of DynaKubes,
versions, volumes, nodes, names, clients, containers and calls, and any bounds on what users and failures do.

**`CSIDriver_proofs`.** `TypeInv` adds to `TypeOK` what the locals of worker and handlers hold. On it
rest two strengthenings that are proved apart from each other:

- `WorkerInv`: what the provisioner found stays true while it acts on it. The module it is about to point to is
  still installed, because only the worker itself removes modules; the bins to keep cover the symlinks of the listed DynaKubes and
  the mounts under `/data`, because no handler makes such a mount. The server's steps change none of this
  (`ServerKeepsWorkerState`). Hence `LatestBinsAreKept`, `DataDirMountsAreKept`, `LatestIsSwitchedToInstalled`.
- `VolumeInv` = `PublishedIsMounted`, `HostPublishedIsBound`, `GoneLeavesNothing`,
  with `HandlerInv` (what a handler found or did at its target has not
  changed since; the kubelet has one call per volume) and `PodInfoInv` (a link exists only while the pod-info file
  names it, unless the clean-up failed). `PublishedIsMounted` alone is not inductive: nothing in it says that a handler about
  to answer has a mount, and nothing that the handler that is
  at work is the one the kubelet waits for. A volume enters `uncleaned` when a step of its clean-up fails.
- `DriverImplementsStore`: each worker, clean-up and handler step is a step of `CodeModuleStore` or
  a stutter, under `WorkerInv`, which supplies the preconditions of `Point` and `Collect`.
- The limiter in front of the server is a specification of its own (`GrpcLimiter`): for every finite set of calls and
  every limit (`GrpcLimiterAssumption`), `LimiterInv` joins the bound with `CounterCounts`; a call that was admitted
  saw a counter that counted itself and all that are being handled. No run instantiates it: the theorems say more than one could.

**`NodesAndRollouts_proofs`, the nodes.** `MarkMeansSent` is preserved because each step that writes a mark of age 0 also resets
`lastEvent`, and time ages both. `ForgottenAfterEvent` follows from it: an entry is dropped after a mark
within the hour, or after the event that was just sent.

**`NodesAndRollouts_proofs`, the rollouts.** `PodsAreCurrent`, `PodsCanStart` and `RolloutsStop`, for any set of DynaKubes with
any combination of features and any number of disturbances; the run has chosen ones with two. The argument is a squeeze:

- *Nothing is ahead of its source.* Values only grow, and contents with them (`StepGrows`): an object never passes the values
  it is made of (`ContentInv`), nor a hash in the status its object (`StatusInv`), nor a hash in a template the object it
  stands for (`TemplateInv`). Some hashes are not computed from the object but from the DynaKube or its source (attributes,
  properties, the parts of the log agents' configuration). There the order of the steps matters: the object was written
  by an earlier step of the same reconcile (`ProgressInv`), because an error ends the component. The properties may change
  in between, which is the exemption `raced`.
- *No pod is behind the hash it started with* (`PodInv`), since it starts after the template was written and mounts what the
  object holds then. A secret whose volume is left out because it is missing has no hash either.
- *Undisturbed reconciles catch up.* `DoneInv`: an object whose step succeeded in a reconcile that nothing disturbed is there
  and holds what it should, as does its hash in the copy of the status; `DeployedInv`: in the next one each workload gets the
  template that it would still be given now. In between nothing that templates are made of changes (`QuietStep`). The hash
  of the KSPM token has no second chance, hence the exemption `lost`, and `LostInv` says that otherwise it is the hash of the token.
  Emptied properties have one hash whatever the copy holds; `Outlived` and `NeverStarted` exempt them alone.
- Hence the hash of a pod is that of the current object, which is not ahead of what the pod has, which is not ahead of the
  current object. For `PodsCanStart`, `NeedsAreProduced` compares the condition of each volume with that of the step that makes
  its object, and `SameMounts` the volumes with the mounts. `RolloutsStop` follows from `DeployedInv`.

**`DynaKubeController_proofs`.** `EveryObjectIsRemembered`: for all sets of managed objects that are closed under sharing a
condition (`DynaKubeAssumption`), all features, broken calls and bounds. `NothingIsForgotten` speaks of the stored
status between two reconciles, so the invariant has to follow the copy through the pipeline.

- `Position` says where the worker may be, `Tracked` that its copy has the condition of every object
  that exists.
- `Tracked` has one exception, the connection information of the OneAgent, whose condition is the DaemonSet's and is
  set by the *next* step of the pipeline (`AboutToReport`). The other way round, the clean-up of the DaemonSet drops the
  condition for both, and is safe because the connection information was cleaned up before (`ConnectionInfoFirst`).
- The condition of the ActiveGate is dropped two clean-ups after its StatefulSet was deleted (`StatefulSetFirst`).
- Both rest on the order of the pipeline. `Order` and `Rows` evaluate it once; `Walk`, `NextStep` and
  `ComponentEnds` say to which step a step leads when any of those in between may not be in `Objects`.

**`EdgeConnectController_proofs`.** `NeverTwoObjects` and `DeletionIsComplete`. That there is at most one object of the
operator is not inductive: what matters is that a worker about to create one has looked at a tenant that
had none and whose list is still true (users add only objects of their own), and that whoever works at the
tenant has put the finalizer on the resource before (`FinalizerFirst`), since without it a deletion would not look
at the tenant. `FreshAssumption` says that tokens are drawn from a set that three places cannot exhaust.

**`Webhook_proofs`, the pods.** All three invariants of an answered pod. `Sound` is about the pod alone: mounts,
volumes, init containers, arguments and annotations agree, with the number of calls as a bound of the arguments.
`ConfiguredAsNow` and `InjectedAsNow` tie it to the DynaKube of the call and are dropped when a user edits it
(`edited`). `CallsInv` says what the second call can still find. `ObjectsAssumption` only types the initial objects.

**`Webhook_proofs`, the admission of DynaKubes.** Conversion: every v1beta5 object of the schema with at most one mode reads back as
`ReadBack` says (`OldClientsAreServed`), and what is read of any admitted DynaKube, but for two exceptions, passes the validators of a single object
(`OldClientsMayWriteBack`); the lemmas follow the conversions field by field. Admission (`AdmittedSharesNothing`): `RequestInv`
says of a request on its way with which stored DynaKubes its object was compared by which validator; those that were
stored after its list was read are in its `missed`, and become `unseen` when it is stored. `SelectorAssumption` is the exception of
section 5: without it no validator compares the two selectors.

**`Webhook_proofs`, the certificates.** `MissedIsRepaired` and `ServedIsTrusted`, for any set of processes that renew the
certificates (the operator among them), any durations that the constructor accepts, and any bounds on time and
failures, as long as a root is left to generate. Everything rests on the clock: nothing that is due is put off to the
next tick, so time stands still while a worker works or a pod polls, and what a worker judged by `now` stays so judged.

- `DueInv`, `RepairInv`: the ticks since a bundle was missed and the ticks until the next reconcile add up to at most
  the requeue interval. While the operator is at work, what it has not yet written is only as late as `due` was.
- `SecretInv`: server and root in the secret belong together and were issued with their durations. `WorkInv`: what a
  worker will write into the secret is what it would generate from the secret of now, unless somebody else has
  written it since, and then the write is refused; who already writes bundles holds the secret of now, which is valid. That two
  processes renew at the same time is harmless for this reason alone.
- `BundleInv`: each bundle that is not `missed` holds the roots of the secret, unless a worker that is bound to write
  it is on its way (`Covers`). Here `IsUpToDate` matters: a reconcile may end early only if every bundle it has read
  is that of the secret it has read.
- `PodInv`: what the pod serves or is about to serve is `Current`, issued from the root of the secret or from the one
  before, or is expired, or from a secret that was deleted. When the root is renewed a second time, the last server certificate of
  the root before the first renewal must have expired: that is what `RootOutlivesServer` says of the durations.
- `RootOutlivesServer` is a hypothesis and not an assumption, because the constructor does not check it
  (`webhook_cert_controller.go:82`). The defaults (`k8senv/env.go:53`: 12 hours, 7 days, 365 days) meet it by far. Without it TLC finds,
  for a server certificate of 4 intervals, a root of 5, a renewal of 3 and four failing polls, a pod that still serves, unexpired,
  a certificate of the root before the last two. It takes polls that fail until the second renewal.

**`NamespaceInjection_proofs`.** All four invariants of the run (`MappedAsSelected`, `CopiesAsSelected`, `UnmappedIsEmpty`,
`SourcesFollowFeatures`), for any finite sets of namespaces and DynaKubes, any selectors and bounds, with at least one
namespace and one token. The properties speak of the states in which every DynaKube is `clean`, so the invariant
follows the one reconcile under way for as long as nobody disturbed it:

- `LabelInv`: at each step of the mapping and the unmapping what is already true of the labels. The namespaces
  in `todo` are exactly those whose label is not yet what the list of DynaKubes gives, and a relabelling of one DynaKube
  makes the others unclean, which is why a clean one can be taken for mapped.
- `SourceInv`: what is generated so far (`Reached`) is what is wanted. A clean-up happens only when a condition makes it
  due, so for every DynaKube that met no failure a condition tells of each source secret (`ConfigTold`, `CertsTold`) in the
  stored status or, during its reconcile, in the copy, but for the steps between the secret and its condition (`Writing`).
  The certificates of a feature that is not needed are dropped with its configuration and must be told by the condition
  of that one, so they are written only once it is there.
- `LeftInv`: a namespace without a label is empty (`EmptyInv`) except while it waits in `removed`, between the step that
  takes its label and the one that deletes its secrets. For that, what the reconcile writes to must be its own: `GivenInv`
  says that a namespace it will write to has its label, or was taken away by somebody else, which makes it an orphan.
- `CopyInv`: of a clean DynaKube every namespace with its label is right (`CleanInv`), which a reconcile of it that nobody
  disturbed makes true one kind after the other (`DoneInv`, from the namespaces of the selectors, `TargetsInv`, and from the
  deletions of the mapping, `MatchedInv`). A reconcile of another DynaKube leaves it true because it touches only namespaces
  that are given to it. That certificates are deleted rests on a condition, so one tells of every copy (`ToldInv`) that is
  not an orphan's and whose DynaKube met no failure.
- The run makes one edit. The proof showed what it takes four for: a copy of the certificates that a pod got between
  the listing of the namespaces and the clean-up outlives its condition (section 5). It is counted among the `orphans` (`LateCopies`), as are the other copies that nothing will delete.
- `GeneratingSources` and `GeneratingCopies` say what any step of the generation has to show; the lemmas `...Fields` say what each
  handler does to the record of the reconcile.

**`TenantStatus_proofs`.** All three properties of the run, for any set of specs of the schema (`SpecsAssumption`), versions
and scopes the tenant may have, and any numbers of changes and faults. `quiet` remembers since when nobody disturbed
anything; a step after which it is still quiet met no fault and changed nothing of the tenant but the settings objects
(`QuietWalk`, `QuietOthers`), so most of the invariant speaks of quiet states only.

- `CacheInv`, `ScopesInv`: the threshold empties the cache, and what is cached afterwards is what the tenant would answer
  now; hence the scopes of a reconcile are those of the token, and a request that is made is granted.
- `VersionInv`: from the step of a component on, its version in the copy is as it should be (`Follows`), and with
  `quiet = 2` all are in the stored status. The ActiveGate is exempt while it is disabled and has no StatefulSet.
- `ConditionInv`: a recent condition puts a request off, so it must tell what the request would find: the entity, the
  rules, exactly one settings object. `Tick` makes all of them old, and whatever sets one in a quiet reconcile
  has just asked. That is why nothing is put off for ever.
- `ProgressInv` says what a quiet reconcile has settled by the step it is at, `SettledInv` what is stored. An entity
  that was there before is still there, which is what saves a settled status from a reconcile that ended with an error.
- `SettingInv` holds at all times: an object is created only by the step after the one that found none, and by nobody
  else, so there is never a second one, however many answers are lost.
- `VersionsNeverGoBack`: the copy differs from the stored status in the version of the OneAgents only before the last step
  (`OldVersionInv`), and a version of the tenant's registry has an image (`ImageInv`): without one the check
  for a downgrade would let any version pass.

**`IstioReconciler_proofs`.** `EntriesFollowTheTenant`, for any hosts, specs and endpoints, also malformed ones, and any
numbers of changes and faults. That the entries agree is decided in the steps of one reconcile (`Undisturbed`):

- `LeakInv` holds at all times, disturbed or not: an agent whose entries the status at hand does not mention is in `leaked`.
  Without it a reconcile that finds no condition and does nothing could leave entries behind. The ActiveGate has a
  second way to be forgotten, a status without its StatefulSet, which is why the part about the steps before is its own.
- `StepInv`: the endpoints in the copy are those the tenant advertises now, when their entries are written.
- `MeshInv`: which entries are in order by which step (`Agrees`). The ActiveGate and Kubernetes monitoring share theirs; the
  last of the two steps that deal with them is `GateDone`. `Gone` is weaker than no entries: what was forgotten stays.
- `MeshFacts` is the one lemma about the four outcomes of the reconciler of entries. In it `CostsFacts` counts the calls: no
  fault means that every call was answered, so nothing is left half written.

**Model-checked only.** Everything under fairness (`LatestConverges`, `UnusedBinsCollected`, `CordonedIsMarked`, `GoneLeavesCache`,
`EnabledIsDeployed`, `DisabledIsRemoved`, `PhaseSettles`, `ErrorsHeal`, `RemovedWhateverIsLost`, `PodsGetTheCredentials`, `TokensAgree`),
since TLAPS does not handle `ENABLED`. Every other property of a passing run is stated by a theorem.

## 5 What the models leave out of their properties, and why

Behaviour met while modelling that a reader might not expect. The models follow the code; the
properties state the part that holds, and exempt what is listed here.

**CSI**
- The clean-up logs "binaries to keep because they are still mounted" (`csi/provisioner/cleanup/binaries.go:104`), but it looks
  for overlays mounted under `/data` (`:87`), where today's publisher does not mount. After an update of
  the version, the module that running pods use is removed. `StoreSpec` promises only the mounts under `/data`.
- An osagent directory that is published between the scan and the deferred removal of "unknown" directories is
  removed under its volume (`cleanup/run.go:98`).
- Whether an osagent directory is in use is asked of the mount table with the source of the bind
  mount, so mounted orphans are removed (`cleanup/hostmounts.go:69`; the test
  `hostmounts_test.go:77` says "don't remove mounted orphans").
- The server only logs failures of the clean-up of a volume and answers OK (`csi/server/server.go:216-235`). When the third unmount fails, the
  removal of the pod-info link is skipped while the directory with the pod-info file, the only way to find the link, is removed:
  the link stays for good. Likewise when the removal fails, or the file cannot be read (`:265`). `GoneLeavesNothing` exempts these volumes.
- An error after the overlay was mounted is answered as a failure, and the retry finds the mount and answers OK: the
  pod-info link is never made. `PublishedIsMounted` promises the mount only.
- The module of a download job has no symlink until a later reconcile of its DynaKube. The clean-up of another DynaKube may
  remove it before (`cleanup/binaries.go:43`) and the download starts again, again and again: `LatestConverges` is not claimed for DynaKubes with jobs.
- When the version of a module cannot be found on the disk, the module is removed, also one that was linked before (`symlink.go:29`, before the check in `:49`).
- A deletion during a restart of the provisioner, or whose clean-up fails, is not repeated unless some other
  DynaKube is reconciled (`csi/provisioner/controller.go:93`, against `cleanup/ticker.go:71`).

**Nodes**
- A cordoned node whose OneAgent pod has no IP for a moment, or that is created again behind a lagging
  informer, loses its entry and with it the time of the last mark (`nodes/cache/cache.go:219`): it may be marked twice within an hour.

**DynaKube: conditions**
- "no condition == nothing is there to clean up" (`dynakube/oneagent/oneagent_reconciler.go:157`). A conflict of the
  status write counts as success (`pkg/api/latest/dynakube/dynakube_status.go:109`), and conditions set only on
  creation or change are not set again: disabling the OneAgent then leaves the DaemonSet running.
  `NothingIsForgotten` states that no object loses its condition except through a lost status or a failing delete.
- The pull secret made for a OneAgent stays when the OneAgent is disabled and no ActiveGate was there
  (`oneagent_reconciler.go:120`).
- An ActiveGate that failed before its StatefulSet is not cleaned up when it is disabled (`activegate/reconciler.go:104`).
- A DaemonSet without status counts as ready, so the phase is Running before any pod is (`phase.go:241`).

**Tenant**
- A recent ScopeMissing condition skips the lookup of the entity, and the connection setting is posted although the
  entity exists (`dynakube/k8sentity/reconciler.go:41`, `:173`).
- A downgrade is refused once; the source of the version becomes the new one, after which it is no downgrade of the same source
  (`dynakube/version/updater.go:41`).
- With the public registry a custom version is ignored. An ActiveGate disabled before its condition is set keeps
  its version. Errors of one component's version are swallowed.
- With registration off but monitoring on, the scope to write settings is not asked for.
- Answers 429 and 503 of any request lose all conditions of the reconcile. A cached answer that cannot be
  unmarshalled stays until it expires (`pkg/clients/dynatrace/core/client.go:233`).
- `KubernetesSettingsNotAvailableError` is handled (`controller.go`) but nothing returns it.

**Workloads**
- The ActiveGate and the collector of KSPM may hold different tokens for a while, although they are "meant" to be in
  sync (`dynakube/kspm/spec.go`): the token is regenerated when its secret is gone, and each rolls by its own hash.
- A change of the noProxy annotation alters the copy of the custom properties, not their hash
  (`activegate/internal/customproperties/reconciler.go:114`, `statefulset/reconciler.go:102`); the hash of the proxy URL is not
  refreshed when only log monitoring uses it; properties that change between copy and hash are rolled out once more later.
- When the user empties the custom properties, the copy is not written any more (`activegate/internal/customproperties/reconciler.go:69`):
  the ActiveGates are rolled onto the older copy and keep it, or never start if there was none, because the
  template mounts it nevertheless (`modifiers/customprops.go:75`). The kubemon operand fails before its StatefulSet and is not rolled.
- The endpoints and the network zone of the log agents are left out of their hash on purpose (`logmonitoring/configsecret/reconciler.go:217`): running agents keep the older ones.
- Several objects take no part in any hash (`Unseen`); TLS secrets are never rotated; a first deployment rolls the
  ActiveGates twice; `deleteDeployments` stops at the first object that is gone (`extension/databases/deployment.go:310`);
  without a data-ingest token the collector is silently not deployed.

**Istio**
- The condition of the API URL is set as `IstioForOperator` and looked for as `IstioForoperator` (`istio/reconciler.go:57`, `:66`), so
  its entries stay when Istio is switched off.
- The deprecated condition is renamed to `IstioForoneagent`, which nobody looks for (`istio/deprecated.go`): entries of an older operator
  stay unless the injection is used again.
- A failing delete is only logged and the condition dropped. Postponed endpoints end the reconcile
  before a clean-up and leave old hosts. Switching from an ActiveGate to Kubernetes monitoring removes the entries for a moment.
  Errors of the code modules' entries are only logged.
- The condition of the StatefulSet is set only when it was created or changed, or an error occurred
  (`activegate/internal/statefulset/reconciler.go:73`). Lost with a status, it is not set again while the StatefulSet stays as it is; disabling the ActiveGate then
  skips the clean-up (`activegate/reconciler.go:103`), and its StatefulSet and entries stay.

**Namespaces**
- When a webhook or another DynaKube moves the label first, nothing knows of the copies of the first one's secrets; the same after a failure
  between the update of the label and `deleteUnmatchedReplicatedSecrets` (`pkg/injection/namespace/mapper/dynakubes.go:77`). The pod webhook may copy a
  secret back while it is being cleaned up. A lost status leaks the source secret.
- Without data the configuration secret is neither written nor removed (`bootstrapperconfig.go:75`). With mere host monitoring and a
  tenant that has no process grouping (any more) the older secret stays, or there is none: `SourcesAgree` exempts it. Changes between
  host monitoring and the other modes are not modelled (`HostMonitoring` is a constant).
- `UnmapFromDynaKube` of a DynaKube with nothing enabled only logs its error: labels and copies stay until some later
  reconcile (`pkg/controllers/dynakube/injection/reconciler.go`), which the model does not count as clean.
- Only a condition tells that there are copies of certificates to delete. It is not there after a crash or error before the write of
  the status, and not on a DynaKube that was deleted and created again before it was unmapped; nor does a clean-up reach a
  namespace that its DynaKube stopped selecting meanwhile, to which a pod being admitted then copies the certificates, although
  the condition that told of them goes with it (`pkg/injection/namespace/bootstrapperconfig/bootstrapperconfig.go`, `Cleanup`).

**EdgeConnect**
- The finalizer goes before the object at the tenant is deleted, so a crash in between leaves it. The
  connection setting stays when automation is switched off, when the UID of the cluster is not known or the object at the tenant is gone.
- A failed lookup of the registry still sets the time of the last probe (`edgeconnect/version/updater.go:63`).
- Two EdgeConnects of one name in different namespaces recreate each other's object.

**Certificates**
- `isUpToDate` does not look at the EdgeConnect CRD. After a rotation the bundle never equals `ca.crt`, so everything is
  written in each reconcile. A secret that is deleted takes the previous root along: the served certificate is not trusted until the next
  poll, six hours later; likewise after a failed poll.

**Pods**
- A second call that finds the init secret gone, or metadata too large, marks an injected pod as not injected
  (`pkg/webhook/mutation/pod/handler/injection/handle.go:64`, `:188`). A OneAgent enabled between the two calls mounts `oneagent-bin`
  without its volume (`handle.go:181`). Errors of the exporter's second call are only logged; an error of OTLP also rolls back the OneAgent.
- The configuration says `sideEffects: None`, but the webhook creates secrets.

**Admission**
- Validators accept when the list fails (`pkg/api/validation/dynakube/oneagent.go:98`, `telemetryservice.go:105`), and two requests
  may each be compared with a list without the other: `NothingIsShared` covers DynaKubes whose requests did not overlap and whose lists did not fail.
- Selectors on different keys are not compared, although "only one Agent per node is supported" (`oneagent.go:29`); labels of nodes and namespaces may change later.
- Neither conversion copies the `storageHostPath` of host agents, nor `useEphemeralVolume` and `terminationGracePeriodSeconds` of ActiveGates
  (`convert_to.go:199`, `:274`): a client of v1beta5 does not read back what it wrote, and by writing back what it
  read it takes away what others set. Nothing says so: v1beta5 documents the field as "the writable directory on the host filesystem where
  OneAgent configurations will be stored" (`pkg/api/v1beta5/dynakube/oneagent/spec.go:108`), and such an agent gets the default directory instead.
  Half an image reference of the collector is replaced by the default. `OldClientsReadBack` exempts these.
- An empty `extensions` section of the latest version becomes an enabled Prometheus for a v1beta5 client (`convert_from.go:82`, `convert_to.go:82`), and
  `eec.go:22` refuses it when the image is missing. `OldWriteBackIsAccepted` exempts it.
- A v1beta5 object with two OneAgent modes is converted to the first before anybody validates it (`pkg/api/v1beta5/dynakube/convert_to.go:90`).
- The annotation of the default collector image stays when a client of the latest API sets its own image (`convert_from.go:168`).
  Extensions with only databases become Prometheus extensions when a v1beta5 client writes them back; its writes drop
  OTLP, Kubernetes monitoring, attributes, overrides and databases, and KSPM that relied on Kubernetes monitoring is then refused.

## 6 Not modelled

CSI: directories named after tenants (older layouts), process module configuration, the
symlinks inside a module apart from `agent/bin/current`, clean-up of app mounts without a volume, two calls for
one volume at the same time (a call whose deadline passed may still run when the kubelet repeats it).

Nodes: the controller takes the first DynaKube with an instance on the node; the model has one.

DynaKube: `DynaKubeController` abstracts from the sides that have modules of their own (tenant, contents,
Istio, namespaces); the composition of those is through the status and objects each reads, not one product. The
phase reads the workloads in one fresh step although they come from a cache. `DynaKubeObjects` also holds rows
(the collector's, proxy and pull secret, ...) that the run does not instantiate.

Tenant: the setting of the Kubernetes app. Workloads: tolerations, resources, probes, arguments. Istio: protocols and
ports (entries merge ports by number, whatever the protocol). Admission: warnings, EdgeConnects, v1beta3 and v1beta4.
Pods: values of variables, security contexts.

Not modelled at all, for the reasons `PROJECT.json` gives: the generator of collector configurations (`pkg/otelcgen`), registries,
commands that run once, CRD storage migration and CSI metadata migration (small, sequential), Prometheus resources
(`dtprometheus/`), registrar and liveness probe (wiring), utilities.

## 7 Plan

1. `StorageMigration` and the migration of CSI metadata, both interrupted at any step.
2. Overlapping calls of the kubelet in `CSIServer`.
