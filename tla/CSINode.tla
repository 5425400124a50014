------------------------------- MODULE CSINode -------------------------------
(***************************************************************************)
(* What the containers of the CSI driver pod share: the data directory of  *)
(* one node (/data, a hostPath that survives every container restart), the *)
(* mount table of the node, and the DynaKubes the API server holds.        *)
(*                                                                         *)
(* The layout is the one of metadata.PathResolver:                         *)
(*   /data/codemodules/<version>                   codeModules, currentLink *)
(*   /data/_dynakubes/<dk>                         dynakubeDirs            *)
(*   /data/_dynakubes/<dk>/latest-codemodule       latest                  *)
(*   /data/_dynakubes/<dk>/osagent                 osAgentDirs             *)
(*   /data/_dynakubes/<dk>/appmounts/<ns>/<pod>    podInfoLinks            *)
(*   /data/appmounts/<volume>                      appMountDirs            *)
(* Directories left by operator versions that named them after the tenant  *)
(* (/data/<tenant>/...) are not in this module.                            *)
(***************************************************************************)
EXTENDS Naturals, FiniteSets

CONSTANTS
    DynaKube,       \* names of the DynaKubes
    Version,        \* versions (or encoded image URIs) a code module dir is named after
    NoVersion,      \* no symlink, or no version in the DynaKube's status
    AppVolume,      \* volume IDs of pods that mount a code module (mode "app")
    HostVolume,     \* volume IDs of OneAgent pods (mode "host")
    DynaKubeOf,     \* the dynakube volume attribute of each volume
    PodOf,          \* namespace and name of the pod of each app volume
    Specs,          \* bound: the specs users and the operator give a DynaKube
    MaxEdits,       \* bound: changes of DynaKubes by users or the operator
    MaxFaults       \* bound: crashes, lost answers and failing calls

DynaKubeSpec == [app : BOOLEAN, host : BOOLEAN, version : Version \cup {NoVersion}]
NoSpec == [app |-> FALSE, host |-> FALSE, version |-> NoVersion]

ASSUME CSINodeAssumption ==
    /\ NoVersion \notin Version
    /\ AppVolume \cap HostVolume = {}
    /\ Specs \subseteq DynaKubeSpec
    /\ DynaKubeOf \in [AppVolume \cup HostVolume -> DynaKube]
    /\ DOMAIN PodOf = AppVolume
    /\ MaxEdits \in Nat
    /\ MaxFaults \in Nat

VARIABLES
    exists,         \* the DynaKubes the API server has
    spec,           \* for each, what the provisioner reads of its spec and status
    edits,
    codeModules,    \* content of /data/codemodules/<version>
    currentLink,    \* versions whose agent/bin/current symlink exists
    latest,         \* target of /data/_dynakubes/<dk>/latest-codemodule
    dynakubeDirs,   \* DynaKubes with a directory under /data/_dynakubes
    osAgentDirs,    \* DynaKubes with an osagent directory
    appMountDirs,   \* content of /data/appmounts/<volume>
    podInfoLinks,   \* volumes the pod-info symlink of their pod points to
    mounts,         \* overlay mounts, and the bind mounts of their result
    hostMounts,     \* state of the storage each host volume is bound to
    faults

clusterVars == <<exists, spec, edits>>
binaryVars  == <<codeModules, currentLink, latest>>
volumeVars  == <<appMountDirs, podInfoLinks, mounts>>
hostVars    == <<dynakubeDirs, osAgentDirs, hostMounts>>

(***************************************************************************)
(* "partial" is a directory some layers of the image never reached.        *)
(***************************************************************************)
Content == {"absent", "partial", "full"}

(***************************************************************************)
(* An app mount: what its directory holds (the pod-info file of the upper  *)
(* directory; the mount-start directory that times the retries).           *)
(***************************************************************************)
NoTracker == "none"
Tracker == {NoTracker, "ticking", "expired"}
AppMountDir == [created : BOOLEAN, podInfo : BOOLEAN, mountStart : Tracker]
NoAppMountDir == [created |-> FALSE, podInfo |-> FALSE, mountStart |-> NoTracker]

(***************************************************************************)
(* The overlay of a volume is mounted at its target path, which lies in    *)
(* the pods directory of the kubelet.  Earlier operator versions mounted   *)
(* it at /data/appmounts/<volume>/mapped and bound that to the target.     *)
(***************************************************************************)
MountPath == {"target", "mapped"}
Mount == [volume : AppVolume, path : MountPath, lower : Version]
HostMount == {"none", "live", "orphaned"}

SharedTypeOK ==
    /\ exists \subseteq DynaKube
    /\ spec \in [DynaKube -> DynaKubeSpec]
    /\ edits \in 0..MaxEdits
    /\ codeModules \in [Version -> Content]
    /\ currentLink \subseteq Version
    /\ latest \in [DynaKube -> Version \cup {NoVersion}]
    /\ dynakubeDirs \subseteq DynaKube
    /\ osAgentDirs \subseteq DynaKube
    /\ appMountDirs \in [AppVolume -> AppMountDir]
    /\ podInfoLinks \subseteq AppVolume
    /\ mounts \subseteq Mount
    /\ hostMounts \in [HostVolume -> HostMount]
    /\ faults \in 0..MaxFaults

-----------------------------------------------------------------------------
(* Views of the shared state.                                              *)

\* os.Stat of a code module directory
Installed(v) == codeModules[v] # "absent"

InstalledVersions == {v \in Version : Installed(v)}

\* os.Stat of the latest-codemodule symlink, which follows it
LatestResolves(dk) == latest[dk] # NoVersion /\ Installed(latest[dk])

Mounted(vol) == \E m \in mounts : m.volume = vol /\ m.path = "target"

MappedMount(vol) == \E m \in mounts : m.volume = vol /\ m.path = "mapped"

\* isProvisionerNeeded: app injection, or a host agent with a CSI volume
IsRelevant(dk) == spec[dk].app \/ spec[dk].host

\* GetRelevantDynaKubes
RelevantDynaKubes == {dk \in exists : IsRelevant(dk)}

\* volumes whose pod-info symlink has the same path as that of vol
SamePodInfoPath(vol) ==
    {w \in AppVolume : PodOf[w] = PodOf[vol] /\ DynaKubeOf[w] = DynaKubeOf[vol]}

\* Environment: a call fails, a process dies or an answer is lost: each uses up the budget.
Fault == faults < MaxFaults /\ faults' = faults + 1

(***************************************************************************)
(* A node on which an earlier version of the driver may have published     *)
(* volumes: some have the "mapped" layout, with the overlay under /data.   *)
(***************************************************************************)
LegacyMounts(legacy, lower) ==
    {[volume |-> vol, path |-> p, lower |-> lower] : vol \in legacy, p \in MountPath}

SharedInit ==
    /\ exists = {}
    /\ spec = [dk \in DynaKube |-> NoSpec]
    /\ edits = 0
    /\ latest = [dk \in DynaKube |-> NoVersion]
    /\ osAgentDirs = {}
    /\ \E legacy \in SUBSET AppVolume, lower \in Version :
          /\ \A vol \in legacy : SamePodInfoPath(vol) \cap legacy = {vol}
          /\ codeModules = [v \in Version |-> IF legacy # {} /\ v = lower THEN "full" ELSE "absent"]
          /\ mounts = LegacyMounts(legacy, lower)
          /\ appMountDirs = [vol \in AppVolume |->
                IF vol \in legacy THEN [NoAppMountDir EXCEPT !.created = TRUE, !.podInfo = TRUE]
                                  ELSE NoAppMountDir]
          /\ podInfoLinks = legacy
          /\ dynakubeDirs = {DynaKubeOf[vol] : vol \in legacy}
    /\ currentLink = InstalledVersions
    /\ hostMounts = [vol \in HostVolume |-> "none"]
    /\ faults = 0
=============================================================================
