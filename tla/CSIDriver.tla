------------------------------ MODULE CSIDriver ------------------------------
(***************************************************************************)
(* The CSI driver of one node: the provisioner and the server containers   *)
(* of the DaemonSet's pod, sharing the data directory and the mount table. *)
(***************************************************************************)
EXTENDS CSIProvisioner, CSIServer

vars == <<clusterVars, binaryVars, volumeVars, hostVars, faults, provisionerVars, serverVars>>

Init == SharedInit /\ ProvisionerInit /\ ServerInit

Next ==
    \/ ProvisionerNext /\ UNCHANGED serverVars
    \/ ServerNext /\ UNCHANGED provisionerVars

Spec == Init /\ [][Next]_vars

(***************************************************************************)
(* Fairness: the worker and the handlers keep running, the kubelet repeats *)
(* an unanswered call, timers fire, a job ends (activeDeadlineSeconds).    *)
(* The workqueue is served in order, so a queued DynaKube gets its turn    *)
(* although the worker is busy again and again: strong fairness.  Nothing  *)
(* forces users, faults, or the start and the end of pods.                 *)
(***************************************************************************)
Fairness ==
    /\ WF_vars(Installer /\ UNCHANGED serverVars)
    /\ WF_vars(Cleaner /\ UNCHANGED serverVars)
    /\ WF_vars(TickerFires /\ UNCHANGED serverVars)
    /\ \A dk \in DynaKube : SF_vars(Reconcile(dk) /\ UNCHANGED serverVars)
    /\ \A v \in Version : WF_vars(JobMovesBinary(v) /\ UNCHANGED serverVars)
    /\ \A v \in Version : WF_vars(JobExpires(v) /\ UNCHANGED serverVars)
    /\ \A vol \in Volume : WF_vars(Serve(vol) /\ UNCHANGED provisionerVars)
    /\ \A vol \in AppVolume : WF_vars(RetryTimeout(vol) /\ UNCHANGED provisionerVars)

FairSpec == Spec /\ Fairness

-----------------------------------------------------------------------------

(***************************************************************************)
(* Every variable of the node, of the provisioner and of the server holds  *)
(* a value of its type.                                                    *)
(***************************************************************************)
TypeOK == SharedTypeOK /\ ProvisionerTypeOK /\ ServerTypeOK

(***************************************************************************)
(* An app volume that was answered OK is mounted, or the retry limit gave  *)
(* it up; whatever crashed, failed or was repeated in between.             *)
(***************************************************************************)
PublishedIsMounted ==
    \A vol \in AppVolume :
        kubelet[vol] = "running" => Mounted(vol) \/ vol \in dummy

(***************************************************************************)
(* A host volume that was answered OK is bound to the osagent directory,   *)
(* or to one that was removed under it; whatever was repeated or crashed.  *)
(***************************************************************************)
HostPublishedIsBound ==
    \A vol \in HostVolume : kubelet[vol] = "running" => hostMounts[vol] # "none"

(***************************************************************************)
(* An unpublished volume leaves no pod-info symlink and no retry tracker   *)
(* in the data directory, and no app mount directory either unless the old *)
(* mapped mount in it could not be unmounted; also when the publish failed *)
(* half-way, when the publish or the unpublish was cut off by a crash and  *)
(* repeated, and when the target could not be unmounted.  Exempt are the   *)
(* volumes for which a step of the clean-up itself failed: server.go only  *)
(* logs that and answers OK, so nobody cleans up again, and once the       *)
(* pod-info file is gone nobody finds the symlink.                         *)
(***************************************************************************)
GoneLeavesNothing ==
    \A vol \in AppVolume \ uncleaned : kubelet[vol] = "gone" =>
        /\ vol \notin podInfoLinks
        /\ ~appMountDirs[vol].podInfo
        /\ appMountDirs[vol].mountStart = NoTracker
        /\ appMountDirs[vol].created => MappedMount(vol)

(***************************************************************************)
(* The locals of the worker and of a handler hold what their step needs.   *)
(***************************************************************************)
LocalsInv ==
    /\ ppc \in {"install", "current", "unlink", "link"} => current \in DynaKube /\ target \in Version
    /\ \A vol \in AppVolume : At(vol, "mount") => lowerDir[vol] \in Version

(***************************************************************************)
(* What the worker relies on between two calls: the module it is about to  *)
(* point a symlink at is still there (nobody but the worker removes        *)
(* modules), and once the bins to keep are collected they cover the        *)
(* symlinks of the listed DynaKubes and the mounts under /data, although   *)
(* handlers mount and unmount meanwhile (install.go, binaries.go).         *)
(***************************************************************************)
WorkerInv ==
    /\ ppc \in {"current", "unlink", "link"} => target \in InstalledVersions
    /\ ppc \in {"unlink", "link"} /\ current \in JobPull => target \in currentLink
    /\ ppc \in {"latestBins", "readBins", "removeBins"} => StillMountedBins \subseteq keptBins
    /\ ppc \in {"readBins", "removeBins"} =>
          \A dk \in DynaKube : listed[dk].app /\ latest[dk] # NoVersion => latest[dk] \in keptBins

Publishing == {"available", "prepare", "readlink", "mount", "podinfo", "limit", "finish", "mkdir", "bind"}
Unpublishing == {"unmount", "unmapped", "clean", "remove"}

(***************************************************************************)
(* What a handler relies on: it serves the call the kubelet is waiting     *)
(* for, and what it found or did at the target path has not changed since. *)
(***************************************************************************)
HandlerInv ==
    /\ \A vol \in Volume :
          /\ handler[vol] \in Publishing => kubelet[vol] = "waiting"
          /\ handler[vol] \in Unpublishing => kubelet[vol] = "stopping"
    /\ \A vol \in AppVolume :
          /\ handler[vol] \in {"available", "prepare", "readlink", "mount"} => ~Mounted(vol)
          /\ At(vol, "podinfo") => Mounted(vol)
          /\ At(vol, "finish") => Mounted(vol) \/ vol \in dummy

(***************************************************************************)
(* The unpublish finds a pod-info symlink: the pod-info file that names it *)
(* is written before it is made and removed with it, unless the clean-up   *)
(* failed.                                                                 *)
(***************************************************************************)
PodInfoInv ==
    \A vol \in AppVolume :
        /\ vol \in podInfoLinks \ uncleaned => appMountDirs[vol].podInfo
        /\ appMountDirs[vol].podInfo => appMountDirs[vol].created
        /\ handler[vol] \in {"readlink", "mount", "podinfo"} => appMountDirs[vol].podInfo
        /\ At(vol, "remove") /\ vol \notin uncleaned => ~appMountDirs[vol].podInfo

Removed(v) == Installed(v) /\ codeModules'[v] = "absent"

(***************************************************************************)
(* The clean-up never removes the module that the latest-codemodule        *)
(* symlink of a DynaKube it has listed points to at that moment.           *)
(***************************************************************************)
LatestBinsKept ==
    [][\A v \in Version : Removed(v) /\ ppc = "removeBins" =>
          \A dk \in DynaKube : listed[dk].app => latest[dk] # v]_vars

(***************************************************************************)
(* Nor a module that is mounted at that moment at a path under /data.      *)
(***************************************************************************)
DataDirMountsKept ==
    [][\A v \in Version : Removed(v) /\ ppc = "removeBins" =>
          \A m \in mounts : m.path = "mapped" => m.lower # v]_vars

(***************************************************************************)
(* The latest-codemodule symlink is only ever switched to a module that is *)
(* there; and for the download jobs, that has its agent/bin/current link.  *)
(***************************************************************************)
LatestSwitchedToInstalled ==
    [][\A dk \in DynaKube : latest'[dk] \notin {NoVersion, latest[dk]} =>
          /\ latest'[dk] \in InstalledVersions
          /\ dk \in JobPull => latest'[dk] \in currentLink]_vars

-----------------------------------------------------------------------------

(***************************************************************************)
(* The driver implements the promises of CodeModuleStore.                  *)
(***************************************************************************)
Store == INSTANCE CodeModuleStore WITH
    installed <- InstalledVersions,
    staged    <- IF ppc = "current" THEN {target} ELSE {},
    pointed   <- latest,
    known     <- {dk \in DynaKube : listed[dk].app},
    mounted   <- mounts

StoreSpec == Store!Spec

Wanted(dk) == CSIDriverModule /\ dk \in exists /\ spec[dk].app /\ spec[dk].version # NoVersion

(***************************************************************************)
(* Once users and failures stop, the symlink of a DynaKube with a version  *)
(* points at that version, installed, again and again (each reconcile      *)
(* removes and re-creates it, so not "from some time on"), whichever       *)
(* installer the other DynaKubes use.  It is not claimed for a DynaKube    *)
(* with download jobs: the module of a job has no symlink until a later    *)
(* reconcile of its DynaKube, and the clean-up of another may remove it    *)
(* before, again and again.                                                *)
(***************************************************************************)
LatestConverges ==
    \A dk \in DynaKube \ JobPull :
        []<>(Wanted(dk) => latest[dk] = spec[dk].version /\ LatestResolves(dk))

\* a reconcile of dk ends with the clean-up
ReachesCleanup(dk) ==
    dk \in exists /\ (~CSIDriverModule \/ ~spec[dk].app \/ spec[dk].version # NoVersion)

InUse(v) ==
    \/ \E m \in mounts : m.path = "mapped" /\ m.lower = v
    \/ \E dk \in exists : spec[dk].app /\ (latest[dk] = v \/ spec[dk].version = v)

(***************************************************************************)
(* A module nobody uses is removed, as long as the reconcile of some       *)
(* DynaKube reaches the clean-up.                                          *)
(***************************************************************************)
UnusedBinsCollected ==
    \A v \in Version :
        []<>((\E dk \in DynaKube : ReachesCleanup(dk)) => InUse(v) \/ ~Installed(v))

=============================================================================
