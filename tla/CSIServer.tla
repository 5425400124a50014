------------------------------ MODULE CSIServer ------------------------------
(***************************************************************************)
(* The server container of the CSI driver and the kubelet that calls it.   *)
(*                                                                         *)
(* The kubelet has at most one call per volume in progress and repeats it  *)
(* until it is answered with OK; calls for different volumes are served    *)
(* concurrently.  A handler makes its file system and mount calls one      *)
(* after the other, and the provisioner acts between any two of them.      *)
(***************************************************************************)
EXTENDS CSINode

VARIABLES
    kubelet,    \* what the kubelet is doing with each volume
    handler,    \* where the gRPC handler of the volume's call is
    lowerDir,   \* what the handler read from the latest-codemodule symlink
    dummy,      \* history: volumes the retry limit answered OK without a mount
    uncleaned   \* history: volumes a step of whose clean-up failed, which the server only logs

handlerVars == <<handler, lowerDir>>
historyVars == <<dummy, uncleaned>>
serverVars  == <<kubelet, handlerVars, historyVars>>

Volume == AppVolume \cup HostVolume

(***************************************************************************)
(* "waiting": the pod is starting and waits for NodePublishVolume;         *)
(* "running": it was answered OK; "stopping": the kubelet repeats          *)
(* NodeUnpublishVolume; "gone": no pod (before, or after a last OK).       *)
(***************************************************************************)
Kubelet == {"new", "waiting", "running", "stopping", "gone"}

Handler == {"none", "available", "prepare", "readlink", "mount", "podinfo", "limit", "finish",
            "mkdir", "bind", "unmount", "unmapped", "clean", "remove"}

ServerTypeOK ==
    /\ kubelet \in [Volume -> Kubelet]
    /\ handler \in [Volume -> Handler]
    /\ lowerDir \in [AppVolume -> Version \cup {NoVersion}]
    /\ dummy \subseteq AppVolume
    /\ uncleaned \subseteq AppVolume

ServerInit ==
    /\ kubelet = [vol \in Volume |-> IF vol \in AppVolume /\ Mounted(vol) THEN "running" ELSE "new"]
    /\ handler = [vol \in Volume |-> "none"]
    /\ lowerDir = [vol \in AppVolume |-> NoVersion]
    /\ dummy = {}
    /\ uncleaned = {}

Goto(vol, pc) == handler' = [handler EXCEPT ![vol] = pc]
At(vol, pc) == handler[vol] = pc

-----------------------------------------------------------------------------
(* The kubelet.                                                            *)

(***************************************************************************)
(* A pod that replaces one of the same name is started after the volumes   *)
(* of its predecessor were unpublished.                                    *)
(***************************************************************************)
PodScheduled(vol) ==
    /\ kubelet[vol] = "new"
    /\ \A w \in AppVolume :
          (vol \in AppVolume /\ w \in SamePodInfoPath(vol) \ {vol}) => kubelet[w] \in {"new", "gone"}
    /\ kubelet' = [kubelet EXCEPT ![vol] = "waiting"]
    /\ UNCHANGED <<clusterVars, binaryVars, volumeVars, hostVars, faults, handlerVars, historyVars>>

\* also while the volume waits: the pod is deleted before it started
PodDeleted(vol) ==
    /\ kubelet[vol] \in {"waiting", "running"}
    /\ At(vol, "none")
    /\ kubelet' = [kubelet EXCEPT ![vol] = "stopping"]
    /\ UNCHANGED <<clusterVars, binaryVars, volumeVars, hostVars, faults, handlerVars, historyVars>>

\* mounter.IsMountPoint of the target path
IsMountPoint(vol) ==
    \/ vol \in AppVolume /\ Mounted(vol)
    \/ vol \in HostVolume /\ hostMounts[vol] # "none"

\* NodePublishVolume up to the choice of the publisher
NodePublishVolume(vol) ==
    /\ kubelet[vol] = "waiting"
    /\ At(vol, "none")
    /\ \/ /\ IsMountPoint(vol)
          /\ kubelet' = [kubelet EXCEPT ![vol] = "running"]
          /\ UNCHANGED handler
       \/ /\ ~IsMountPoint(vol)
          /\ Goto(vol, IF vol \in AppVolume THEN "available" ELSE "mkdir")
          /\ UNCHANGED kubelet
    /\ UNCHANGED <<clusterVars, binaryVars, volumeVars, hostVars, faults, lowerDir, historyVars>>

\* Mutant: the error of the handler is logged and swallowed
SwallowError(vol) ==
    /\ Goto(vol, "none")
    /\ kubelet' = [kubelet EXCEPT ![vol] = "running"]
\* The handler answers with an error: the kubelet will call again.
AnswerError(vol) ==
    /\ Goto(vol, "none")
    /\ UNCHANGED kubelet

\* The answer can be lost: then the kubelet calls again.
AnswerOK(vol) ==
    /\ Goto(vol, "none")
    /\ \/ /\ kubelet' = [kubelet EXCEPT ![vol] = IF @ = "waiting" THEN "running" ELSE "gone"]
          /\ UNCHANGED faults
       \/ UNCHANGED kubelet /\ Fault

-----------------------------------------------------------------------------
(* The app publisher.                                                      *)

\* isCodeModuleAvailable
CheckCodeModule(vol) ==
    /\ At(vol, "available")
    /\ Goto(vol, IF LatestResolves(DynaKubeOf[vol]) THEN "prepare" ELSE "limit")
    /\ UNCHANGED <<clusterVars, binaryVars, volumeVars, hostVars, faults, kubelet, lowerDir, historyVars>>

(***************************************************************************)
(* hasRetryLimitReached: the first failure creates the mount-start         *)
(* directory, a failure after the retry timeout gives up on the volume.    *)
(***************************************************************************)
RetryLimitReached(vol) == appMountDirs[vol].mountStart = "expired"

CheckRetryLimit(vol) ==
    /\ At(vol, "limit")
    /\ \/ /\ \/ RetryLimitReached(vol) /\ UNCHANGED faults
             \/ Fault               \* the directory cannot be looked at or made
          /\ Goto(vol, "finish")
          /\ dummy' = dummy \cup {vol}
          /\ UNCHANGED <<appMountDirs, kubelet>>
       \/ /\ ~RetryLimitReached(vol)
          /\ appMountDirs' = [appMountDirs EXCEPT ![vol] =
                                [@ EXCEPT !.created = TRUE, !.mountStart = "ticking"]]
          /\ AnswerError(vol)
          /\ UNCHANGED <<dummy, faults>>
    /\ UNCHANGED <<clusterVars, binaryVars, podInfoLinks, mounts, hostVars, lowerDir, uncleaned>>

\* the time since mount-start was created exceeds the retry timeout
RetryTimeout(vol) ==
    /\ appMountDirs[vol].mountStart = "ticking"
    /\ appMountDirs' = [appMountDirs EXCEPT ![vol].mountStart = "expired"]
    /\ UNCHANGED <<clusterVars, binaryVars, podInfoLinks, mounts, hostVars, faults, serverVars>>

\* prepareUpperDir and the work directory
PrepareUpperDir(vol) ==
    /\ At(vol, "prepare")
    /\ \/ /\ appMountDirs' = [appMountDirs EXCEPT ![vol] = [@ EXCEPT !.created = TRUE, !.podInfo = TRUE]]
          /\ Goto(vol, "readlink")
          /\ UNCHANGED faults
       \/ /\ Fault                   \* anywhere between the first directory and the last
          /\ \/ UNCHANGED appMountDirs
             \/ \E written \in {TRUE, appMountDirs[vol].podInfo} :
                   appMountDirs' = [appMountDirs EXCEPT ![vol] =
                                       [@ EXCEPT !.created = TRUE, !.podInfo = written]]
          /\ Goto(vol, "limit")
    /\ UNCHANGED <<clusterVars, binaryVars, podInfoLinks, mounts, hostVars, kubelet, lowerDir, historyVars>>

ReadLatestSymlink(vol) ==
    /\ At(vol, "readlink")
    /\ lowerDir' = [lowerDir EXCEPT ![vol] = latest[DynaKubeOf[vol]]]
    /\ Goto(vol, IF latest[DynaKubeOf[vol]] = NoVersion THEN "limit" ELSE "mount")
    /\ UNCHANGED <<clusterVars, binaryVars, volumeVars, hostVars, faults, kubelet, historyVars>>

\* the kernel refuses a lowerdir that does not exist
MountOverlay(vol) ==
    /\ At(vol, "mount")
    /\ \/ /\ Installed(lowerDir[vol])
          /\ mounts' = mounts \cup {[volume |-> vol, path |-> "target", lower |-> lowerDir[vol]]}
          /\ Goto(vol, "podinfo")
          /\ UNCHANGED faults
       \/ /\ ~Installed(lowerDir[vol])
          /\ Goto(vol, "limit")
          /\ UNCHANGED <<mounts, faults>>
       \/ /\ Fault
          /\ Goto(vol, "limit")
          /\ UNCHANGED mounts
    /\ UNCHANGED <<clusterVars, binaryVars, appMountDirs, podInfoLinks, hostVars, kubelet,
                   lowerDir, historyVars>>

(***************************************************************************)
(* addPodInfoSymlink: makes the directories, removes the symlink that an   *)
(* earlier pod of the name left, and makes its own.  When it fails, which  *)
(* may be after the first two, the overlay stays mounted.                  *)
(***************************************************************************)
AddPodInfoSymlink(vol) ==
    /\ At(vol, "podinfo")
    /\ \/ /\ podInfoLinks' = (podInfoLinks \ SamePodInfoPath(vol)) \cup {vol}
          /\ dynakubeDirs' = dynakubeDirs \cup {DynaKubeOf[vol]}
          /\ Goto(vol, "finish")
          /\ UNCHANGED faults
       \/ /\ Fault
          /\ dynakubeDirs' \in {dynakubeDirs, dynakubeDirs \cup {DynaKubeOf[vol]}}
          /\ podInfoLinks' \in {podInfoLinks, podInfoLinks \ SamePodInfoPath(vol)}
          /\ Goto(vol, "limit")
    /\ UNCHANGED <<clusterVars, binaryVars, appMountDirs, mounts, osAgentDirs, hostMounts, kubelet,
                   lowerDir, historyVars>>

FinishMount(vol) ==
    /\ At(vol, "finish")
    /\ appMountDirs' = [appMountDirs EXCEPT ![vol].mountStart = NoTracker]
    /\ AnswerOK(vol)
    /\ UNCHANGED <<clusterVars, binaryVars, podInfoLinks, mounts, hostVars, lowerDir, historyVars>>

-----------------------------------------------------------------------------
(* The host publisher: the osagent directory of the DynaKube, bound.       *)

MkdirOSAgentDir(vol) ==
    /\ At(vol, "mkdir")
    /\ osAgentDirs' = osAgentDirs \cup {DynaKubeOf[vol]}
    /\ dynakubeDirs' = dynakubeDirs \cup {DynaKubeOf[vol]}
    /\ Goto(vol, "bind")
    /\ UNCHANGED <<clusterVars, binaryVars, volumeVars, hostMounts, faults, kubelet, lowerDir, historyVars>>

BindOSAgentDir(vol) ==
    /\ At(vol, "bind")
    /\ \/ /\ DynaKubeOf[vol] \in osAgentDirs
          /\ hostMounts' = [hostMounts EXCEPT ![vol] = "live"]
          /\ AnswerOK(vol)
       \/ /\ DynaKubeOf[vol] \notin osAgentDirs
          /\ AnswerError(vol)
          /\ UNCHANGED <<hostMounts, faults>>
    /\ UNCHANGED <<clusterVars, binaryVars, volumeVars, dynakubeDirs, osAgentDirs, lowerDir, historyVars>>

-----------------------------------------------------------------------------
(* NodeUnpublishVolume, which is the same for both modes.                  *)

NodeUnpublishVolume(vol) ==
    /\ kubelet[vol] = "stopping"
    /\ At(vol, "none")
    /\ Goto(vol, "unmount")
    /\ UNCHANGED <<clusterVars, binaryVars, volumeVars, hostVars, faults, kubelet, lowerDir, historyVars>>

\* a failing Unmount of the target path is logged and ignored
UnmountTarget(vol) ==
    /\ At(vol, "unmount")
    /\ \/ /\ mounts' = {m \in mounts : m.volume # vol \/ m.path # "target"}
          /\ hostMounts' = [w \in HostVolume |-> IF w = vol THEN "none" ELSE hostMounts[w]]
          /\ UNCHANGED faults
       \/ Fault /\ UNCHANGED <<mounts, hostMounts>>
    /\ Goto(vol, "unmapped")
    /\ UNCHANGED <<clusterVars, binaryVars, appMountDirs, podInfoLinks, dynakubeDirs, osAgentDirs,
                   kubelet, lowerDir, historyVars>>

\* unmountMappedMount, whose error is ignored
UnmountMapped(vol) ==
    /\ At(vol, "unmapped")
    /\ \/ /\ mounts' = {m \in mounts : m.volume # vol \/ m.path # "mapped"}
          /\ UNCHANGED faults
       \/ MappedMount(vol) /\ Fault /\ UNCHANGED mounts
    /\ Goto(vol, "clean")
    /\ UNCHANGED <<clusterVars, binaryVars, appMountDirs, podInfoLinks, hostVars, kubelet,
                   lowerDir, historyVars>>

(***************************************************************************)
(* Unmount of a directory that exists and is no mount point succeeds; the  *)
(* pod-info file in the var directory says where the symlink is, and both  *)
(* are removed.  The server ignores whatever fails.  If Unmount does, both *)
(* stay; if the file cannot be read or the symlink not be removed, the     *)
(* symlink stays; if the var directory cannot be removed, the file stays.  *)
(***************************************************************************)
\* Mutant: cleans up only what is still mounted
HasMountedDir(vol) == vol \in AppVolume /\ Mounted(vol)
HasAppMountDir(vol) == vol \in AppVolume /\ appMountDirs[vol].created

\* findPodInfoSymlink
PodInfoSymlink(vol) == IF appMountDirs[vol].podInfo THEN SamePodInfoPath(vol) ELSE {}

CleanVolume(vol) ==
    /\ At(vol, "clean")
    /\ \/ /\ HasAppMountDir(vol)
          /\ podInfoLinks' = podInfoLinks \ PodInfoSymlink(vol)
          /\ appMountDirs' = [appMountDirs EXCEPT ![vol].podInfo = FALSE]
          /\ UNCHANGED <<faults, uncleaned>>
       \/ /\ HasAppMountDir(vol)
          /\ Fault
          /\ podInfoLinks' \in {podInfoLinks, podInfoLinks \ PodInfoSymlink(vol)}
          /\ \E kept \in {FALSE, appMountDirs[vol].podInfo} :
                appMountDirs' = [appMountDirs EXCEPT ![vol].podInfo = kept]
          /\ uncleaned' = uncleaned \cup {vol}
       \/ /\ ~HasAppMountDir(vol)
          /\ UNCHANGED <<podInfoLinks, appMountDirs, faults, uncleaned>>
    /\ Goto(vol, "remove")
    /\ UNCHANGED <<clusterVars, binaryVars, mounts, hostVars, kubelet, lowerDir, dummy>>

(***************************************************************************)
(* RemoveAll of the app mount directory, which a mount inside it stops;    *)
(* whatever it could not remove, the call is answered with OK.             *)
(***************************************************************************)
RemoveAll(vol) ==
    \/ /\ appMountDirs' = [w \in AppVolume |->
             IF w # vol THEN appMountDirs[w]
             ELSE [NoAppMountDir EXCEPT !.created = MappedMount(vol)]]
       /\ AnswerOK(vol)
       /\ UNCHANGED uncleaned
    \/ /\ HasAppMountDir(vol)
       /\ \E podInfo \in {FALSE, appMountDirs[vol].podInfo},
             mountStart \in {NoTracker, appMountDirs[vol].mountStart} :
             appMountDirs' = [appMountDirs EXCEPT ![vol] =
                [created |-> TRUE, podInfo |-> podInfo, mountStart |-> mountStart]]
       /\ uncleaned' = uncleaned \cup {vol}
       /\ Fault
       /\ Goto(vol, "none")
       /\ kubelet' \in {kubelet, [kubelet EXCEPT ![vol] = "gone"]}

RemoveAppMountDir(vol) ==
    /\ At(vol, "remove")
    /\ RemoveAll(vol)
    /\ dummy' = dummy \ {vol}
    /\ UNCHANGED <<clusterVars, binaryVars, podInfoLinks, mounts, hostVars, lowerDir>>

-----------------------------------------------------------------------------

\* The container dies with every call it was serving; its mounts stay.
ServerRestarts ==
    /\ Fault
    /\ \E vol \in Volume : ~At(vol, "none")
    /\ handler' = [vol \in Volume |-> "none"]
    /\ UNCHANGED <<clusterVars, binaryVars, volumeVars, hostVars, kubelet, lowerDir, historyVars>>

PublishApp(vol) ==
    \/ CheckCodeModule(vol) \/ CheckRetryLimit(vol) \/ PrepareUpperDir(vol)
    \/ ReadLatestSymlink(vol) \/ MountOverlay(vol) \/ AddPodInfoSymlink(vol) \/ FinishMount(vol)

PublishHost(vol) == MkdirOSAgentDir(vol) \/ BindOSAgentDir(vol)

Unpublish(vol) ==
    UnmountTarget(vol) \/ UnmountMapped(vol) \/ CleanVolume(vol) \/ RemoveAppMountDir(vol)

\* the calls of the kubelet and the steps of the handler that serves them
Serve(vol) ==
    \/ NodePublishVolume(vol) \/ NodeUnpublishVolume(vol)
    \/ vol \in AppVolume /\ PublishApp(vol)
    \/ vol \in HostVolume /\ PublishHost(vol)
    \/ Unpublish(vol)

ServerNext ==
    \/ \E vol \in Volume : PodScheduled(vol) \/ PodDeleted(vol) \/ Serve(vol)
    \/ \E vol \in AppVolume : RetryTimeout(vol)
    \/ ServerRestarts
=============================================================================
