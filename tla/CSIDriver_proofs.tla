--------------------------- MODULE CSIDriver_proofs ---------------------------
(***************************************************************************)
(* Proofs about the CSI driver of one node, for every set of DynaKubes,    *)
(* versions and volumes and any number of edits and faults; at the end,     *)
(* about the limiter in front of its server, for every number of calls.    *)
(***************************************************************************)
EXTENDS CSIDriver, GrpcLimiter, FiniteSetTheorems, TLAPS

USE DEF clusterVars, binaryVars, volumeVars, hostVars, cleanupVars, workerVars, provisionerVars,
        handlerVars, historyVars, serverVars, Locals

TypeInv == TypeOK /\ LocalsInv

\* The updates the handlers make to the directory of an app volume.
LEMMA AppMountDirUpdates ==
    ASSUME NEW dir \in AppMountDir
    PROVE  /\ [dir EXCEPT !.created = TRUE, !.mountStart = "ticking"] \in AppMountDir
           /\ \A written \in {TRUE, dir.podInfo} :
                 [dir EXCEPT !.created = TRUE, !.podInfo = written] \in AppMountDir
           /\ [dir EXCEPT !.mountStart = "expired"] \in AppMountDir
           /\ [dir EXCEPT !.mountStart = NoTracker] \in AppMountDir
           /\ \A kept \in {FALSE, dir.podInfo}, tracker \in {NoTracker, dir.mountStart} :
                 /\ [dir EXCEPT !.podInfo = kept] \in AppMountDir
                 /\ [created |-> TRUE, podInfo |-> kept, mountStart |-> tracker] \in AppMountDir
  BY DEF AppMountDir, Tracker, NoTracker

\* They keep the type of appMountDirs.
LEMMA AppMountDirsTypes ==
    ASSUME appMountDirs \in [AppVolume -> AppMountDir], NEW vol,
           \/ vol \in AppVolume /\ PrepareUpperDir(vol)
           \/ CleanVolume(vol) \/ RemoveAppMountDir(vol)
    PROVE  appMountDirs' \in [AppVolume -> AppMountDir]
<1>1. CASE vol \in AppVolume /\ PrepareUpperDir(vol)
  <2>1. \/ appMountDirs' = appMountDirs
        \/ \E written \in {TRUE, appMountDirs[vol].podInfo} :
              appMountDirs' = [appMountDirs EXCEPT ![vol] =
                                  [appMountDirs[vol] EXCEPT !.created = TRUE, !.podInfo = written]]
    BY <1>1 DEF PrepareUpperDir
  <2>2. \A written \in {TRUE, appMountDirs[vol].podInfo} :
          [appMountDirs[vol] EXCEPT !.created = TRUE, !.podInfo = written] \in AppMountDir
    BY <1>1, AppMountDirUpdates, Zenon
  <2> QED BY <2>1, <2>2
<1>2. CASE CleanVolume(vol)
  <2>1. \/ appMountDirs' = appMountDirs
        \/ /\ vol \in AppVolume
           /\ \E kept \in {FALSE, appMountDirs[vol].podInfo} :
                 appMountDirs' = [appMountDirs EXCEPT ![vol] = [appMountDirs[vol] EXCEPT !.podInfo = kept]]
    BY <1>2 DEF CleanVolume, HasAppMountDir
  <2>2. vol \in AppVolume => \A kept \in {FALSE, appMountDirs[vol].podInfo} :
          [appMountDirs[vol] EXCEPT !.podInfo = kept] \in AppMountDir
    BY AppMountDirUpdates, Zenon
  <2> QED BY <2>1, <2>2
<1>3. CASE RemoveAppMountDir(vol)
  <2>1. CASE appMountDirs' = [w \in AppVolume |->
                IF w # vol THEN appMountDirs[w] ELSE [NoAppMountDir EXCEPT !.created = MappedMount(vol)]]
    <3>1. [NoAppMountDir EXCEPT !.created = MappedMount(vol)] \in AppMountDir
      BY Zenon DEF MappedMount, AppMountDir, NoAppMountDir, Tracker
    <3> QED BY <2>1, <3>1
  <2>2. CASE /\ vol \in AppVolume
             /\ \E podInfo \in {FALSE, appMountDirs[vol].podInfo},
                   mountStart \in {NoTracker, appMountDirs[vol].mountStart} :
                   appMountDirs' = [appMountDirs EXCEPT ![vol] =
                      [created |-> TRUE, podInfo |-> podInfo, mountStart |-> mountStart]]
    <3>1. \A podInfo \in {FALSE, appMountDirs[vol].podInfo},
             mountStart \in {NoTracker, appMountDirs[vol].mountStart} :
            [created |-> TRUE, podInfo |-> podInfo, mountStart |-> mountStart] \in AppMountDir
      BY <2>2, AppMountDirUpdates, Zenon
    <3> QED BY <2>2, <3>1
  <2> QED BY <1>3, <2>1, <2>2 DEF RemoveAppMountDir, RemoveAll, HasAppMountDir
<1> QED BY <1>1, <1>2, <1>3

(***************************************************************************)
(* Type correctness, process by process.                                   *)
(***************************************************************************)
LEMMA InstallerTypes ==
    ASSUME TypeInv, Installer, UNCHANGED serverVars
    PROVE  TypeInv'
<1> USE CSINodeAssumption, CSIProvisionerAssumption
    DEF TypeInv, TypeOK, SharedTypeOK, ProvisionerTypeOK, ServerTypeOK, LocalsInv, NoLocals, Requeued,
        Installed, Fault, PC, Content, At
<1>1. CASE AlreadyInstalled
  BY <1>1 DEF AlreadyInstalled
<1>2. CASE UnpackArchive
  BY <1>2 DEF UnpackArchive
<1>3. CASE UnpackImage
  BY <1>3 DEF UnpackImage
<1>4. CASE InstallFails
  BY <1>4 DEF InstallFails
<1>5. CASE JobDone
  BY <1>5 DEF JobDone, JobState
<1>6. CASE JobNotReady
  BY <1>6 DEF JobNotReady, JobState
<1>7. CASE LinkCurrentVersion
  BY <1>7 DEF LinkCurrentVersion
<1>8. CASE RemoveLatestSymlink
  BY <1>8 DEF RemoveLatestSymlink
<1>9. CASE CreateLatestSymlink
  BY <1>9 DEF CreateLatestSymlink, RunCleaner
<1> QED BY <1>1, <1>2, <1>3, <1>4, <1>5, <1>6, <1>7, <1>8, <1>9 DEF Installer

LEMMA CleanerTypes ==
    ASSUME TypeInv, Cleaner, UNCHANGED serverVars
    PROVE  TypeInv'
<1> USE CSINodeAssumption, CSIProvisionerAssumption
    DEF TypeInv, TypeOK, SharedTypeOK, ProvisionerTypeOK, ServerTypeOK, LocalsInv, NoCleanup,
        NothingListed, CleanerReturns, Fault, PC, Ticker, At
<1>1. CASE ScanFilesystem
  BY <1>1 DEF ScanFilesystem
<1>2. CASE RemoveUnknownDirs
  BY <1>2 DEF RemoveUnknownDirs, RemoveOSAgentDirs, HostMount
<1>3. CASE ListDynaKubes
  <2>1. listed' \in [DynaKube -> [relevant : BOOLEAN, app : BOOLEAN, host : BOOLEAN]]
    <3>1. [dk \in DynaKube |-> [relevant |-> dk \in RelevantDynaKubes,
                                app |-> dk \in exists /\ spec[dk].app,
                                host |-> dk \in exists /\ spec[dk].host]]
              \in [DynaKube -> [relevant : BOOLEAN, app : BOOLEAN, host : BOOLEAN]]
      BY SMTT(30)
    <3>2. NothingListed \in [DynaKube -> [relevant : BOOLEAN, app : BOOLEAN, host : BOOLEAN]]
      BY Zenon
    <3> QED BY <1>3, <3>1, <3>2, Zenon DEF ListDynaKubes
  <2> HIDE DEF NothingListed
  <2>2. ppc' \in {"removeHosts", "idle"} /\ ticker' \in Ticker /\ faults' \in 0..MaxFaults
    BY <1>3 DEF ListDynaKubes
  <2>3. UNCHANGED <<clusterVars, binaryVars, volumeVars, hostVars, deleted, jobs, Locals>>
    BY <1>3 DEF ListDynaKubes
  <2>4. /\ scannedBins' \subseteq DynaKube /\ scannedHosts' \subseteq DynaKube
        /\ unknownDirs' \subseteq DynaKube /\ keptBins' \subseteq Version /\ todo' \subseteq Version
    BY <1>3 DEF ListDynaKubes
  <2> QED BY <2>1, <2>2, <2>3, <2>4
<1>4. CASE RemoveHostMounts
  BY <1>4 DEF RemoveHostMounts, RemoveOSAgentDirs, HostMount
<1>5. CASE RemoveOldBinarySymlinks
  BY <1>5 DEF RemoveOldBinarySymlinks
<1>6. CASE CollectStillMountedBins
  <2>1. StillMountedBins \subseteq Version
    BY DEF StillMountedBins, Mount
  <2>2. NothingListed \in [DynaKube -> [relevant : BOOLEAN, app : BOOLEAN, host : BOOLEAN]]
    OBVIOUS
  <2> HIDE DEF NothingListed
  <2> QED BY <1>6, <2>1, <2>2 DEF CollectStillMountedBins
<1>7. CASE CollectRelevantLatestBins
  BY <1>7 DEF CollectRelevantLatestBins, RelevantLatestBins
<1>8. CASE ReadSharedBinaries
  BY <1>8 DEF ReadSharedBinaries, InstalledVersions
<1>9. CASE CleanerDone
  BY <1>9 DEF CleanerDone
<1>10. ASSUME NEW v \in Version, RemoveOldSharedBinary(v) PROVE TypeInv'
  BY <1>10 DEF RemoveOldSharedBinary, Content
<1> QED BY <1>1, <1>2, <1>3, <1>4, <1>5, <1>6, <1>7, <1>8, <1>9, <1>10 DEF Cleaner

LEMMA ProvisionerTypes ==
    ASSUME TypeInv, ProvisionerNext, UNCHANGED serverVars
    PROVE  TypeInv'
<1> USE CSINodeAssumption, CSIProvisionerAssumption
    DEF TypeInv, TypeOK, SharedTypeOK, ProvisionerTypeOK, ServerTypeOK, LocalsInv, At
<1>1. CASE Installer
  BY <1>1, InstallerTypes
<1>2. CASE Cleaner
  BY <1>2, CleanerTypes
<1>3. ASSUME NEW v \in Version, JobMovesBinary(v) PROVE TypeInv'
  BY <1>3 DEF JobMovesBinary, JobState, Content
<1>4. ASSUME NEW v \in Version, JobFails(v) PROVE TypeInv'
  BY <1>4 DEF JobFails, JobState, Fault
<1>5. ASSUME NEW v \in Version, JobExpires(v) PROVE TypeInv'
  BY <1>5 DEF JobExpires, JobState
<1>6. CASE TickerFires
  BY <1>6 DEF TickerFires, Ticker
<1>7. CASE ProvisionerRestarts
  BY <1>7 DEF ProvisionerRestarts, NoLocals, NoCleanup, NothingListed, Fault, PC, Ticker
<1>8. ASSUME NEW dk \in DynaKube, ApplyDynaKube(dk) PROVE TypeInv'
  BY <1>8 DEF ApplyDynaKube
<1>9. ASSUME NEW dk \in DynaKube, DeleteDynaKube(dk) PROVE TypeInv'
  BY <1>9 DEF DeleteDynaKube, NoSpec, DynaKubeSpec
<1>10. ASSUME NEW dk \in DynaKube, Reconcile(dk) PROVE TypeInv'
  BY <1>10 DEF Reconcile, SetupFileSystem, RunCleaner, NoLocals, PC, DynaKubeSpec
<1> QED
  BY <1>1, <1>2, <1>3, <1>4, <1>5, <1>6, <1>7, <1>8, <1>9, <1>10 DEF ProvisionerNext, Jobs

LEMMA ServerTypes ==
    ASSUME TypeInv, ServerNext, UNCHANGED provisionerVars
    PROVE  TypeInv'
<1> USE CSINodeAssumption
    DEF TypeInv, TypeOK, SharedTypeOK, ProvisionerTypeOK, ServerTypeOK, LocalsInv, Volume, Kubelet,
        Handler, At, Goto, Fault
<1>0. appMountDirs \in [AppVolume -> AppMountDir]
  OBVIOUS
<1>1. ASSUME NEW vol \in Volume, PodScheduled(vol) \/ PodDeleted(vol) PROVE TypeInv'
  BY <1>1 DEF PodScheduled, PodDeleted
<1>2. ASSUME NEW vol \in Volume, NodePublishVolume(vol) PROVE TypeInv'
  BY <1>2 DEF NodePublishVolume
<1>3. ASSUME NEW vol \in Volume, NodeUnpublishVolume(vol) PROVE TypeInv'
  BY <1>3 DEF NodeUnpublishVolume
<1>4. ASSUME NEW vol \in AppVolume, PublishApp(vol) PROVE TypeInv'
  <2>1. CASE CheckCodeModule(vol)
    BY <2>1 DEF CheckCodeModule
  <2>a. appMountDirs[vol] \in AppMountDir
    OBVIOUS
  <2>2. CASE CheckRetryLimit(vol)
    <3>1. [appMountDirs[vol] EXCEPT !.created = TRUE, !.mountStart = "ticking"] \in AppMountDir
      BY <2>a, AppMountDirUpdates, Zenon
    <3>2. appMountDirs' \in [AppVolume -> AppMountDir] /\ faults' \in 0..MaxFaults
      BY <2>2, <3>1 DEF CheckRetryLimit
    <3>3. ASSUME NEW w \in AppVolume, handler'[w] = "mount" PROVE handler[w] = "mount"
      BY <2>2, <3>3 DEF CheckRetryLimit, AnswerError
    <3>4. handler' \in [Volume -> Handler] /\ kubelet' = kubelet /\ dummy' \subseteq AppVolume
      BY <2>2 DEF CheckRetryLimit, AnswerError
    <3> QED BY <2>2, <3>2, <3>3, <3>4 DEF CheckRetryLimit
  <2>3. CASE PrepareUpperDir(vol)
    <3>1. appMountDirs' \in [AppVolume -> AppMountDir]
      BY <1>0, <2>3, AppMountDirsTypes, Zenon
    <3>2. /\ handler' \in [Volume -> Handler] /\ faults' \in 0..MaxFaults
          /\ \A w \in AppVolume : handler'[w] = "mount" => handler[w] = "mount"
      <4>1. Goto(vol, "readlink") \/ Goto(vol, "limit")
        BY <2>3 DEF PrepareUpperDir
      <4>2. faults' = faults \/ Fault
        BY <2>3 DEF PrepareUpperDir
      <4> QED BY <4>1, <4>2
    <3>3. UNCHANGED <<clusterVars, binaryVars, podInfoLinks, mounts, hostVars, kubelet, lowerDir, historyVars>>
      BY <2>3 DEF PrepareUpperDir
    <3>4. SharedTypeOK'
      BY <3>1, <3>2, <3>3
    <3>5. ServerTypeOK'
      BY <3>2, <3>3
    <3>6. ProvisionerTypeOK' /\ LocalsInv'
      BY <3>2, <3>3
    <3> QED BY <3>4, <3>5, <3>6
  <2>4. CASE ReadLatestSymlink(vol)
    BY <2>4 DEF ReadLatestSymlink
  <2>5. CASE MountOverlay(vol)
    BY <2>5 DEF MountOverlay, Mount, MountPath
  <2>6. CASE AddPodInfoSymlink(vol)
    <3>1. podInfoLinks' \subseteq AppVolume /\ dynakubeDirs' \subseteq DynaKube
      BY <2>6 DEF AddPodInfoSymlink, SamePodInfoPath
    <3>2. faults' = faults \/ Fault
      BY <2>6 DEF AddPodInfoSymlink
    <3>3. Goto(vol, "finish") \/ Goto(vol, "limit")
      BY <2>6 DEF AddPodInfoSymlink
    <3>4. UNCHANGED <<clusterVars, binaryVars, appMountDirs, mounts, osAgentDirs, hostMounts, kubelet,
                      lowerDir, historyVars>>
      BY <2>6 DEF AddPodInfoSymlink
    <3> QED BY <3>1, <3>2, <3>3, <3>4
  <2>7. CASE FinishMount(vol)
    <3>1. [appMountDirs[vol] EXCEPT !.mountStart = NoTracker] \in AppMountDir
      BY <2>a, AppMountDirUpdates, Zenon
    <3>2. appMountDirs' \in [AppVolume -> AppMountDir]
      BY <2>7, <3>1 DEF FinishMount
    <3> QED BY <2>7, <3>2 DEF FinishMount, AnswerOK
  <2> QED BY <1>4, <2>1, <2>2, <2>3, <2>4, <2>5, <2>6, <2>7 DEF PublishApp
<1>5. ASSUME NEW vol \in HostVolume, PublishHost(vol) PROVE TypeInv'
  <2>1. CASE MkdirOSAgentDir(vol)
    BY <2>1 DEF MkdirOSAgentDir
  <2>2. CASE BindOSAgentDir(vol)
    <3>1. hostMounts' \in [HostVolume -> HostMount]
      BY <2>2 DEF BindOSAgentDir, HostMount
    <3>2. handler' \in [Volume -> Handler] /\ kubelet' \in [Volume -> Kubelet]
      BY <2>2 DEF BindOSAgentDir, AnswerOK, AnswerError
    <3>3. faults' \in 0..MaxFaults
      BY <2>2 DEF BindOSAgentDir, AnswerOK
    <3>4. ASSUME NEW w \in AppVolume, handler'[w] = "mount" PROVE handler[w] = "mount"
      BY <2>2, <3>4 DEF BindOSAgentDir, AnswerOK, AnswerError
    <3> QED BY <2>2, <3>1, <3>2, <3>3, <3>4 DEF BindOSAgentDir
  <2> QED BY <1>5, <2>1, <2>2 DEF PublishHost
<1>6. ASSUME NEW vol \in Volume, Unpublish(vol) PROVE TypeInv'
  <2>1. CASE UnmountTarget(vol)
    BY <2>1 DEF UnmountTarget, HostMount
  <2>2. CASE UnmountMapped(vol)
    BY <2>2 DEF UnmountMapped
  <2>3. CASE CleanVolume(vol)
    <3>1. appMountDirs' \in [AppVolume -> AppMountDir]
      BY <1>0, <2>3, AppMountDirsTypes, Zenon
    <3>2. podInfoLinks' \subseteq AppVolume
      BY <2>3 DEF CleanVolume
    <3>3. uncleaned' \subseteq AppVolume /\ faults' \in 0..MaxFaults
      BY <2>3 DEF CleanVolume, HasAppMountDir
    <3> QED BY <2>3, <3>1, <3>2, <3>3 DEF CleanVolume
  <2>4. CASE RemoveAppMountDir(vol)
    <3>2. appMountDirs' \in [AppVolume -> AppMountDir]
      BY <1>0, <2>4, AppMountDirsTypes, Zenon
    <3>3. kubelet' \in [Volume -> Kubelet] /\ faults' \in 0..MaxFaults
      <4>1. \/ kubelet' = [kubelet EXCEPT ![vol] = IF @ = "waiting" THEN "running" ELSE "gone"]
            \/ kubelet' = kubelet
            \/ kubelet' = [kubelet EXCEPT ![vol] = "gone"]
        BY <2>4, Zenon DEF RemoveAppMountDir, RemoveAll, AnswerOK
      <4>2. faults' = faults \/ Fault
        BY <2>4 DEF RemoveAppMountDir, RemoveAll, AnswerOK
      <4> QED BY <4>1, <4>2
    <3>4. /\ handler' = [handler EXCEPT ![vol] = "none"]
          /\ dummy' = dummy \ {vol} /\ uncleaned' \subseteq AppVolume
          /\ UNCHANGED <<clusterVars, binaryVars, podInfoLinks, mounts, hostVars, lowerDir>>
      BY <2>4 DEF RemoveAppMountDir, RemoveAll, AnswerOK, HasAppMountDir
    <3> QED BY <3>2, <3>3, <3>4
  <2> QED BY <1>6, <2>1, <2>2, <2>3, <2>4 DEF Unpublish
<1>7. ASSUME NEW vol \in AppVolume, RetryTimeout(vol) PROVE TypeInv'
  <2>1. appMountDirs[vol] \in AppMountDir
    OBVIOUS
  <2>2. [appMountDirs[vol] EXCEPT !.mountStart = "expired"] \in AppMountDir
    BY <2>1, AppMountDirUpdates, Zenon
  <2>3. appMountDirs' \in [AppVolume -> AppMountDir]
    BY <1>7, <2>2 DEF RetryTimeout
  <2> QED BY <1>7, <2>3 DEF RetryTimeout
<1>8. CASE ServerRestarts
  BY <1>8 DEF ServerRestarts
<1> QED BY <1>1, <1>2, <1>3, <1>4, <1>5, <1>6, <1>7, <1>8 DEF ServerNext, Serve

LEMMA InitTypes == Init => TypeInv
<1> SUFFICES ASSUME Init PROVE TypeInv
  OBVIOUS
<1> USE CSINodeAssumption, CSIProvisionerAssumption DEF Init
<1>1. PICK legacy \in SUBSET AppVolume, lower \in Version :
        /\ codeModules = [v \in Version |-> IF legacy # {} /\ v = lower THEN "full" ELSE "absent"]
        /\ mounts = LegacyMounts(legacy, lower)
        /\ appMountDirs = [vol \in AppVolume |->
              IF vol \in legacy THEN [NoAppMountDir EXCEPT !.created = TRUE, !.podInfo = TRUE]
                                ELSE NoAppMountDir]
        /\ podInfoLinks = legacy
        /\ dynakubeDirs = {DynaKubeOf[vol] : vol \in legacy}
  BY DEF SharedInit
<1>2. /\ codeModules \in [Version -> Content] /\ mounts \subseteq Mount
      /\ podInfoLinks \subseteq AppVolume /\ dynakubeDirs \subseteq DynaKube
  BY <1>1 DEF Content, LegacyMounts, Mount
<1>3. appMountDirs \in [AppVolume -> AppMountDir]
  <2>1. /\ NoAppMountDir \in AppMountDir
        /\ [NoAppMountDir EXCEPT !.created = TRUE, !.podInfo = TRUE] \in AppMountDir
    BY DEF NoAppMountDir, AppMountDir, Tracker
  <2> QED BY <1>1, <2>1
<1>4. SharedTypeOK
  BY <1>2, <1>3 DEF SharedInit, SharedTypeOK, NoSpec, DynaKubeSpec, InstalledVersions, HostMount
<1>5. ProvisionerTypeOK
  BY DEF ProvisionerInit, ProvisionerTypeOK, Ticker, JobState, PC, NothingListed
<1>6. ServerTypeOK
  BY DEF ServerInit, ServerTypeOK, Volume, Kubelet, Handler
<1>7. LocalsInv
  BY DEF ProvisionerInit, ServerInit, LocalsInv, At, Volume
<1> QED BY <1>4, <1>5, <1>6, <1>7 DEF TypeInv, TypeOK

LEMMA TypeStep == TypeInv /\ [Next]_vars => TypeInv'
<1> SUFFICES ASSUME TypeInv, [Next]_vars PROVE TypeInv'
  OBVIOUS
<1>1. CASE ProvisionerNext /\ UNCHANGED serverVars
  BY <1>1, ProvisionerTypes
<1>2. CASE ServerNext /\ UNCHANGED provisionerVars
  BY <1>2, ServerTypes
<1>3. CASE UNCHANGED vars
  BY <1>3 DEF vars, TypeInv, TypeOK, SharedTypeOK, ProvisionerTypeOK, ServerTypeOK, LocalsInv, At
<1> QED BY <1>1, <1>2, <1>3 DEF Next

(***************************************************************************)
(* Every variable of the node and of both processes keeps its type, for    *)
(* every interleaving of reconcile, clean-up, volume calls and restarts.   *)
(***************************************************************************)
THEOREM TypeCorrect == Spec => []TypeOK
<1>1. TypeInv => TypeOK
  BY DEF TypeInv
<1> QED BY InitTypes, TypeStep, <1>1, PTL DEF Spec

(***************************************************************************)
(* What the worker relies on.  The server only ever adds overlays that are *)
(* mounted outside the data directory.                                     *)
(***************************************************************************)
LEMMA ServerKeepsWorkerState ==
    ASSUME TypeInv, ServerNext
    PROVE  /\ StillMountedBins' \subseteq StillMountedBins
           /\ UNCHANGED <<codeModules, currentLink, latest>>
<1> USE DEF StillMountedBins
<1>1. ASSUME NEW vol \in Volume, PodScheduled(vol) \/ PodDeleted(vol)
      PROVE  UNCHANGED <<mounts, codeModules, currentLink, latest>>
  BY <1>1 DEF PodScheduled, PodDeleted
<1>2. ASSUME NEW vol \in Volume, NodePublishVolume(vol) \/ NodeUnpublishVolume(vol)
      PROVE  UNCHANGED <<mounts, codeModules, currentLink, latest>>
  BY <1>2 DEF NodePublishVolume, NodeUnpublishVolume
<1>3. ASSUME NEW vol \in AppVolume, PublishApp(vol)
      PROVE  /\ StillMountedBins' \subseteq StillMountedBins
             /\ UNCHANGED <<codeModules, currentLink, latest>>
  <2>1. CASE MountOverlay(vol)
    BY <2>1 DEF MountOverlay
  <2> QED
    BY <1>3, <2>1 DEF PublishApp, CheckCodeModule, CheckRetryLimit, PrepareUpperDir, ReadLatestSymlink,
                      AddPodInfoSymlink, FinishMount
<1>4. ASSUME NEW vol \in HostVolume, PublishHost(vol)
      PROVE  UNCHANGED <<mounts, codeModules, currentLink, latest>>
  BY <1>4 DEF PublishHost, MkdirOSAgentDir, BindOSAgentDir
<1>5. ASSUME NEW vol \in Volume, Unpublish(vol)
      PROVE  /\ StillMountedBins' \subseteq StillMountedBins
             /\ UNCHANGED <<codeModules, currentLink, latest>>
  BY <1>5 DEF Unpublish, UnmountTarget, UnmountMapped, CleanVolume, RemoveAppMountDir
<1>6. ASSUME NEW vol \in AppVolume, RetryTimeout(vol)
      PROVE  UNCHANGED <<mounts, codeModules, currentLink, latest>>
  BY <1>6 DEF RetryTimeout
<1>7. CASE ServerRestarts
  BY <1>7 DEF ServerRestarts
<1> QED BY <1>1, <1>2, <1>3, <1>4, <1>5, <1>6, <1>7 DEF ServerNext, Serve

LEMMA WorkerStep ==
    ASSUME TypeInv, WorkerInv, [Next]_vars
    PROVE  WorkerInv'
<1> USE CSINodeAssumption, CSIProvisionerAssumption
<1>1. CASE ServerNext /\ UNCHANGED provisionerVars
  BY <1>1, ServerKeepsWorkerState DEF WorkerInv, InstalledVersions, Installed
<1>2. CASE UNCHANGED vars
  BY <1>2 DEF vars, WorkerInv, InstalledVersions, Installed, StillMountedBins
<1>3. CASE ProvisionerNext /\ UNCHANGED serverVars
  <2> USE <1>3 DEF WorkerInv, InstalledVersions, Installed, StillMountedBins, TypeInv, TypeOK,
          SharedTypeOK, ProvisionerTypeOK, LocalsInv
  <2>1. CASE Installer
    BY <2>1 DEF Installer, AlreadyInstalled, UnpackArchive, UnpackImage, InstallFails, JobDone, JobNotReady,
                LinkCurrentVersion, RemoveLatestSymlink, CreateLatestSymlink, Requeued, RunCleaner
  <2>2. CASE Cleaner
    <3>1. CASE CollectRelevantLatestBins
      BY <3>1 DEF CollectRelevantLatestBins, RelevantLatestBins
    <3>2. ASSUME NEW v \in Version, RemoveOldSharedBinary(v) PROVE WorkerInv'
      BY <3>2 DEF RemoveOldSharedBinary
    <3> QED
      BY <2>2, <3>1, <3>2
      DEF Cleaner, ScanFilesystem, RemoveUnknownDirs, ListDynaKubes, RemoveHostMounts,
          RemoveOldBinarySymlinks, CollectStillMountedBins, ReadSharedBinaries, CleanerDone, CleanerReturns
  <2>3. ASSUME NEW v \in Version, JobMovesBinary(v) \/ JobFails(v) \/ JobExpires(v) PROVE WorkerInv'
    BY <2>3 DEF JobMovesBinary, JobFails, JobExpires
  <2>4. CASE TickerFires \/ ProvisionerRestarts
    BY <2>4 DEF TickerFires, ProvisionerRestarts
  <2>5. ASSUME NEW dk \in DynaKube, ApplyDynaKube(dk) \/ DeleteDynaKube(dk) \/ Reconcile(dk)
        PROVE  WorkerInv'
    BY <2>5 DEF ApplyDynaKube, DeleteDynaKube, Reconcile, RunCleaner
  <2> QED BY <2>1, <2>2, <2>3, <2>4, <2>5 DEF ProvisionerNext, Jobs
<1> QED BY <1>1, <1>2, <1>3 DEF Next

LEMMA InitWorker == Init => WorkerInv
  BY DEF Init, ProvisionerInit, WorkerInv

LEMMA WorkerCorrect == Spec => [](TypeInv /\ WorkerInv)
<1>1. Init => TypeInv /\ WorkerInv
  BY InitTypes, InitWorker
<1>2. TypeInv /\ WorkerInv /\ [Next]_vars => (TypeInv /\ WorkerInv)'
  BY WorkerStep, TypeStep
<1> QED BY <1>1, <1>2, PTL DEF Spec

(***************************************************************************)
(* Modules disappear in the clean-up pass over the shared directory, and   *)
(* only the ones it did not decide to keep.                                *)
(***************************************************************************)
LEMMA OnlyUnkeptRemoved ==
    ASSUME TypeInv, [Next]_vars, NEW v \in Version, Removed(v), ppc = "removeBins"
    PROVE  v \notin keptBins
<1> USE DEF Removed, Installed
<1>1. CASE ServerNext
  BY <1>1, ServerKeepsWorkerState
<1>2. CASE UNCHANGED vars
  BY <1>2 DEF vars
<1>3. CASE ProvisionerNext
  <2>1. ASSUME NEW w \in Version, RemoveOldSharedBinary(w) PROVE v \notin keptBins
    BY <2>1 DEF RemoveOldSharedBinary, TypeInv, TypeOK, SharedTypeOK
  <2>2. CASE Installer
    BY <2>2 DEF Installer, AlreadyInstalled, UnpackArchive, UnpackImage, InstallFails, JobDone, JobNotReady,
                LinkCurrentVersion, RemoveLatestSymlink, CreateLatestSymlink
  <2>3. ASSUME NEW w \in Version, JobMovesBinary(w) PROVE v \notin keptBins
    BY <2>3 DEF JobMovesBinary, TypeInv, TypeOK, SharedTypeOK
  <2> QED
    BY <1>3, <2>1, <2>2, <2>3
    DEF ProvisionerNext, Jobs, JobFails, JobExpires, TickerFires, ProvisionerRestarts, ApplyDynaKube,
        DeleteDynaKube, Reconcile, Cleaner, ScanFilesystem, RemoveUnknownDirs, ListDynaKubes,
        RemoveHostMounts, RemoveOldBinarySymlinks, CollectStillMountedBins, CollectRelevantLatestBins,
        ReadSharedBinaries, CleanerDone
<1> QED BY <1>1, <1>2, <1>3 DEF Next

(***************************************************************************)
(* The clean-up keeps the module the symlink of a listed DynaKube points   *)
(* to when it is removed, not just when the symlinks were read: between    *)
(* the two only the worker itself could have switched the symlink.         *)
(***************************************************************************)
THEOREM LatestBinsAreKept == Spec => LatestBinsKept
<1>1. TypeInv /\ WorkerInv /\ [Next]_vars =>
        \A v \in Version : Removed(v) /\ ppc = "removeBins" =>
            \A dk \in DynaKube : listed[dk].app => latest[dk] # v
  BY OnlyUnkeptRemoved, CSINodeAssumption DEF WorkerInv
<1> QED BY <1>1, WorkerCorrect, PTL DEF Spec, LatestBinsKept

(***************************************************************************)
(* The clean-up keeps the modules mounted under the data directory when    *)
(* they are removed, whatever was mounted and unmounted since it looked.   *)
(***************************************************************************)
THEOREM DataDirMountsAreKept == Spec => DataDirMountsKept
<1>1. TypeInv /\ WorkerInv /\ [Next]_vars =>
        \A v \in Version : Removed(v) /\ ppc = "removeBins" =>
            \A m \in mounts : m.path = "mapped" => m.lower # v
  BY OnlyUnkeptRemoved DEF WorkerInv, StillMountedBins
<1> QED BY <1>1, WorkerCorrect, PTL DEF Spec, DataDirMountsKept

(***************************************************************************)
(* The symlink is only ever switched to a module that is on the node then, *)
(* although the clean-up and failing installations remove modules.         *)
(***************************************************************************)
THEOREM LatestIsSwitchedToInstalled == Spec => LatestSwitchedToInstalled
<1>1. ASSUME TypeInv, WorkerInv, [Next]_vars, NEW dk \in DynaKube, latest'[dk] \notin {NoVersion, latest[dk]}
      PROVE  /\ latest'[dk] \in InstalledVersions
             /\ dk \in JobPull => latest'[dk] \in currentLink
  <2>1. CASE CreateLatestSymlink
    BY <1>1, <2>1 DEF CreateLatestSymlink, WorkerInv, LocalsInv, TypeInv, TypeOK, SharedTypeOK
  <2>2. CASE ServerNext
    BY <1>1, <2>2, ServerKeepsWorkerState
  <2>3. CASE Installer
    BY <1>1, <2>1, <2>3 DEF Installer, AlreadyInstalled, UnpackArchive, UnpackImage, InstallFails, JobDone,
                            JobNotReady, LinkCurrentVersion, RemoveLatestSymlink, TypeInv, TypeOK, SharedTypeOK
  <2> QED
    BY <1>1, <2>2, <2>3
    DEF Next, vars, ProvisionerNext, Jobs, JobMovesBinary, JobFails, JobExpires, TickerFires,
        ProvisionerRestarts, ApplyDynaKube, DeleteDynaKube, Reconcile, Cleaner, ScanFilesystem,
        RemoveUnknownDirs, ListDynaKubes, RemoveHostMounts, RemoveOldBinarySymlinks,
        CollectStillMountedBins, CollectRelevantLatestBins, ReadSharedBinaries, RemoveOldSharedBinary,
        CleanerDone
<1>2. TypeInv /\ WorkerInv /\ [Next]_vars =>
        \A dk \in DynaKube : latest'[dk] \notin {NoVersion, latest[dk]} =>
            /\ latest'[dk] \in InstalledVersions
            /\ dk \in JobPull => latest'[dk] \in currentLink
  BY <1>1
<1> QED BY <1>2, WorkerCorrect, PTL DEF Spec, LatestSwitchedToInstalled

-----------------------------------------------------------------------------

VolumeInv ==
    HandlerInv /\ PodInfoInv /\ PublishedIsMounted /\ HostPublishedIsBound /\ GoneLeavesNothing

(***************************************************************************)
(* All the provisioner does to what a volume call works on: it may remove  *)
(* the directory that holds pod-info symlinks, and the one host volumes    *)
(* are bound to.                                                           *)
(***************************************************************************)
LEMMA ProvisionerKeepsVolumes ==
    ASSUME TypeInv, ProvisionerNext
    PROVE  /\ UNCHANGED <<mounts, appMountDirs>>
           /\ podInfoLinks' \subseteq podInfoLinks
           /\ \A vol \in HostVolume : hostMounts[vol] # "none" => hostMounts'[vol] # "none"
<1> DEFINE Keeps ==
      /\ UNCHANGED <<mounts, appMountDirs>>
      /\ podInfoLinks' \subseteq podInfoLinks
      /\ \A vol \in HostVolume : hostMounts[vol] # "none" => hostMounts'[vol] # "none"
<1>1. CASE RemoveUnknownDirs
  BY <1>1 DEF RemoveUnknownDirs, RemoveOSAgentDirs
<1>2. CASE RemoveHostMounts
  BY <1>2 DEF RemoveHostMounts, RemoveOSAgentDirs
<1>3. CASE Installer
  BY <1>3 DEF Installer, AlreadyInstalled, UnpackArchive, UnpackImage, InstallFails, JobDone,
              JobNotReady, LinkCurrentVersion, RemoveLatestSymlink, CreateLatestSymlink
<1> QED
  BY <1>1, <1>2, <1>3
  DEF ProvisionerNext, Jobs, JobMovesBinary, JobFails, JobExpires, TickerFires,
      ProvisionerRestarts, ApplyDynaKube, DeleteDynaKube, Reconcile, Cleaner, ScanFilesystem,
      ListDynaKubes, RemoveOldBinarySymlinks, CollectStillMountedBins, CollectRelevantLatestBins,
      ReadSharedBinaries, RemoveOldSharedBinary, CleanerDone

LEMMA ProvisionerVolumeStep ==
    ASSUME TypeInv, VolumeInv, ProvisionerNext, UNCHANGED serverVars
    PROVE  VolumeInv'
<1>1. /\ UNCHANGED <<mounts, appMountDirs, kubelet, handler, lowerDir, historyVars>>
      /\ podInfoLinks' \subseteq podInfoLinks
      /\ \A vol \in HostVolume : hostMounts[vol] # "none" => hostMounts'[vol] # "none"
  BY ProvisionerKeepsVolumes
<1> QED
  BY <1>1
  DEF VolumeInv, HandlerInv, PodInfoInv, PublishedIsMounted, HostPublishedIsBound,
      GoneLeavesNothing, Mounted, MappedMount, At

\* What the handler steps of the app publisher that change a volume's files do to them.
LEMMA CheckRetryLimitEffect ==
    ASSUME TypeInv, NEW vol \in AppVolume, CheckRetryLimit(vol)
    PROVE  /\ handler[vol] = "limit"
           /\ handler' \in {[handler EXCEPT ![vol] = "none"], [handler EXCEPT ![vol] = "finish"]}
           /\ handler'[vol] = "finish" => vol \in dummy'
           /\ dummy \subseteq dummy'
           /\ \A w \in AppVolume : appMountDirs'[w].podInfo = appMountDirs[w].podInfo
           /\ \A w \in AppVolume : appMountDirs[w].created => appMountDirs'[w].created
           /\ \A w \in AppVolume \ {vol} : appMountDirs'[w] = appMountDirs[w]
           /\ UNCHANGED <<mounts, podInfoLinks, hostMounts, kubelet, uncleaned>>
<1>1. appMountDirs \in [AppVolume -> AppMountDir] /\ handler \in [Volume -> Handler]
  BY DEF TypeInv, TypeOK, SharedTypeOK, ServerTypeOK
<1>2. \/ appMountDirs' = appMountDirs
      \/ appMountDirs' = [appMountDirs EXCEPT ![vol] =
                             [@ EXCEPT !.created = TRUE, !.mountStart = "ticking"]]
  BY DEF CheckRetryLimit
<1>3. /\ \A w \in AppVolume : appMountDirs'[w].podInfo = appMountDirs[w].podInfo
      /\ \A w \in AppVolume : appMountDirs[w].created => appMountDirs'[w].created
      /\ \A w \in AppVolume \ {vol} : appMountDirs'[w] = appMountDirs[w]
  <2>1. CASE appMountDirs' = appMountDirs
    BY <2>1
  <2>2. CASE appMountDirs' = [appMountDirs EXCEPT ![vol] =
                                [@ EXCEPT !.created = TRUE, !.mountStart = "ticking"]]
    BY <1>1, <2>2 DEF AppMountDir
  <2> QED BY <1>2, <2>1, <2>2
<1> QED BY <1>1, <1>3 DEF CheckRetryLimit, AnswerError, At, Goto, Volume

LEMMA PrepareUpperDirEffect ==
    ASSUME TypeInv, NEW vol \in AppVolume, PrepareUpperDir(vol)
    PROVE  /\ handler[vol] = "prepare"
           /\ handler' \in {[handler EXCEPT ![vol] = "readlink"], [handler EXCEPT ![vol] = "limit"]}
           /\ handler'[vol] = "readlink" => appMountDirs'[vol].podInfo
           /\ \A w \in AppVolume : appMountDirs[w].podInfo => appMountDirs'[w].podInfo
           /\ \/ appMountDirs'[vol] = appMountDirs[vol]
              \/ appMountDirs'[vol].created
           /\ \A w \in AppVolume \ {vol} : appMountDirs'[w] = appMountDirs[w]
           /\ UNCHANGED <<mounts, podInfoLinks, hostMounts, kubelet, historyVars>>
<1>1. appMountDirs \in [AppVolume -> AppMountDir] /\ handler \in [Volume -> Handler]
  BY DEF TypeInv, TypeOK, SharedTypeOK, ServerTypeOK
<1>2. ASSUME NEW written \in {TRUE, appMountDirs[vol].podInfo},
             appMountDirs' = [appMountDirs EXCEPT ![vol] = [@ EXCEPT !.created = TRUE, !.podInfo = written]],
             Goto(vol, "limit") \/ (Goto(vol, "readlink") /\ written = TRUE)
      PROVE  /\ handler' \in {[handler EXCEPT ![vol] = "readlink"], [handler EXCEPT ![vol] = "limit"]}
             /\ handler'[vol] = "readlink" => appMountDirs'[vol].podInfo
             /\ \A w \in AppVolume : appMountDirs[w].podInfo => appMountDirs'[w].podInfo
             /\ appMountDirs'[vol].created
             /\ \A w \in AppVolume \ {vol} : appMountDirs'[w] = appMountDirs[w]
  BY <1>1, <1>2 DEF AppMountDir, Goto, Volume
<1>3. CASE appMountDirs' = appMountDirs /\ Goto(vol, "limit")
  BY <1>1, <1>3 DEF PrepareUpperDir, At, Goto, Volume
<1>4. CASE \E written \in {TRUE, appMountDirs[vol].podInfo} :
             /\ appMountDirs' = [appMountDirs EXCEPT ![vol] =
                                    [@ EXCEPT !.created = TRUE, !.podInfo = written]]
             /\ Goto(vol, "limit") \/ (Goto(vol, "readlink") /\ written = TRUE)
  <2>1. /\ handler[vol] = "prepare"
        /\ UNCHANGED <<mounts, podInfoLinks, hostMounts, kubelet, historyVars>>
    BY DEF PrepareUpperDir, At
  <2> QED BY <1>2, <1>4, <2>1
<1>5. \/ appMountDirs' = appMountDirs /\ Goto(vol, "limit")
      \/ \E written \in {TRUE, appMountDirs[vol].podInfo} :
             /\ appMountDirs' = [appMountDirs EXCEPT ![vol] =
                                    [@ EXCEPT !.created = TRUE, !.podInfo = written]]
             /\ Goto(vol, "limit") \/ (Goto(vol, "readlink") /\ written = TRUE)
  BY DEF PrepareUpperDir
<1> QED BY <1>3, <1>4, <1>5

LEMMA MountOverlayEffect ==
    ASSUME TypeInv, NEW vol \in AppVolume, MountOverlay(vol)
    PROVE  /\ handler[vol] = "mount"
           /\ \/ mounts' = mounts /\ handler' = [handler EXCEPT ![vol] = "limit"]
              \/ /\ lowerDir[vol] \in InstalledVersions
                 /\ mounts' = mounts \cup {[volume |-> vol, path |-> "target", lower |-> lowerDir[vol]]}
                 /\ handler' = [handler EXCEPT ![vol] = "podinfo"]
           /\ UNCHANGED <<appMountDirs, podInfoLinks, hostMounts, kubelet, historyVars>>
  BY DEF MountOverlay, At, Goto, InstalledVersions, TypeInv, LocalsInv

LEMMA ServerVolumeStep ==
    ASSUME TypeInv, VolumeInv, ServerNext, UNCHANGED provisionerVars
    PROVE  VolumeInv'
<1> USE CSINodeAssumption
    DEF VolumeInv, HandlerInv, PodInfoInv, PublishedIsMounted, HostPublishedIsBound,
        GoneLeavesNothing, Mounted, MappedMount, At, Goto, TypeInv, TypeOK, SharedTypeOK,
        ServerTypeOK, Volume, Publishing, Unpublishing
<1>1. ASSUME NEW vol \in Volume, PodScheduled(vol) \/ PodDeleted(vol) PROVE VolumeInv'
  BY <1>1 DEF PodScheduled, PodDeleted
<1>2. ASSUME NEW vol \in Volume, NodePublishVolume(vol) PROVE VolumeInv'
  BY <1>2 DEF NodePublishVolume, IsMountPoint
<1>3. ASSUME NEW vol \in Volume, NodeUnpublishVolume(vol) PROVE VolumeInv'
  BY <1>3 DEF NodeUnpublishVolume
<1>4. ASSUME NEW vol \in AppVolume, PublishApp(vol) PROVE VolumeInv'
  <2>1. CASE CheckCodeModule(vol)
    BY <2>1 DEF CheckCodeModule
  <2>2. CASE CheckRetryLimit(vol)
    BY <2>2, CheckRetryLimitEffect
  <2>3. CASE PrepareUpperDir(vol)
    BY <2>3, PrepareUpperDirEffect
  <2>4. CASE ReadLatestSymlink(vol)
    BY <2>4 DEF ReadLatestSymlink
  <2>5. CASE MountOverlay(vol)
    <3>1. CASE mounts' = mounts /\ handler' = [handler EXCEPT ![vol] = "limit"]
      <4>1. /\ handler[vol] = "mount"
            /\ UNCHANGED <<mounts, appMountDirs, podInfoLinks, hostMounts, kubelet, historyVars>>
        BY <2>5, <3>1, MountOverlayEffect
      <4>2. \A w \in AppVolume : Mounted(w)' = Mounted(w) /\ MappedMount(w)' = MappedMount(w)
        BY <4>1
      <4> QED BY <3>1, <4>1, <4>2
    <3>2. CASE /\ mounts' = mounts \cup {[volume |-> vol, path |-> "target", lower |-> lowerDir[vol]]}
               /\ handler' = [handler EXCEPT ![vol] = "podinfo"]
      <4>1. /\ handler[vol] = "mount" /\ kubelet[vol] = "waiting" /\ ~Mounted(vol)
            /\ UNCHANGED <<appMountDirs, podInfoLinks, hostMounts, kubelet, historyVars>>
        BY <2>5, MountOverlayEffect
      <4> DEFINE new == [volume |-> vol, path |-> "target", lower |-> lowerDir[vol]]
      <4>2. /\ new.volume = vol /\ new.path = "target"
            /\ mounts' = mounts \cup {new}
        BY <3>2
      <4> HIDE DEF new
      <4>3. /\ Mounted(vol)'
            /\ \A w \in AppVolume : w # vol => Mounted(w)' = Mounted(w)
            /\ \A w \in AppVolume : MappedMount(w) => MappedMount(w)'
        BY <4>2
      <4>5. HandlerInv'
        BY <3>2, <4>1, <4>3
      <4>6. PodInfoInv' /\ HostPublishedIsBound'
        BY <3>2, <4>1
      <4>7. PublishedIsMounted' /\ GoneLeavesNothing'
        BY <4>1, <4>3
      <4> QED BY <4>5, <4>6, <4>7
    <3> QED BY <2>5, <3>1, <3>2, MountOverlayEffect
  <2>6. CASE AddPodInfoSymlink(vol)
    BY <2>6 DEF AddPodInfoSymlink
  <2>7. CASE FinishMount(vol)
    BY <2>7 DEF FinishMount, AnswerOK, AppMountDir
  <2> QED BY <1>4, <2>1, <2>2, <2>3, <2>4, <2>5, <2>6, <2>7 DEF PublishApp
<1>5. ASSUME NEW vol \in HostVolume, PublishHost(vol) PROVE VolumeInv'
  <2>1. CASE MkdirOSAgentDir(vol)
    BY <2>1 DEF MkdirOSAgentDir
  <2>2. CASE BindOSAgentDir(vol)
    BY <2>2 DEF BindOSAgentDir, AnswerOK, AnswerError
  <2> QED BY <1>5, <2>1, <2>2 DEF PublishHost
<1>6. ASSUME NEW vol \in Volume, Unpublish(vol) PROVE VolumeInv'
  <2>1. CASE UnmountTarget(vol)
    BY <2>1 DEF UnmountTarget
  <2>2. CASE UnmountMapped(vol)
    BY <2>2 DEF UnmountMapped
  <2>3. CASE CleanVolume(vol)
    <3>1. /\ handler[vol] = "clean" /\ handler' = [handler EXCEPT ![vol] = "remove"]
          /\ uncleaned \subseteq uncleaned' /\ uncleaned' \subseteq uncleaned \cup {vol}
          /\ UNCHANGED <<mounts, hostMounts, kubelet, dummy>>
      BY <2>3 DEF CleanVolume
    <3>2. /\ \A w \in AppVolume : /\ w # vol => appMountDirs'[w] = appMountDirs[w]
                                  /\ appMountDirs'[w].created = appMountDirs[w].created
                                  /\ appMountDirs'[w].mountStart = appMountDirs[w].mountStart
                                  /\ appMountDirs'[w].podInfo => appMountDirs[w].podInfo
          /\ podInfoLinks' \subseteq podInfoLinks
      BY <2>3 DEF CleanVolume, AppMountDir, HasAppMountDir
    <3>3. vol \in AppVolume \ uncleaned' => ~appMountDirs'[vol].podInfo /\ vol \notin podInfoLinks'
      BY <2>3 DEF CleanVolume, HasAppMountDir, PodInfoSymlink, SamePodInfoPath, AppMountDir
    <3>4. \A w \in AppVolume : w \in podInfoLinks' \ uncleaned' => appMountDirs'[w].podInfo
      BY <3>1, <3>2, <3>3
    <3> QED BY <3>1, <3>2, <3>3, <3>4
  <2>4. CASE RemoveAppMountDir(vol)
    <3>1. /\ handler[vol] = "remove" /\ handler' = [handler EXCEPT ![vol] = "none"]
          /\ kubelet[vol] = "stopping"
          /\ kubelet' \in {kubelet, [kubelet EXCEPT ![vol] = "gone"]}
          /\ dummy' = dummy \ {vol}
          /\ uncleaned \subseteq uncleaned' /\ uncleaned' \subseteq uncleaned \cup {vol}
          /\ UNCHANGED <<mounts, hostMounts, podInfoLinks>>
      BY <2>4 DEF RemoveAppMountDir, RemoveAll, AnswerOK
    <3>2. \A w \in AppVolume : w # vol => appMountDirs'[w] = appMountDirs[w]
      BY <2>4 DEF RemoveAppMountDir, RemoveAll
    <3>3. vol \in AppVolume \ uncleaned' =>
            /\ ~appMountDirs'[vol].podInfo
            /\ appMountDirs'[vol].mountStart = NoTracker
            /\ appMountDirs'[vol].created => MappedMount(vol)
      BY <2>4 DEF RemoveAppMountDir, RemoveAll, NoAppMountDir
    <3>4. vol \in AppVolume /\ appMountDirs'[vol].podInfo => appMountDirs'[vol].created
      BY <2>4 DEF RemoveAppMountDir, RemoveAll, NoAppMountDir
    <3>5. vol \in AppVolume \ uncleaned => vol \notin podInfoLinks
      BY <3>1
    <3>6. HandlerInv' /\ PublishedIsMounted' /\ HostPublishedIsBound'
      BY <3>1
    <3>7. PodInfoInv'
      BY <3>1, <3>2, <3>3, <3>4, <3>5
    <3>8. GoneLeavesNothing'
      BY <3>1, <3>2, <3>3, <3>5
    <3> QED BY <3>6, <3>7, <3>8
  <2> QED BY <1>6, <2>1, <2>2, <2>3, <2>4 DEF Unpublish
<1>7. ASSUME NEW vol \in AppVolume, RetryTimeout(vol) PROVE VolumeInv'
  <2>1. /\ \A w \in AppVolume : w # vol => appMountDirs'[w] = appMountDirs[w]
        /\ appMountDirs'[vol].podInfo = appMountDirs[vol].podInfo
        /\ appMountDirs'[vol].created = appMountDirs[vol].created
        /\ appMountDirs[vol].mountStart # NoTracker
    BY <1>7 DEF RetryTimeout, AppMountDir, NoTracker
  <2>2. UNCHANGED <<mounts, podInfoLinks, hostMounts, kubelet, handler, historyVars>>
    BY <1>7 DEF RetryTimeout
  <2> QED BY <2>1, <2>2
<1>8. CASE ServerRestarts
  BY <1>8 DEF ServerRestarts
<1> QED BY <1>1, <1>2, <1>3, <1>4, <1>5, <1>6, <1>7, <1>8 DEF ServerNext, Serve

LEMMA InitVolumes == Init => VolumeInv
<1> SUFFICES ASSUME Init PROVE VolumeInv
  OBVIOUS
<1>1. PICK legacy \in SUBSET AppVolume, lower \in Version :
        /\ mounts = LegacyMounts(legacy, lower)
        /\ appMountDirs = [vol \in AppVolume |->
              IF vol \in legacy THEN [NoAppMountDir EXCEPT !.created = TRUE, !.podInfo = TRUE]
                                ELSE NoAppMountDir]
        /\ podInfoLinks = legacy
  BY DEF Init, SharedInit
<1>2. \A vol \in AppVolume :
        /\ vol \in legacy => appMountDirs[vol].podInfo /\ appMountDirs[vol].created
        /\ vol \notin legacy => ~appMountDirs[vol].podInfo
  BY <1>1 DEF NoAppMountDir
<1>3. /\ \A vol \in Volume : handler[vol] = "none" /\ kubelet[vol] # "gone"
      /\ \A vol \in AppVolume : kubelet[vol] = "running" => Mounted(vol)
      /\ \A vol \in HostVolume : kubelet[vol] # "running"
  BY CSINodeAssumption DEF Init, ServerInit, Volume
<1> QED
  BY <1>1, <1>2, <1>3
  DEF VolumeInv, HandlerInv, PodInfoInv, PublishedIsMounted, HostPublishedIsBound, GoneLeavesNothing,
      Publishing, Unpublishing, At, Volume

LEMMA VolumesCorrect == Spec => [](TypeInv /\ VolumeInv)
<1>1. Init => TypeInv /\ VolumeInv
  BY InitTypes, InitVolumes
<1>2. TypeInv /\ VolumeInv /\ [Next]_vars => (TypeInv /\ VolumeInv)'
  <2> SUFFICES ASSUME TypeInv, VolumeInv, [Next]_vars PROVE VolumeInv'
    BY TypeStep
  <2>1. CASE ProvisionerNext /\ UNCHANGED serverVars
    BY <2>1, ProvisionerVolumeStep
  <2>2. CASE ServerNext /\ UNCHANGED provisionerVars
    BY <2>2, ServerVolumeStep
  <2>3. CASE UNCHANGED vars
    BY <2>3
    DEF vars, VolumeInv, HandlerInv, PodInfoInv, PublishedIsMounted, HostPublishedIsBound,
        GoneLeavesNothing, Mounted, MappedMount, At
  <2> QED BY <2>1, <2>2, <2>3 DEF Next
<1> QED BY <1>1, <1>2, PTL DEF Spec

(***************************************************************************)
(* An app volume that was answered OK is mounted or was given up.          *)
(***************************************************************************)
THEOREM PublishedVolumesAreMounted == Spec => []PublishedIsMounted
<1>1. VolumeInv => PublishedIsMounted
  BY DEF VolumeInv
<1> QED BY <1>1, VolumesCorrect, PTL

(***************************************************************************)
(* A host volume that was answered OK is bound.                            *)
(***************************************************************************)
THEOREM PublishedHostVolumesAreBound == Spec => []HostPublishedIsBound
<1>1. VolumeInv => HostPublishedIsBound
  BY DEF VolumeInv
<1> QED BY <1>1, VolumesCorrect, PTL

(***************************************************************************)
(* An unpublished volume leaves no files of its own behind, unless a step  *)
(* of its clean-up failed and was ignored (Server.unmount).                *)
(***************************************************************************)
THEOREM GoneVolumesLeaveNothing == Spec => []GoneLeavesNothing
<1>1. VolumeInv => GoneLeavesNothing
  BY DEF VolumeInv
<1> QED BY <1>1, VolumesCorrect, PTL

-----------------------------------------------------------------------------
(* The driver implements CodeModuleStore: each step is a step of the       *)
(* store, or leaves it alone.                                              *)

StoreVars == <<InstalledVersions, IF ppc = "current" THEN {target} ELSE {}, latest,
               {dk \in DynaKube : listed[dk].app}, mounts>>

LEMMA StoreSteps ==
    ASSUME \/ \E v \in Version : Store!Stage(v) \/ Store!Arrive(v) \/ Store!Collect(v)
           \/ \E dks \in SUBSET DynaKube : Store!Unpoint(dks) \/ Store!Learn(dks)
    PROVE  Store!Next
BY DEF Store!Next

LEMMA InstallerImplementsStore ==
    ASSUME TypeInv, WorkerInv, Installer, UNCHANGED serverVars
    PROVE  Store!Next \/ UNCHANGED StoreVars
<1> USE CSIProvisionerAssumption
    DEF InstalledVersions, Installed, TypeInv, TypeOK, SharedTypeOK, ProvisionerTypeOK, LocalsInv
<1>1. CASE AlreadyInstalled
  BY <1>1 DEF AlreadyInstalled, StoreVars
<1>2. CASE UnpackArchive \/ UnpackImage
  <2>1. \E v \in Version : Store!Stage(v)
    BY <1>2 DEF UnpackArchive, UnpackImage, Store!Stage
  <2> QED BY <2>1, StoreSteps
<1>3. CASE InstallFails \/ JobNotReady
  BY <1>3 DEF InstallFails, JobNotReady, Requeued, StoreVars
<1>4. CASE JobDone
  <2>1. \E v \in Version : Store!Stage(v)
    BY <1>4 DEF JobDone, Store!Stage
  <2> QED BY <2>1, StoreSteps
<1>5. CASE LinkCurrentVersion
  <2>1. Store!Unstage \/ Store!GiveUp
    BY <1>5 DEF LinkCurrentVersion, Requeued, Store!Unstage, Store!GiveUp
  <2> QED BY <2>1 DEF Store!Next
<1>6. CASE RemoveLatestSymlink
  <2>1. Store!Unpoint({current})
    BY <1>6 DEF RemoveLatestSymlink, Store!Unpoint
  <2>2. {current} \in SUBSET DynaKube
    BY <1>6 DEF RemoveLatestSymlink
  <2> QED BY <2>1, <2>2 DEF Store!Next
<1>7. CASE CreateLatestSymlink
  <2>1. Store!Point(current, target) \/ UNCHANGED StoreVars
    BY <1>7 DEF CreateLatestSymlink, RunCleaner, WorkerInv, StoreVars, Store!Point
  <2>2. current \in DynaKube /\ target \in Version
    BY <1>7 DEF CreateLatestSymlink
  <2> QED BY <2>1, <2>2 DEF Store!Next
<1> QED BY <1>1, <1>2, <1>3, <1>4, <1>5, <1>6, <1>7 DEF Installer

LEMMA CleanerImplementsStore ==
    ASSUME TypeInv, WorkerInv, Cleaner, UNCHANGED serverVars
    PROVE  Store!Next \/ UNCHANGED StoreVars
<1> USE DEF InstalledVersions, Installed, TypeInv, TypeOK, SharedTypeOK, ProvisionerTypeOK
<1>1. CASE ScanFilesystem \/ RemoveHostMounts \/ CollectRelevantLatestBins \/ ReadSharedBinaries
  BY <1>1 DEF ScanFilesystem, RemoveHostMounts, CollectRelevantLatestBins, ReadSharedBinaries,
              StoreVars, binaryVars, volumeVars, cleanupVars
<1>2. CASE RemoveUnknownDirs
  <2>1. Store!Unpoint(unknownDirs)
    BY <1>2 DEF RemoveUnknownDirs, Store!Unpoint
  <2>2. unknownDirs \in SUBSET DynaKube
    OBVIOUS
  <2> QED BY <2>1, <2>2, StoreSteps
<1>3. CASE ListDynaKubes \/ CollectStillMountedBins \/ CleanerDone
  <2> DEFINE found == {dk \in DynaKube : listed'[dk].app}
  <2>1. PICK dks \in SUBSET DynaKube : dks = found
    OBVIOUS
  <2>2. Store!Learn(dks)
    BY <1>3, <2>1
    DEF ListDynaKubes, CollectStillMountedBins, CleanerDone, CleanerReturns, NoCleanup,
        binaryVars, volumeVars, Store!Learn
  <2> QED BY <2>2, StoreSteps
<1>4. CASE RemoveOldBinarySymlinks
  <2> DEFINE unrelated == {dk \in DynaKube : dk \in scannedBins /\ ~listed[dk].relevant}
  <2>1. Store!Unpoint(unrelated)
    BY <1>4 DEF RemoveOldBinarySymlinks, volumeVars, cleanupVars, Store!Unpoint
  <2>2. unrelated \in SUBSET DynaKube
    OBVIOUS
  <2> QED BY <2>1, <2>2 DEF Store!Next
<1>5. ASSUME NEW v \in Version, RemoveOldSharedBinary(v)
      PROVE  Store!Next \/ UNCHANGED StoreVars
  <2>1. CASE v \in keptBins
    BY <1>5, <2>1 DEF RemoveOldSharedBinary, volumeVars, workerVars, StoreVars
  <2>2. CASE v \notin keptBins
    <3>1. ppc = "removeBins" /\ StillMountedBins \subseteq keptBins
      BY <1>5 DEF RemoveOldSharedBinary, WorkerInv
    <3>2. \A dk \in DynaKube : listed[dk].app => latest[dk] # v
      BY <2>2, <3>1, CSINodeAssumption DEF WorkerInv
    <3>3. \A m \in mounts : m.path = "mapped" => m.lower # v
      BY <2>2, <3>1 DEF StillMountedBins
    <3>4. Store!Collect(v)
      BY <1>5, <2>2, <3>2, <3>3
      DEF RemoveOldSharedBinary, volumeVars, workerVars, Store!Collect
    <3> QED BY <3>4 DEF Store!Next
  <2> QED BY <2>1, <2>2
<1> QED BY <1>1, <1>2, <1>3, <1>4, <1>5 DEF Cleaner

LEMMA ProvisionerImplementsStore ==
    ASSUME TypeInv, WorkerInv, ProvisionerNext, UNCHANGED serverVars
    PROVE  Store!Next \/ UNCHANGED StoreVars
<1> USE DEF InstalledVersions, Installed, TypeInv, TypeOK, SharedTypeOK, ProvisionerTypeOK
<1>1. ASSUME NEW v \in Version, JobMovesBinary(v)
      PROVE  Store!Next \/ UNCHANGED StoreVars
  <2>1. Store!Arrive(v)
    BY <1>1 DEF JobMovesBinary, volumeVars, workerVars, cleanupVars, Store!Arrive
  <2> QED BY <2>1 DEF Store!Next
<1>2. ASSUME NEW v \in Version, JobFails(v) \/ JobExpires(v)
      PROVE  Store!Next \/ UNCHANGED StoreVars
  BY <1>2 DEF JobFails, JobExpires, binaryVars, volumeVars, workerVars, cleanupVars, StoreVars
<1>3. CASE TickerFires
  BY <1>3 DEF TickerFires, binaryVars, volumeVars, workerVars, cleanupVars, StoreVars
<1>4. CASE ProvisionerRestarts
  <2>1. Store!Forget
    BY <1>4 DEF ProvisionerRestarts, NoCleanup, NothingListed, binaryVars, volumeVars, Store!Forget
  <2> QED BY <2>1 DEF Store!Next
<1>5. ASSUME NEW dk \in DynaKube, ApplyDynaKube(dk) \/ DeleteDynaKube(dk)
      PROVE  Store!Next \/ UNCHANGED StoreVars
  BY <1>5 DEF ApplyDynaKube, DeleteDynaKube, binaryVars, volumeVars, workerVars, cleanupVars, StoreVars
<1>6. ASSUME NEW dk \in DynaKube, Reconcile(dk)
      PROVE  Store!Next \/ UNCHANGED StoreVars
  <2>1. UNCHANGED <<binaryVars, volumeVars, cleanupVars>>
    BY <1>6 DEF Reconcile
  <2>2. ppc # "current" /\ ppc' # "current"
    BY <1>6 DEF Reconcile, RunCleaner, workerVars
  <2> QED BY <2>1, <2>2 DEF binaryVars, volumeVars, cleanupVars, StoreVars
<1> QED
  BY <1>1, <1>2, <1>3, <1>4, <1>5, <1>6, InstallerImplementsStore, CleanerImplementsStore
  DEF ProvisionerNext, Jobs

LEMMA ServerImplementsStore ==
    ASSUME TypeInv, VolumeInv, ServerNext, UNCHANGED provisionerVars
    PROVE  Store!Next \/ UNCHANGED StoreVars
<1> USE DEF InstalledVersions, Installed, TypeInv, TypeOK, SharedTypeOK, ServerTypeOK, LocalsInv
<1>1. UNCHANGED <<ppc, target, listed>>
  BY DEF provisionerVars, workerVars, cleanupVars
<1>2. UNCHANGED <<binaryVars, mounts>> => UNCHANGED StoreVars
  BY <1>1 DEF binaryVars, StoreVars
<1>3. ASSUME NEW vol \in Volume, PodScheduled(vol) \/ PodDeleted(vol) \/ NodePublishVolume(vol)
                                 \/ NodeUnpublishVolume(vol)
      PROVE  UNCHANGED <<binaryVars, mounts>>
  BY <1>3 DEF PodScheduled, PodDeleted, NodePublishVolume, NodeUnpublishVolume, volumeVars
<1>4. ASSUME NEW vol \in AppVolume, PublishApp(vol)
      PROVE  Store!Next \/ UNCHANGED StoreVars
  <2>1. ASSUME MountOverlay(vol), mounts' # mounts
        PROVE  Store!Next
    <3>1. lowerDir[vol] \in Version /\ ~Mounted(vol)
      BY <2>1 DEF MountOverlay, VolumeInv, HandlerInv, At
    <3>2. Store!MountModule(vol, lowerDir[vol])
      BY <1>1, <2>1, <3>1 DEF MountOverlay, Mounted, binaryVars, Store!MountModule
    <3> QED BY <3>1, <3>2 DEF Store!Next
  <2>2. UNCHANGED binaryVars
    BY <1>4 DEF PublishApp, CheckCodeModule, CheckRetryLimit, PrepareUpperDir, ReadLatestSymlink,
                MountOverlay, AddPodInfoSymlink, FinishMount
  <2>3. MountOverlay(vol) \/ UNCHANGED mounts
    BY <1>4 DEF PublishApp, CheckCodeModule, CheckRetryLimit, PrepareUpperDir, ReadLatestSymlink,
                AddPodInfoSymlink, FinishMount, volumeVars
  <2> QED BY <1>2, <2>1, <2>2, <2>3
<1>5. ASSUME NEW vol \in HostVolume, PublishHost(vol)
      PROVE  UNCHANGED <<binaryVars, mounts>>
  BY <1>5 DEF PublishHost, MkdirOSAgentDir, BindOSAgentDir, volumeVars
<1>6. ASSUME NEW vol \in Volume, Unpublish(vol)
      PROVE  Store!Next \/ UNCHANGED StoreVars
  <2>1. UNCHANGED binaryVars
    BY <1>6 DEF Unpublish, UnmountTarget, UnmountMapped, CleanVolume, RemoveAppMountDir
  <2>2. \/ UNCHANGED mounts
        \/ \E path \in {"target", "mapped"} :
              mounts' = {m \in mounts : m.volume # vol \/ m.path # path}
    BY <1>6 DEF Unpublish, UnmountTarget, UnmountMapped, CleanVolume, RemoveAppMountDir
  <2>3. ASSUME NEW path \in {"target", "mapped"},
               mounts' = {m \in mounts : m.volume # vol \/ m.path # path}
        PROVE  Store!Next \/ UNCHANGED StoreVars
    <3>1. CASE vol \in AppVolume
      <4>1. Store!Unmount(vol, path)
        BY <1>1, <2>1, <2>3 DEF binaryVars, Store!Unmount
      <4> QED BY <3>1, <4>1 DEF Store!Next
    <3>2. CASE vol \notin AppVolume
      <4>1. \A m \in mounts : m.volume \in AppVolume
        BY DEF Mount
      <4>2. mounts' = mounts
        BY <2>3, <3>2, <4>1
      <4> QED BY <1>2, <2>1, <4>2
    <3> QED BY <3>1, <3>2
  <2> QED BY <1>2, <2>1, <2>2, <2>3
<1>7. ASSUME NEW vol \in AppVolume, RetryTimeout(vol)
      PROVE  UNCHANGED <<binaryVars, mounts>>
  BY <1>7 DEF RetryTimeout
<1>8. ASSUME ServerRestarts
      PROVE  UNCHANGED <<binaryVars, mounts>>
  BY <1>8 DEF ServerRestarts, volumeVars
<1> QED BY <1>2, <1>3, <1>4, <1>5, <1>6, <1>7, <1>8 DEF ServerNext, Serve

LEMMA InitImplementsStore == Init => Store!Init
<1> SUFFICES ASSUME Init PROVE Store!Init
  OBVIOUS
<1>1. PICK legacy \in SUBSET AppVolume, lower \in Version :
        /\ codeModules = [v \in Version |-> IF legacy # {} /\ v = lower THEN "full" ELSE "absent"]
        /\ mounts = LegacyMounts(legacy, lower)
  BY DEF Init, SharedInit
<1>2. InstalledVersions \subseteq Version
  BY DEF InstalledVersions
<1>3. \A m \in mounts : m.lower \in InstalledVersions
  BY <1>1 DEF LegacyMounts, InstalledVersions, Installed
<1>4. /\ ppc # "current"
      /\ latest = [dk \in DynaKube |-> NoVersion]
      /\ {dk \in DynaKube : listed[dk].app} = {}
  BY DEF Init, SharedInit, ProvisionerInit, NothingListed
<1> QED BY <1>2, <1>3, <1>4 DEF Store!Init

(***************************************************************************)
(* The driver implements CodeModuleStore, for any number of DynaKubes,     *)
(* versions and volumes: no interleaving of the worker, the handlers, the  *)
(* download jobs and the restarts points a DynaKube at a module that is    *)
(* not installed, mounts one that is not there or collects one in use.     *)
(***************************************************************************)
THEOREM DriverImplementsStore == Spec => StoreSpec
<1>1. TypeInv /\ WorkerInv /\ VolumeInv /\ [Next]_vars => [Store!Next]_(Store!vars)
  <2> SUFFICES ASSUME TypeInv, WorkerInv, VolumeInv, [Next]_vars
               PROVE  Store!Next \/ UNCHANGED StoreVars
    BY DEF StoreVars, Store!vars
  <2>1. CASE ProvisionerNext /\ UNCHANGED serverVars
    BY <2>1, ProvisionerImplementsStore
  <2>2. CASE ServerNext /\ UNCHANGED provisionerVars
    BY <2>2, ServerImplementsStore
  <2>3. CASE UNCHANGED vars
    BY <2>3 DEF vars, binaryVars, volumeVars, provisionerVars, workerVars, cleanupVars, StoreVars,
                InstalledVersions, Installed
  <2> QED BY <2>1, <2>2, <2>3 DEF Next
<1> QED BY <1>1, InitImplementsStore, WorkerCorrect, VolumesCorrect, PTL DEF Spec, StoreSpec, Store!Spec

-----------------------------------------------------------------------------
(***************************************************************************)
(* The limiter in front of the server (GrpcLimiter), a specification of    *)
(* its own.                                                                *)
(***************************************************************************)

\* Both sets of calls are finite.
LEMMA CallsFinite ==
    ASSUME GrpcLimiterAssumption
    PROVE  IsFiniteSet(InFlight) /\ IsFiniteSet(Handling)
BY FS_Subset DEF GrpcLimiterAssumption, InFlight, Handling

(***************************************************************************)
(* One step keeps the counter exact and the limit: a call is admitted when *)
(* all calls in flight, itself included, are within the limit.             *)
(***************************************************************************)
LEMMA LimiterNextInv ==
    ASSUME GrpcLimiterAssumption
    PROVE  LimiterInv /\ [LimiterNext]_limiterVars => LimiterInv'
<1>m. MaxGRPCRequests \in Nat
    BY DEF GrpcLimiterAssumption
<1> SUFFICES ASSUME LimiterInv, [LimiterNext]_limiterVars PROVE LimiterInv'
    OBVIOUS
<1> USE DEF LimiterInv
<1>f. IsFiniteSet(InFlight) /\ IsFiniteSet(Handling)
    BY CallsFinite
<1>n. Cardinality(InFlight) \in Nat /\ Cardinality(Handling) \in Nat
    BY <1>f, FS_CardinalityType
<1>1. ASSUME NEW c \in Call, CountIn(c) PROVE LimiterInv'
    <2>1. LimiterTypeOK'
        BY <1>1 DEF CountIn, LimiterTypeOK, Phase
    <2>2. InFlight' = InFlight \cup {c} /\ c \notin InFlight
        BY <1>1 DEF CountIn, LimiterTypeOK, InFlight
    <2>3. Cardinality(InFlight') = Cardinality(InFlight) + 1
        BY <2>2, <1>f, FS_AddElement
    <2>4. Handling' = Handling
        BY <1>1 DEF CountIn, LimiterTypeOK, Handling
    <2> QED BY <1>1, <1>m, <1>n, <2>1, <2>3, <2>4 DEF CountIn, CounterCounts, HandlingBounded
<1>2. ASSUME NEW c \in Call, Admit(c) PROVE LimiterInv'
    <2>1. LimiterTypeOK'
        BY <1>2 DEF Admit, LimiterTypeOK, Phase
    <2>2. InFlight' = InFlight /\ Handling' \subseteq InFlight
        BY <1>2 DEF Admit, LimiterTypeOK, InFlight, Handling
    <2>3. Cardinality(Handling') \in Nat /\ Cardinality(Handling') <= Cardinality(InFlight)
        BY <2>2, <1>f, FS_Subset, FS_CardinalityType
    <2> QED BY <1>2, <1>m, <1>n, <2>1, <2>2, <2>3 DEF Admit, CounterCounts, HandlingBounded
<1>3. ASSUME NEW c \in Call, Reject(c) PROVE LimiterInv'
    <2>1. LimiterTypeOK'
        BY <1>3 DEF Reject, LimiterTypeOK, Phase
    <2>2. InFlight' = InFlight /\ Handling' = Handling
        BY <1>3 DEF Reject, LimiterTypeOK, InFlight, Handling
    <2> QED BY <1>3, <2>1, <2>2 DEF Reject, CounterCounts, HandlingBounded
<1>4. ASSUME NEW c \in Call, HandlerReturns(c) PROVE LimiterInv'
    <2>1. LimiterTypeOK'
        BY <1>4 DEF HandlerReturns, LimiterTypeOK, Phase
    <2>2. InFlight' = InFlight /\ Handling' \subseteq Handling
        BY <1>4 DEF HandlerReturns, LimiterTypeOK, InFlight, Handling
    <2>3. Cardinality(Handling') \in Nat /\ Cardinality(Handling') <= Cardinality(Handling)
        BY <2>2, <1>f, FS_Subset, FS_CardinalityType
    <2> QED BY <1>4, <1>m, <1>n, <2>1, <2>2, <2>3 DEF HandlerReturns, CounterCounts, HandlingBounded
<1>5. ASSUME NEW c \in Call, CountOut(c) PROVE LimiterInv'
    <2>1. LimiterTypeOK'
        BY <1>5 DEF CountOut, LimiterTypeOK, Phase
    <2>2. InFlight' = InFlight \ {c} /\ c \in InFlight
        BY <1>5 DEF CountOut, LimiterTypeOK, InFlight
    <2>3. Cardinality(InFlight') = Cardinality(InFlight) - 1
        BY <2>2, <1>f, FS_RemoveElement
    <2>4. Handling' = Handling
        BY <1>5 DEF CountOut, LimiterTypeOK, Handling
    <2> QED BY <1>5, <2>1, <2>3, <2>4 DEF CountOut, CounterCounts, HandlingBounded
<1>6. CASE UNCHANGED limiterVars
    BY <1>6 DEF limiterVars, LimiterTypeOK, CounterCounts, HandlingBounded, InFlight, Handling
<1> QED BY <1>1, <1>2, <1>3, <1>4, <1>5, <1>6 DEF LimiterNext

\* Nothing is in flight initially.
LEMMA LimiterInitInv ==
    ASSUME GrpcLimiterAssumption
    PROVE  LimiterInit => LimiterInv
<1>m. MaxGRPCRequests \in Nat
    BY DEF GrpcLimiterAssumption
<1> SUFFICES ASSUME LimiterInit PROVE LimiterInv
    OBVIOUS
<1>1. InFlight = {} /\ Handling = {}
    BY DEF LimiterInit, InFlight, Handling
<1>2. Cardinality({}) = 0
    BY FS_EmptySet
<1> QED BY <1>1, <1>2, <1>m DEF LimiterInit, LimiterInv, LimiterTypeOK, Phase, CounterCounts, HandlingBounded

(***************************************************************************)
(* The invariant of the limiter, for every number of calls and every       *)
(* limit: the counter of grpcLimiter is exact in every reachable state.    *)
(***************************************************************************)
THEOREM LimiterInvariant ==
    ASSUME GrpcLimiterAssumption
    PROVE  LimiterSpec => []LimiterInv
<1>1. LimiterInit => LimiterInv
    BY LimiterInitInv
<1>2. LimiterInv /\ [LimiterNext]_limiterVars => LimiterInv'
    BY LimiterNextInv
<1> QED BY <1>1, <1>2, PTL DEF LimiterSpec

\* grpcLimiter never lets more calls through to their handlers than its limit.
THEOREM LimiterBoundsHandlers ==
    ASSUME GrpcLimiterAssumption
    PROVE  LimiterSpec => []HandlingBounded
<1>1. LimiterInv => HandlingBounded
    BY DEF LimiterInv
<1> QED BY <1>1, LimiterInvariant, PTL

(***************************************************************************)
(* grpcLimiter turns a call away only if other calls in flight take up the *)
(* whole limit.                                                            *)
(***************************************************************************)
THEOREM LimiterRejectsOnlyAtLimit ==
    ASSUME GrpcLimiterAssumption
    PROVE  LimiterSpec => RejectedOnlyAtLimit
<1>1. ASSUME LimiterInv, [LimiterNext]_limiterVars
      PROVE [\A c \in Call : phase[c] = "counted" /\ phase'[c] = "leaving" =>
                Cardinality(InFlight \ {c}) >= MaxGRPCRequests]_limiterVars
    <2> SUFFICES ASSUME NEW c \in Call, phase[c] = "counted", phase'[c] = "leaving"
                 PROVE Cardinality(InFlight \ {c}) >= MaxGRPCRequests
        OBVIOUS
    <2>1. counter > MaxGRPCRequests
        <3>1. PICK d \in Call : CountIn(d) \/ Admit(d) \/ Reject(d) \/ HandlerReturns(d) \/ CountOut(d)
            BY <1>1 DEF LimiterNext, limiterVars
        <3> QED BY <1>1, <3>1 DEF LimiterInv, LimiterTypeOK, CountIn, Admit, Reject, HandlerReturns, CountOut
    <2>2. c \in InFlight /\ IsFiniteSet(InFlight)
        BY CallsFinite DEF InFlight
    <2>3. Cardinality(InFlight \ {c}) = Cardinality(InFlight) - 1
        BY <2>2, FS_RemoveElement
    <2>4. MaxGRPCRequests \in Nat
        BY DEF GrpcLimiterAssumption
    <2> QED BY <1>1, <2>1, <2>3, <2>4 DEF LimiterInv, CounterCounts, LimiterTypeOK
<1> QED BY <1>1, LimiterInvariant, PTL DEF LimiterSpec, RejectedOnlyAtLimit
=============================================================================
