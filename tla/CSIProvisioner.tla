---------------------------- MODULE CSIProvisioner ----------------------------
(***************************************************************************)
(* The provisioner container of the CSI driver: a controller with one      *)
(* worker that downloads the code module of a DynaKube, points its         *)
(* latest-codemodule symlink at it, and cleans up the data directory.      *)
(*                                                                         *)
(* The worker is a sequential process, but the CSI server, the download    *)
(* jobs, the users and the kubelet act between any two of its file system  *)
(* calls, so each call whose result it uses later is a step of its own.    *)
(***************************************************************************)
EXTENDS CSINode

CONSTANTS
    NoDynaKube,         \* no reconcile in progress
    CSIDriverModule,    \* installconfig.GetModules().CSIDriver
    BinaryPull,         \* DynaKubes whose code module is downloaded from the tenant
    ImagePull,          \* DynaKubes whose code module image the provisioner pulls
    JobPull             \* DynaKubes with the node-image-pull feature flag

ASSUME CSIProvisionerAssumption ==
    /\ NoDynaKube \notin DynaKube
    /\ CSIDriverModule \in BOOLEAN
    /\ BinaryPull \cup ImagePull \cup JobPull = DynaKube
    /\ JobPull \cap (BinaryPull \cup ImagePull) = {}
    /\ BinaryPull \cap ImagePull = {}

VARIABLES
    deleted,        \* deletion events in the workqueue
    ticker,         \* the package variable that spaces the clean-ups
    jobs,           \* the download jobs of this node, by what they download
    ppc,            \* where the worker is
    current,        \* the DynaKube whose module is being installed, and the
    target,         \* version that was read for it
    scannedBins,    \* fsState.binDks
    scannedHosts,   \* fsState.hostDks
    unknownDirs,
    listed,         \* DynaKubes of GetRelevantDynaKubes, with the spec that was read
    keptBins,
    todo            \* entries of codemodules still to be visited

cleanupVars == <<scannedBins, scannedHosts, unknownDirs, listed, keptBins, todo>>
workerVars  == <<ppc, current, target>>
provisionerVars == <<deleted, ticker, jobs, workerVars, cleanupVars>>

PC == {"idle", "install", "current", "unlink", "link", "scan", "removeUnknown", "list",
       "removeHosts", "removeLinks", "mounts", "latestBins", "readBins", "removeBins"}

Ticker == {"unset", "running", "fired"}
JobState == {"none", "running", "succeeded", "failed"}

ProvisionerTypeOK ==
    /\ deleted \subseteq DynaKube
    /\ ticker \in Ticker
    /\ jobs \in [Version -> JobState]
    /\ ppc \in PC
    /\ current \in DynaKube \cup {NoDynaKube}
    /\ target \in Version \cup {NoVersion}
    /\ scannedBins \subseteq DynaKube
    /\ scannedHosts \subseteq DynaKube
    /\ unknownDirs \subseteq DynaKube
    /\ listed \in [DynaKube -> [relevant : BOOLEAN, app : BOOLEAN, host : BOOLEAN]]
    /\ keptBins \subseteq Version
    /\ todo \subseteq Version

NothingListed == [dk \in DynaKube |-> [relevant |-> FALSE, app |-> FALSE, host |-> FALSE]]

ProvisionerInit ==
    /\ deleted = {}
    /\ ticker = "unset"
    /\ jobs = [v \in Version |-> "none"]
    /\ ppc = "idle"
    /\ current = NoDynaKube
    /\ target = NoVersion
    /\ scannedBins = {} /\ scannedHosts = {} /\ unknownDirs = {}
    /\ listed = NothingListed
    /\ keptBins = {} /\ todo = {}

-----------------------------------------------------------------------------
(* The API server: DynaKubes are created, changed and deleted.  A change   *)
(* and the RequeueAfter of every reconcile put an existing DynaKube into   *)
(* the workqueue, so it may be reconciled at any time; a deletion is one   *)
(* event, and a new DynaKube of that name replaces it in the queue.        *)

ApplyDynaKube(dk) ==
    /\ edits < MaxEdits
    /\ edits' = edits + 1
    /\ \E s \in Specs \ {spec[dk]} : spec' = [spec EXCEPT ![dk] = s]
    /\ exists' = exists \cup {dk}
    /\ deleted' = deleted \ {dk}
    /\ UNCHANGED <<binaryVars, volumeVars, hostVars, faults, ticker, jobs, workerVars, cleanupVars>>

DeleteDynaKube(dk) ==
    /\ edits < MaxEdits
    /\ edits' = edits + 1
    /\ dk \in exists
    /\ exists' = exists \ {dk}
    /\ spec' = [spec EXCEPT ![dk] = NoSpec]
    /\ deleted' = deleted \cup {dk}
    /\ UNCHANGED <<binaryVars, volumeVars, hostVars, faults, ticker, jobs, workerVars, cleanupVars>>

TickerFires ==
    /\ ticker = "running"
    /\ ticker' = "fired"
    /\ UNCHANGED <<clusterVars, binaryVars, volumeVars, hostVars, faults, deleted, jobs, workerVars,
                   cleanupVars>>

-----------------------------------------------------------------------------
(* Reconcile.                                                              *)

Locals == <<current, target>>
NoLocals == current' = NoDynaKube /\ target' = NoVersion

\* Cleaner.Run: only when no ticker was started yet, or when it fired
RunCleaner ==
    /\ ppc' = IF ticker = "running" THEN "idle" ELSE "scan"
    /\ NoLocals

\* setupFileSystem, for a DynaKube the provisioner is needed for
SetupFileSystem(dk) == dynakubeDirs' = dynakubeDirs \cup {dk}

Reconcile(dk) ==
    /\ ppc = "idle"
    /\ dk \in exists \cup deleted
    /\ deleted' = deleted \ {dk}
    /\ \/ /\ dk \notin exists                       \* InstantRun, whatever the ticker says
          /\ ppc' = "scan"
          /\ UNCHANGED <<Locals, dynakubeDirs>>
       \/ /\ dk \in exists
          /\ ~CSIDriverModule \/ ~IsRelevant(dk)     \* migration mode, or nothing to provide
          /\ RunCleaner
          /\ UNCHANGED dynakubeDirs
       \/ /\ dk \in exists /\ CSIDriverModule /\ IsRelevant(dk)
          /\ SetupFileSystem(dk)
          /\ \/ ~spec[dk].app /\ RunCleaner          \* nothing to download
             \/ spec[dk].app /\ spec[dk].version = NoVersion /\ UNCHANGED workerVars
             \/ /\ spec[dk].app /\ spec[dk].version # NoVersion
                /\ current' = dk
                /\ target' = spec[dk].version
                /\ ppc' = "install"
    /\ UNCHANGED <<clusterVars, binaryVars, volumeVars, osAgentDirs, hostMounts, faults, ticker, jobs,
                   cleanupVars>>

\* Mutant: goes on although InstallAgent was not ready or failed
IgnoreNotReady == ppc' = "unlink" /\ UNCHANGED Locals
\* the reconcile ends without a module: not ready, or an error; it is requeued
Requeued == ppc' = "idle" /\ NoLocals

\* binary and image installers: nothing to do when the directory is there
AlreadyInstalled ==
    /\ ppc = "install"
    /\ current \notin JobPull
    /\ Installed(target)
    /\ ppc' = "unlink"
    /\ UNCHANGED <<clusterVars, binaryVars, volumeVars, hostVars, faults, deleted, ticker, jobs,
                   current, target, cleanupVars>>

\* binary installer: download, unpack into tmp_zip, rename to the target directory
UnpackArchive ==
    /\ ppc = "install"
    /\ current \in BinaryPull
    /\ ~Installed(target)
    /\ codeModules' = [codeModules EXCEPT ![target] = "full"]
    /\ ppc' = "current"
    /\ UNCHANGED <<clusterVars, currentLink, latest, volumeVars, hostVars, faults, deleted, ticker,
                   jobs, current, target, cleanupVars>>

\* image installer: layer after layer, going on when one fails to be unpacked
UnpackImage ==
    /\ ppc = "install"
    /\ current \in ImagePull
    /\ ~Installed(target)
    /\ \/ /\ codeModules' = [codeModules EXCEPT ![target] = "full"]
          /\ UNCHANGED faults
       \/ /\ codeModules' = [codeModules EXCEPT ![target] = "partial"]
          /\ Fault
    /\ ppc' = "current"
    /\ UNCHANGED <<clusterVars, currentLink, latest, volumeVars, hostVars, deleted, ticker, jobs,
                   current, target, cleanupVars>>

\* the download failed, the tenant is unreachable, the archive is broken; or, for a job, the
\* API server did not answer
InstallFails ==
    /\ ppc = "install"
    /\ current \in JobPull \/ ~Installed(target)
    /\ Fault
    /\ Requeued
    /\ UNCHANGED <<clusterVars, binaryVars, volumeVars, hostVars, deleted, ticker, jobs, cleanupVars>>

(***************************************************************************)
(* The job installer only looks: at the directory, then at the job.        *)
(***************************************************************************)
JobDone ==
    /\ ppc = "install"
    /\ current \in JobPull
    /\ Installed(target)
    /\ jobs' = [jobs EXCEPT ![target] = "none"]
    /\ ppc' = "current"
    /\ UNCHANGED <<clusterVars, binaryVars, volumeVars, hostVars, faults, deleted, ticker, current,
                   target, cleanupVars>>

JobNotReady ==
    /\ ppc = "install"
    /\ current \in JobPull
    /\ ~Installed(target)
    /\ jobs' = [jobs EXCEPT ![target] = IF @ = "none" THEN "running" ELSE @]
    /\ Requeued
    /\ UNCHANGED <<clusterVars, binaryVars, volumeVars, hostVars, faults, deleted, ticker, cleanupVars>>

(***************************************************************************)
(* symlink.CreateForCurrentVersionIfNotExists; the directory goes when it  *)
(* fails, which it can although the link is there: the version is looked   *)
(* up in the directory first.                                              *)
(***************************************************************************)
LinkCurrentVersion ==
    /\ ppc = "current"
    /\ \/ /\ currentLink' = currentLink \cup {target}
          /\ ppc' = "unlink"
          /\ UNCHANGED <<codeModules, faults, Locals>>
       \/ /\ Fault
          /\ codeModules' = [codeModules EXCEPT ![target] = "absent"]
          /\ currentLink' = currentLink \ {target}
          /\ Requeued
    /\ UNCHANGED <<clusterVars, latest, volumeVars, hostVars, deleted, ticker, jobs, cleanupVars>>

\* Mutant: leaves an existing symlink to symlink.Create
SkipRemoveSymlink ==
    /\ ppc = "unlink"
    /\ ppc' = "link"
    /\ UNCHANGED <<clusterVars, binaryVars, volumeVars, hostVars, faults, deleted, ticker, jobs,
                   Locals, cleanupVars>>
\* createLatestVersionSymlink: symlink.Remove, then symlink.Create
RemoveLatestSymlink ==
    /\ ppc = "unlink"
    /\ latest' = [latest EXCEPT ![current] = NoVersion]
    /\ ppc' = "link"
    /\ UNCHANGED <<clusterVars, codeModules, currentLink, volumeVars, hostVars, faults, deleted,
                   ticker, jobs, current, target, cleanupVars>>

\* symlink.Create does nothing when the path resolves
CreateLatestSymlink ==
    /\ ppc = "link"
    /\ latest' = [latest EXCEPT ![current] = IF LatestResolves(current) THEN @ ELSE target]
    /\ RunCleaner
    /\ UNCHANGED <<clusterVars, codeModules, currentLink, volumeVars, hostVars, faults, deleted,
                   ticker, jobs, cleanupVars>>

-----------------------------------------------------------------------------
(* Cleaner.run.                                                            *)

NoCleanup ==
    /\ scannedBins' = {} /\ scannedHosts' = {} /\ unknownDirs' = {}
    /\ listed' = NothingListed
    /\ keptBins' = {} /\ todo' = {}

\* the deferred reset of the ticker
CleanerReturns == ppc' = "idle" /\ ticker' = "running" /\ NoCleanup

\* getFilesystemState: stat of the symlink and of the osagent directory of each DynaKube dir
ScanFilesystem ==
    /\ ppc = "scan"
    /\ scannedBins' = {dk \in DynaKube : LatestResolves(dk)}
    /\ scannedHosts' = osAgentDirs
    /\ unknownDirs' = dynakubeDirs \ (scannedBins' \cup scannedHosts')
    /\ ppc' = "removeUnknown"
    /\ UNCHANGED <<clusterVars, binaryVars, volumeVars, hostVars, faults, deleted, ticker, jobs,
                   current, target, listed, keptBins, todo>>

(***************************************************************************)
(* RemoveAll of an osagent directory: the host volumes bound to it keep a  *)
(* mount, of a directory that is gone.                                     *)
(***************************************************************************)
RemoveOSAgentDirs(dks) ==
    /\ osAgentDirs' = osAgentDirs \ dks
    /\ hostMounts' = [vol \in HostVolume |->
          IF hostMounts[vol] = "live" /\ DynaKubeOf[vol] \in dks
          THEN "orphaned" ELSE hostMounts[vol]]

\* the deferred removal of the directories that had neither
RemoveUnknownDirs ==
    /\ ppc = "removeUnknown"
    /\ latest' = [dk \in DynaKube |-> IF dk \in unknownDirs THEN NoVersion ELSE latest[dk]]
    /\ podInfoLinks' = {vol \in podInfoLinks : DynaKubeOf[vol] \notin unknownDirs}
    /\ RemoveOSAgentDirs(unknownDirs)
    /\ dynakubeDirs' = dynakubeDirs \ unknownDirs
    /\ unknownDirs' = {}
    /\ ppc' = "list"
    /\ UNCHANGED <<clusterVars, codeModules, currentLink, appMountDirs, mounts, faults, deleted,
                   ticker, jobs, Locals, scannedBins, scannedHosts, listed, keptBins, todo>>

ListDynaKubes ==
    /\ ppc = "list"
    /\ \/ /\ listed' = [dk \in DynaKube |-> [relevant |-> dk \in RelevantDynaKubes,
                            app  |-> dk \in exists /\ spec[dk].app,
                            host |-> dk \in exists /\ spec[dk].host]]
          /\ ppc' = "removeHosts"
          /\ UNCHANGED <<faults, ticker, scannedBins, scannedHosts, unknownDirs, keptBins, todo>>
       \/ Fault /\ CleanerReturns
    /\ UNCHANGED <<clusterVars, binaryVars, volumeVars, hostVars, deleted, jobs, Locals>>

(***************************************************************************)
(* removeHostMounts: an osagent directory is the source of the bind        *)
(* mounts, never a mount point itself, so only the DynaKubes keep it.      *)
(***************************************************************************)
RelevantHostDirs == {dk \in DynaKube : listed[dk].host}

RemoveHostMounts ==
    /\ ppc = "removeHosts"
    /\ RemoveOSAgentDirs(scannedHosts \ RelevantHostDirs)
    /\ ppc' = "removeLinks"
    /\ UNCHANGED <<clusterVars, binaryVars, volumeVars, dynakubeDirs, faults, deleted, ticker, jobs, current,
                   target, cleanupVars>>

RemoveOldBinarySymlinks ==
    /\ ppc = "removeLinks"
    /\ latest' = [dk \in DynaKube |->
          IF dk \in scannedBins /\ ~listed[dk].relevant THEN NoVersion ELSE latest[dk]]
    /\ ppc' = "mounts"
    /\ UNCHANGED <<clusterVars, codeModules, currentLink, volumeVars, hostVars, faults, deleted,
                   ticker, jobs, current, target, cleanupVars>>

(***************************************************************************)
(* collectStillMountedBins: of the overlays in the mount table, the ones   *)
(* whose path lies under the data directory.                               *)
(***************************************************************************)
StillMountedBins == {m.lower : m \in {n \in mounts : n.path = "mapped"}}

CollectStillMountedBins ==
    /\ ppc = "mounts"
    /\ \/ /\ keptBins' = StillMountedBins
          /\ ppc' = "latestBins"
          /\ UNCHANGED <<faults, ticker, scannedBins, scannedHosts, unknownDirs, listed, todo>>
       \/ Fault /\ CleanerReturns
    /\ UNCHANGED <<clusterVars, binaryVars, volumeVars, hostVars, deleted, jobs, Locals>>

\* Mutant: the symlinks of the DynaKubes with host agents, not of those with app injection
HostLatestBins ==
    {latest[dk] : dk \in {d \in DynaKube : listed[d].host /\ latest[d] # NoVersion}}
\* Mutant: every module counts as the latest of some DynaKube
EveryBin == InstalledVersions
RelevantLatestBins ==
    {latest[dk] : dk \in {d \in DynaKube : listed[d].app /\ latest[d] # NoVersion}}

CollectRelevantLatestBins ==
    /\ ppc = "latestBins"
    /\ keptBins' = keptBins \cup RelevantLatestBins
    /\ ppc' = "readBins"
    /\ UNCHANGED <<clusterVars, binaryVars, volumeVars, hostVars, faults, deleted, ticker, jobs,
                   current, target, scannedBins, scannedHosts, unknownDirs, listed, todo>>

ReadSharedBinaries ==
    /\ ppc = "readBins"
    /\ todo' = InstalledVersions
    /\ ppc' = "removeBins"
    /\ UNCHANGED <<clusterVars, binaryVars, volumeVars, hostVars, faults, deleted, ticker, jobs,
                   current, target, scannedBins, scannedHosts, unknownDirs, listed, keptBins>>

\* removeOldSharedBinaries: one entry of the directory
RemoveOldSharedBinary(v) ==
    /\ ppc = "removeBins"
    /\ v \in todo
    /\ todo' = todo \ {v}
    /\ codeModules' = IF v \in keptBins THEN codeModules ELSE [codeModules EXCEPT ![v] = "absent"]
    /\ currentLink' = IF v \in keptBins THEN currentLink ELSE currentLink \ {v}
    /\ UNCHANGED <<clusterVars, latest, volumeVars, hostVars, faults, deleted, ticker, jobs,
                   workerVars, scannedBins, scannedHosts, unknownDirs, listed, keptBins>>

CleanerDone ==
    /\ ppc = "removeBins"
    /\ todo = {}
    /\ CleanerReturns
    /\ UNCHANGED <<clusterVars, binaryVars, volumeVars, hostVars, faults, deleted, jobs, Locals>>

-----------------------------------------------------------------------------
(* The download jobs (the bootstrapper of another repository moves the     *)
(* finished directory into place) and a restart of the container.          *)

JobMovesBinary(v) ==
    /\ jobs[v] = "running"
    /\ codeModules' = [codeModules EXCEPT ![v] = "full"]
    /\ jobs' = [jobs EXCEPT ![v] = "succeeded"]
    /\ UNCHANGED <<clusterVars, currentLink, latest, volumeVars, hostVars, faults, deleted, ticker,
                   workerVars, cleanupVars>>

JobFails(v) ==
    /\ jobs[v] = "running"
    /\ Fault
    /\ jobs' = [jobs EXCEPT ![v] = "failed"]
    /\ UNCHANGED <<clusterVars, binaryVars, volumeVars, hostVars, deleted, ticker, workerVars,
                   cleanupVars>>

\* ttlSecondsAfterFinished
JobExpires(v) ==
    /\ jobs[v] \in {"succeeded", "failed"}
    /\ jobs' = [jobs EXCEPT ![v] = "none"]
    /\ UNCHANGED <<clusterVars, binaryVars, volumeVars, hostVars, faults, deleted, ticker, workerVars,
                   cleanupVars>>

(***************************************************************************)
(* A new process lists the DynaKubes that exist; deletions it missed are   *)
(* not in its workqueue, and its ticker is unset.                          *)
(***************************************************************************)
ProvisionerRestarts ==
    /\ Fault
    /\ ppc' = "idle"
    /\ deleted' = {}
    /\ ticker' = "unset"
    /\ NoLocals
    /\ NoCleanup
    /\ UNCHANGED <<clusterVars, binaryVars, volumeVars, hostVars, jobs>>

Installer ==
    \/ AlreadyInstalled \/ UnpackArchive \/ UnpackImage \/ InstallFails
    \/ JobDone \/ JobNotReady
    \/ LinkCurrentVersion \/ RemoveLatestSymlink \/ CreateLatestSymlink

Cleaner ==
    \/ ScanFilesystem \/ RemoveUnknownDirs \/ ListDynaKubes \/ RemoveHostMounts
    \/ RemoveOldBinarySymlinks \/ CollectStillMountedBins \/ CollectRelevantLatestBins
    \/ ReadSharedBinaries \/ CleanerDone
    \/ \E v \in Version : RemoveOldSharedBinary(v)

Jobs == \E v \in Version : JobMovesBinary(v) \/ JobFails(v) \/ JobExpires(v)

ProvisionerNext ==
    \/ Installer \/ Cleaner \/ Jobs
    \/ TickerFires \/ ProvisionerRestarts
    \/ \E dk \in DynaKube :
          ApplyDynaKube(dk) \/ DeleteDynaKube(dk) \/ Reconcile(dk)
=============================================================================
