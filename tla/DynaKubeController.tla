------------------------- MODULE DynaKubeController -------------------------
(***************************************************************************)
(* The reconcile of one DynaKube.  A single worker reads the DynaKube,     *)
(* walks through the pipeline of DynaKubeObjects, judges the phase and     *)
(* writes the status back once, at the end.  What exists in the cluster is *)
(* remembered by the conditions of that status: most cleanups do nothing   *)
(* when their condition is missing.  The worker holds a copy of the status *)
(* until the write, which is skipped when the tenant cannot be reached and *)
(* refused, silently, when somebody edited the DynaKube in between.        *)
(***************************************************************************)
EXTENDS DynaKubeObjects, FiniteSetsExt

CONSTANTS
    Objects,             \* the managed objects looked at
    Features,            \* the features users switch on and off
    BrokenCalls,         \* environment: objects whose setup always fails
    EndpointsNeedActiveGate, \* environment: OneAgents reach the tenant through the ActiveGate only
    EditsWhileReconciling,   \* environment: users edit the DynaKube during a reconcile
    Fragile,             \* environment: objects somebody may delete behind the operator's back
    MaxEdits,            \* bound: edits of the spec, deleted objects
    MaxFaults            \* bound: failing calls, lost answers, crashes

ASSUME DynaKubeAssumption ==
    /\ Objects \subseteq ManagedObject
    /\ "agStatefulSet" \in Objects
    /\ \A o \in Objects : Definition[o].condition \in Objects
    /\ Features \subseteq Feature
    /\ BrokenCalls \subseteq Objects
    /\ Fragile \subseteq Objects
    /\ EndpointsNeedActiveGate \in BOOLEAN
    /\ EditsWhileReconciling \in BOOLEAN
    /\ MaxEdits \in Nat
    /\ MaxFaults \in Nat

VARIABLES
    spec,           \* the features the DynaKube asks for
    objects,        \* the managed objects of the API server
    rollout,        \* the pods of the workloads
    stored,         \* the status of the DynaKube: conditions and phase
    pc,             \* what the worker does next
    at,             \* its step in the pipeline, 0 outside of it
    specRead,       \* its copy of the spec
    status,         \* its copy of the status
    edited,         \* the DynaKube changed since the worker last read or wrote it
    failed,         \* a component returned an error
    unreachable,    \* one of those errors says that the tenant is overloaded
    lost,           \* history: the status lost track of an object
    edits, faults

clusterVars == <<spec, objects, rollout, stored>>
workerVars  == <<pc, at, specRead, status, edited, failed, unreachable>>
vars == <<clusterVars, workerVars, lost, edits, faults>>

Workloads == {o \in Objects : Definition[o].kind # "config"}

Existence == {"absent", "outdated", "current"}
Rollout == {"fresh", "stale", "rolling", "complete"}
Condition == {"none", "ok", "error"}
Phase == {"", "Deploying", "Running", "Error"}
Status == [conds : [Objects -> Condition], phase : Phase]
NoStatus == [conds |-> [o \in Objects |-> "none"], phase |-> ""]

PC == {"idle", "component", "persist", "phase", "status"}

TypeOK ==
    /\ spec \subseteq Features
    /\ objects \in [Objects -> Existence]
    /\ rollout \in [Workloads -> Rollout]
    /\ stored \in Status
    /\ pc \in PC
    /\ at \in 0..Len(Pipeline)
    /\ specRead \subseteq Features
    /\ status \in Status
    /\ edited \in BOOLEAN
    /\ failed \in BOOLEAN
    /\ unreachable \in BOOLEAN
    /\ lost \in BOOLEAN
    /\ edits \in 0..MaxEdits
    /\ faults \in 0..MaxFaults

Init ==
    /\ spec \in SUBSET Features
    /\ objects = [o \in Objects |-> "absent"]
    /\ rollout = [o \in Workloads |-> "complete"]
    /\ stored = NoStatus
    /\ pc = "idle"
    /\ at = 0
    /\ specRead = {}
    /\ status = NoStatus
    /\ edited = FALSE
    /\ failed = FALSE
    /\ unreachable = FALSE
    /\ lost = FALSE
    /\ edits = 0
    /\ faults = 0

Needed(o, features) ==
    /\ Definition[o].neededBy \cap features # {}
    /\ Definition[o].unless \cap features = {}

Exists(o) == objects[o] # "absent"
ConditionOf(o) == status.conds[Definition[o].condition]

-----------------------------------------------------------------------------
(* The environment: users, new versions, and the controllers of Kubernetes.*)

Edit == edits < MaxEdits /\ edits' = edits + 1
Fault == faults < MaxFaults /\ faults' = faults + 1

FeatureSwitched(f) ==
    /\ Edit
    /\ EditsWhileReconciling \/ pc = "idle"
    /\ spec' = (spec \ {f}) \cup ({f} \ spec)
    /\ edited' = (pc # "idle")
    /\ UNCHANGED <<objects, rollout, stored, pc, at, specRead, status, failed, unreachable, lost, faults>>

\* a template of the spec, a version of the tenant or an expired token asks for another content
ContentChanges(o) ==
    /\ Edit
    /\ EditsWhileReconciling \/ pc = "idle"
    /\ Definition[o].reported # "onCreate"
    /\ objects[o] = "current"
    /\ objects' = [objects EXCEPT ![o] = "outdated"]
    /\ edited' = (pc # "idle")
    /\ UNCHANGED <<spec, rollout, stored, pc, at, specRead, status, failed, unreachable, lost, faults>>

ObjectDisappears(o) ==
    /\ Edit
    /\ Exists(o)
    /\ objects' = [objects EXCEPT ![o] = "absent"]
    /\ UNCHANGED <<spec, rollout, stored, workerVars, lost, faults>>

\* the controller of the workload observes it, replaces its pods, and they become ready
RolloutProgress(o) ==
    /\ Exists(o)
    /\ rollout[o] # "complete"
    /\ rollout' = [rollout EXCEPT ![o] = IF @ = "rolling" THEN "complete" ELSE "rolling"]
    /\ UNCHANGED <<spec, objects, stored, workerVars, lost, edits, faults>>

-----------------------------------------------------------------------------
(* The walk through the pipeline.                                          *)

Steps == {i \in DOMAIN Pipeline : Pipeline[i].object \in Objects}
Following(i) == {j \in Steps : j > i}
NextComponents(i) == {j \in Following(i) : Pipeline[j].component # Pipeline[i].component}

GoTo(steps) ==
    IF steps = {} THEN pc' = "phase" /\ at' = 0
                  ELSE pc' = "component" /\ at' = Min(steps)

\* Mutant: the first error ends the reconcile
ErrorEndsReconcile == failed' = TRUE /\ GoTo({})

\* the error of a component is collected; one of the setup ends the reconcile
ComponentFails ==
    /\ failed' = TRUE
    /\ IF Pipeline[at].component = "setup" THEN GoTo({}) ELSE GoTo(NextComponents(at))

SetCondition(c, value) == status' = [status EXCEPT !.conds[c] = value]

\* the tokens and the API URL are checked before anything else
Reconcile ==
    /\ pc = "idle"
    /\ specRead' = spec
    /\ status' = stored
    /\ edited' = FALSE
    /\ \/ failed' = FALSE /\ unreachable' = FALSE /\ GoTo(Steps) /\ UNCHANGED faults
       \/ failed' = TRUE /\ unreachable' \in BOOLEAN /\ GoTo({}) /\ Fault
    /\ UNCHANGED <<clusterVars, lost, edits>>

\* Mutant: a disabled ActiveGate is skipped although it was deployed
SkippedWhenDisabled ==
    Pipeline[at].component = "activeGate" /\ ~Needed("agStatefulSet", specRead)

\* a disabled ActiveGate is skipped as a whole unless its StatefulSet has a condition
ActiveGateIsSkipped ==
    /\ Pipeline[at].component = "activeGate"
    /\ ~Needed("agStatefulSet", specRead)
    /\ ConditionOf("agStatefulSet") = "none"

SetsUp(i) == Pipeline[i].does \in {"both", "setUp"} /\ Needed(Pipeline[i].object, specRead)

\* Mutant: every cleanup looks at the condition first
CleansUpByCondition(i) ==
    /\ Pipeline[i].does \in {"both", "cleanUp"}
    /\ ~Needed(Pipeline[i].object, specRead)
    /\ Definition[Pipeline[i].object].cleanup # "never"
    /\ ConditionOf(Pipeline[i].object) # "none"

CleansUp(i) ==
    /\ Pipeline[i].does \in {"both", "cleanUp"}
    /\ ~Needed(Pipeline[i].object, specRead)
    /\ Definition[Pipeline[i].object].cleanup # "never"
    /\ Definition[Pipeline[i].object].guarded => ConditionOf(Pipeline[i].object) # "none"

DeletesActiveGate(i) == Pipeline[i].does \in {"delete", "forget"} /\ ~Needed("agStatefulSet", specRead)

AtStepOf(o) == pc = "component" /\ ~ActiveGateIsSkipped /\ Pipeline[at].object = o

SkipActiveGate ==
    /\ pc = "component"
    /\ ActiveGateIsSkipped
    /\ GoTo(NextComponents(at))
    /\ UNCHANGED <<clusterVars, specRead, status, edited, failed, unreachable, lost, edits, faults>>

SkipStep ==
    /\ pc = "component"
    /\ ~ActiveGateIsSkipped
    /\ ~SetsUp(at) /\ ~CleansUp(at) /\ ~DeletesActiveGate(at)
    /\ GoTo(Following(at))
    /\ UNCHANGED <<clusterVars, specRead, status, edited, failed, unreachable, lost, edits, faults>>

-----------------------------------------------------------------------------
(* One step of the pipeline.                                               *)

\* the tenant knows no communication endpoints as long as no ActiveGate serves it
Postponed(o) ==
    /\ o = "oaTenantSecret"
    /\ EndpointsNeedActiveGate
    /\ ~(Exists("agStatefulSet") /\ rollout["agStatefulSet"] = "complete")

\* Mutant: the condition is only set on a change
ReportedOnChange(o) == objects[o] # "current"

Reported(o) ==
    LET how == Definition[o].reported
    IN  \/ how = "always"
        \/ how = "onChange" /\ objects[o] # "current"
        \/ how = "onCreate" /\ objects[o] = "absent"

ShowsErrors(o) == Definition[o].reported # "never" \/ Definition[o].condition # o

\* created with no pods yet, or updated with the pods of its previous content
RolledOut(o) ==
    rollout' = IF o \notin Workloads \/ objects[o] = "current" THEN rollout
               ELSE IF objects[o] = "absent" THEN [rollout EXCEPT ![o] = "fresh"]
               ELSE [rollout EXCEPT ![o] = IF @ = "complete" THEN "stale" ELSE @]

\* new connection information is written to the status right away
SetUp(o) ==
    /\ AtStepOf(o)
    /\ SetsUp(at)
    /\ ~Postponed(o)
    /\ o \notin BrokenCalls
    /\ \A r \in Definition[o].reads \cap Objects : Exists(r)
    /\ objects' = [objects EXCEPT ![o] = "current"]
    /\ RolledOut(o)
    /\ IF Reported(o) THEN SetCondition(Definition[o].condition, "ok") ELSE UNCHANGED status
    /\ \/ (o # "oaTenantSecret" \/ status' = status) /\ GoTo(Following(at))
       \/ o = "oaTenantSecret" /\ pc' = "persist" /\ UNCHANGED at
    /\ UNCHANGED <<spec, stored, specRead, edited, failed, unreachable, lost, edits, faults>>

\* the call failed, although it may have taken effect
MaybeDone(o) ==
    \/ UNCHANGED <<objects, rollout>>
    \/ faults' # faults /\ objects' = [objects EXCEPT ![o] = "current"] /\ RolledOut(o)
    \/ /\ o = "agAuthToken" /\ objects[o] = "outdated"
       /\ objects' = [objects EXCEPT ![o] = "absent"]
       /\ UNCHANGED rollout

SetUpFails(o) ==
    /\ AtStepOf(o)
    /\ SetsUp(at)
    /\ ~Postponed(o)
    /\ \/ Fault
       \/ /\ \/ o \in BrokenCalls
             \/ \E r \in Definition[o].reads \cap Objects : ~Exists(r)
          /\ UNCHANGED faults
    /\ MaybeDone(o)
    /\ \/ IF ShowsErrors(o) THEN SetCondition(Definition[o].condition, "error") ELSE UNCHANGED status
       \/ Definition[o].silent /\ UNCHANGED <<objects, status>>
    /\ \/ UNCHANGED unreachable
       \/ Definition[o].tenant /\ o \notin BrokenCalls /\ unreachable' = TRUE
    /\ ComponentFails
    /\ UNCHANGED <<spec, stored, specRead, edited, lost, edits>>

\* no error, but the rest of the reconcile is left to the next one
Postpone ==
    /\ pc = "component"
    /\ ~ActiveGateIsSkipped
    /\ SetsUp(at)
    /\ Postponed(Pipeline[at].object)
    /\ SetCondition("oaTenantSecret", "error")
    /\ GoTo({})
    /\ UNCHANGED <<clusterVars, specRead, edited, failed, unreachable, lost, edits, faults>>

\* DynaKube.UpdateStatus: a conflict is not an error, and nothing is written
Written(s) == stored' = IF edited THEN stored ELSE s

PersistStatus ==
    /\ pc = "persist"
    /\ \/ Written(status) /\ GoTo(Following(at)) /\ UNCHANGED <<failed, faults>>
       \/ Fault /\ stored' \in {stored, status} /\ ComponentFails
    /\ UNCHANGED <<spec, objects, rollout, specRead, status, edited, unreachable, lost, edits>>

Deleted(o) ==
    /\ objects' = [objects EXCEPT ![o] = "absent"]
    /\ rollout' = IF o \in Workloads THEN [rollout EXCEPT ![o] = "complete"] ELSE rollout

\* Mutant: a shared condition is dropped with the first object
DropShared(o) == SetCondition(Definition[o].condition, "none")
\* a shared condition is dropped with the object it is named after
DropCondition(o) == IF Definition[o].condition = o THEN SetCondition(o, "none") ELSE UNCHANGED status

CleanUp(o) ==
    /\ AtStepOf(o)
    /\ CleansUp(at)
    /\ Deleted(o)
    /\ DropCondition(o)
    /\ GoTo(Following(at))
    /\ UNCHANGED <<spec, stored, specRead, edited, failed, unreachable, lost, edits, faults>>

CleanUpFails(o) ==
    /\ AtStepOf(o)
    /\ CleansUp(at)
    /\ Fault
    /\ LET how == Definition[o].cleanup
       IN  /\ CASE how \in {"forget", "forgetAndFail"} -> DropCondition(o)
                 [] how = "report" -> SetCondition(o, "error")
                 [] OTHER -> UNCHANGED status
           /\ IF how = "forget" THEN GoTo(Following(at)) /\ UNCHANGED failed ELSE ComponentFails
           /\ lost' = (lost \/ how \in {"forget", "forgetAndFail"})
    /\ UNCHANGED <<clusterVars, specRead, edited, unreachable, edits>>

DeleteActiveGate ==
    /\ pc = "component"
    /\ ~ActiveGateIsSkipped
    /\ DeletesActiveGate(at)
    /\ \/ /\ Pipeline[at].does = "delete" /\ Deleted("agStatefulSet")
          /\ GoTo(Following(at))
          /\ UNCHANGED <<status, failed, faults>>
       \/ /\ Pipeline[at].does = "delete" /\ Fault
          /\ ComponentFails
          /\ UNCHANGED <<objects, rollout, status>>
       \/ /\ Pipeline[at].does = "forget" /\ SetCondition("agStatefulSet", "none")
          /\ GoTo(Following(at))
          /\ UNCHANGED <<objects, rollout, failed, faults>>
    /\ UNCHANGED <<spec, stored, specRead, edited, unreachable, lost, edits>>

-----------------------------------------------------------------------------
(* The end of a reconcile.                                                 *)

\* pods are counted in three ways; only one of them notices that the count is of the previous content
PodsMissing(o) ==
    CASE Definition[o].kind = "replicas"   -> rollout[o] \in {"fresh", "rolling"}
      [] Definition[o].kind = "generation" -> rollout[o] # "complete"
      [] Definition[o].kind = "daemonSet"  -> rollout[o] = "rolling"

\* Mutant: a workload that was not found counts as running
PhaseOfExisting ==
    IF \E o \in Workloads : Needed(o, specRead) /\ Exists(o) /\ PodsMissing(o)
    THEN "Deploying" ELSE "Running"

DeterminedPhase ==
    IF \E o \in Workloads : Needed(o, specRead) /\ (~Exists(o) \/ PodsMissing(o))
    THEN "Deploying" ELSE "Running"

Done ==
    /\ pc' = "idle"
    /\ at' = 0
    /\ specRead' = {}
    /\ status' = NoStatus
    /\ edited' = FALSE
    /\ failed' = FALSE
    /\ unreachable' = FALSE

StatusIsDropped == lost' = (lost \/ status.conds # stored.conds)

\* the workloads that cannot be read make the phase an error as well
DeterminePhase ==
    /\ pc = "phase"
    /\ ~unreachable
    /\ pc' = "status"
    /\ \/ status' = [status EXCEPT !.phase = IF failed THEN "Error" ELSE DeterminedPhase]
          /\ UNCHANGED faults
       \/ Fault /\ status' = [status EXCEPT !.phase = "Error"]
    /\ UNCHANGED <<clusterVars, at, specRead, edited, failed, unreachable, lost, edits>>

\* the request is repeated in a minute, and nothing is written
TenantUnreachable ==
    /\ pc = "phase"
    /\ unreachable
    /\ StatusIsDropped
    /\ Done
    /\ UNCHANGED <<clusterVars, edits, faults>>

WriteStatus ==
    /\ pc = "status"
    /\ \/ /\ Written(status)
          /\ IF edited THEN StatusIsDropped ELSE UNCHANGED lost
          /\ UNCHANGED faults
       \/ /\ Fault
          /\ \/ UNCHANGED stored /\ StatusIsDropped
             \/ Written(status) /\ ~edited /\ UNCHANGED lost
    /\ Done
    /\ UNCHANGED <<spec, objects, rollout, edits>>

OperatorCrashes ==
    /\ pc # "idle"
    /\ Fault
    /\ lost' = TRUE
    /\ Done
    /\ UNCHANGED <<clusterVars, edits>>

-----------------------------------------------------------------------------
Worker ==
    \/ Reconcile
    \/ SkipActiveGate \/ SkipStep
    \/ \E o \in Objects : SetUp(o) \/ SetUpFails(o) \/ CleanUp(o) \/ CleanUpFails(o)
    \/ Postpone \/ DeleteActiveGate \/ PersistStatus
    \/ DeterminePhase \/ TenantUnreachable \/ WriteStatus

Environment ==
    \/ \E f \in Features : FeatureSwitched(f)
    \/ \E o \in Objects : ContentChanges(o)
    \/ \E o \in Fragile : ObjectDisappears(o)
    \/ \E o \in Workloads : RolloutProgress(o)
    \/ OperatorCrashes

Next == Worker \/ Environment

Spec == Init /\ [][Next]_vars

\* every result is followed by another reconcile, and rollouts make progress
Fairness ==
    /\ WF_vars(Worker)
    /\ \A o \in Workloads : WF_vars(RolloutProgress(o))

FairSpec == Spec /\ Fairness

-----------------------------------------------------------------------------
(* Properties.                                                             *)

\* the objects whose cleanup looks at a condition first
Guarded == {o \in Objects : Definition[o].guarded}

(* Between two reconciles every object that is cleaned up by its condition  *)
(* has that condition in the stored status, unless a status was dropped,    *)
(* the operator crashed or a failing delete was passed over.                *)
NothingIsForgotten ==
    (pc = "idle" /\ ~lost) =>
        \A o \in Guarded : Exists(o) => stored.conds[Definition[o].condition] # "none"

\* the endpoints of the OneAgents stay unknown
NeverReached(features) ==
    /\ EndpointsNeedActiveGate
    /\ "oaTenantSecret" \in Objects
    /\ Needed("oaTenantSecret", features)
    /\ ~Needed("agStatefulSet", features)

\* a step that never gets past a broken call
Stuck(i, features) ==
    \/ \E j \in Steps :
          /\ j <= i /\ Pipeline[j].component = Pipeline[i].component
          /\ Pipeline[j].does # "cleanUp"
          /\ Pipeline[j].object \in BrokenCalls /\ Needed(Pipeline[j].object, features)
    \/ NeverReached(features) /\ i >= Min({j \in Steps : Pipeline[j].object = "oaTenantSecret"})

Blocked(o, features) == \A i \in Steps : Pipeline[i].object = o => Stuck(i, features)

(* Whatever the spec asks for is there in the end, with the content it asks *)
(* for: the errors of one component do not keep the others from theirs.     *)
EnabledIsDeployed ==
    <>[](\A o \in Objects : (Needed(o, spec) /\ ~Blocked(o, spec)) => objects[o] = "current")

(* Whatever the spec asks for no longer is gone in the end, unless a call   *)
(* failed or the status was lost in a conflict on the way.                  *)
DisabledIsRemoved ==
    <>[](\A o \in Objects :
            (~Needed(o, spec) /\ ~Blocked(o, spec) /\ Definition[o].cleanup # "never")
                => (~Exists(o) \/ faults > 0 \/ lost))

\* the objects whose cleanup depends on nothing that could be lost
Unconditional ==
    {o \in Objects : /\ ~Definition[o].guarded /\ Definition[o].cleanup # "never"
                     /\ \A i \in Steps : Pipeline[i].object = o => Pipeline[i].component # "activeGate"}

(* Objects that are cleaned up without a look at the status (deployment     *)
(* metadata, proxy secret, database executors) are gone in the end even if  *)
(* the status was lost on the way.                                          *)
RemovedWhateverIsLost ==
    <>[](\A o \in Unconditional : Needed(o, spec) \/ ~Exists(o))

\* the phase that a DynaKube whose workloads are ready settles in
SettledPhase ==
    IF \E o \in BrokenCalls : Needed(o, spec) THEN "Error"
    ELSE IF \E o \in Workloads : Needed(o, spec) /\ Blocked(o, spec) /\ ~Exists(o)
         THEN "Deploying" ELSE "Running"

(* The stored phase settles in what the cluster has come to.                *)
PhaseSettles == <>[](stored.phase = SettledPhase)

(* A condition that showed an error says so no longer once the setup works. *)
ErrorsHeal ==
    <>[](\A o \in Objects :
            (Definition[o].reported = "always" /\ Needed(o, spec) /\ ~Blocked(o, spec))
                => stored.conds[o] = "ok")

=============================================================================
