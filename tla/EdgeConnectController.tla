------------------------ MODULE EdgeConnectController ------------------------
(***************************************************************************)
(* The EdgeConnect controller: one EdgeConnect resource of the cluster, the *)
(* objects of the same name at the tenant, the secrets and the Deployment  *)
(* that connect the two.  The controller works on a copy of the resource   *)
(* (ec), one call to the API server or the tenant per step; users edit,    *)
(* delete and create the resource and the tenant's objects meanwhile.      *)
(***************************************************************************)
EXTENDS Naturals, FiniteSets

CONSTANTS
    Token,          \* random tokens of the connection setting
    NoToken,
    MaxIds,         \* bound on the objects created at the tenant
    MaxIncarnations,\* bound on the resources created under the one name
    MaxEdits,       \* bound on the changes users make
    MaxFaults       \* bound on failing calls, lost answers and crashes

ASSUME TokenAssumption == NoToken \notin Token
ASSUME BoundAssumption == {MaxIds, MaxIncarnations, MaxEdits, MaxFaults} \subseteq Nat /\ MaxIds >= 1 /\ MaxIncarnations >= 1
\* no token runs out: whatever three places hold, a new one can be drawn
ASSUME FreshAssumption == \A a, b, c \in Token \cup {NoToken} : Token \ {a, b, c} # {}

VARIABLES
    cr,           \* the resource in the API server; uid 0: there is none
    edited,       \* changed since the controller read it (resource version)
    tenant,       \* the tenant's EdgeConnects of this name
    lastId,       \* the last id the tenant gave away
    setting,      \* token of the connection setting of this cluster
    clientSecret, \* id of the tenant's object the client secret is for
    configSecret, \* credentials and token in the configuration of the pods
    deployment,   \* configuration and image the pods run with
    pc,           \* the next call of the worker
    ec,           \* its copy of the resource, with the status it will write
    found,        \* id it found at the tenant, or got when it created one
    built,        \* the configuration it made in this reconcile
    failed,       \* the current reconcile returns an error
    interrupted,  \* history: a deletion was cut short after the finalizer went
    edits, faults

apiServer == <<cr, edited, clientSecret, configSecret, deployment>>
vars == <<cr, edited, tenant, lastId, setting, clientSecret, configSecret, deployment,
          pc, ec, found, built, failed, interrupted, edits, faults>>

Image == {"public", "custom"}
NoCR == [uid |-> 0, deleting |-> FALSE, finalizer |-> FALSE, provisioner |-> FALSE,
         automation |-> FALSE, image |-> "public", imageID |-> "none",
         kubeSystemUID |-> FALSE, phase |-> "none"]
Resource == [uid : 0..MaxIncarnations, deleting : BOOLEAN, finalizer : BOOLEAN, provisioner : BOOLEAN,
             automation : BOOLEAN, image : Image, imageID : Image \cup {"none"},
             kubeSystemUID : BOOLEAN, phase : {"none", "Error", "Deploying", "Running"}]

\* an object of owner 0 does not exist; id 0 in a configuration stands for the user's credentials
NoSecret == [owner |-> 0, id |-> 0]
NoConfig == [owner |-> 0, id |-> 0, token |-> NoToken]
NoDeployment == [owner |-> 0, config |-> NoConfig, image |-> "none"]

Id == 1..MaxIds
TenantObject == [id : Id, managed : BOOLEAN, hosts : SUBSET {"user", "kubernetes"}, creator : 0..MaxIncarnations]
Config == [owner : 0..MaxIncarnations, id : 0..MaxIds, token : Token \cup {NoToken}]

ManualObject(id) == [id |-> id, managed |-> FALSE, hosts |-> {"user"}, creator |-> 0]

ReconcileSteps == {"finalizer", "version", "kubeSystem", "list", "secretID", "recreate", "create",
    "saveSecret", "update", "config", "deployment", "setting"}
DeletionSteps == {"deletionSecret", "dropFinalizer", "deletionList", "deleteSetting", "deleteTenant"}

TypeOK ==
    /\ cr \in Resource
    /\ ec \in Resource
    /\ tenant \subseteq TenantObject
    /\ {lastId, found} \subseteq 0..MaxIds
    /\ setting \in Token \cup {NoToken}
    /\ clientSecret \in [owner : 0..MaxIncarnations, id : 0..MaxIds]
    /\ {configSecret, built} \subseteq Config
    /\ deployment \in [owner : 0..MaxIncarnations, config : Config, image : Image \cup {"none"}]
    /\ pc \in ReconcileSteps \cup DeletionSteps \cup {"idle", "status"}
    /\ {edited, failed, interrupted} \subseteq BOOLEAN
    /\ edits \in 0..MaxEdits
    /\ faults \in 0..MaxFaults

Init ==
    /\ \E provisioner, automation \in BOOLEAN, image \in Image :
         cr = [NoCR EXCEPT !.uid = 1, !.provisioner = provisioner, !.automation = automation, !.image = image]
    /\ tenant \in {{}, {ManualObject(1)}}
    /\ lastId = IF tenant = {} THEN 0 ELSE 1
    /\ setting = NoToken
    /\ clientSecret = NoSecret
    /\ configSecret = NoConfig
    /\ deployment = NoDeployment
    /\ pc = "idle"
    /\ ec = NoCR
    /\ found = 0
    /\ built = NoConfig
    /\ edited = FALSE
    /\ failed = FALSE
    /\ interrupted = FALSE
    /\ edits = 0
    /\ faults = 0

-----------------------------------------------------------------------------
(* What the code computes from the resource *)

\* the user's host patterns, and the API server's name for the Kubernetes automation
HostPatterns(res) == IF res.automation THEN {"user", "kubernetes"} ELSE {"user"}

Managed == {obj \in tenant : obj.managed}
Object(id) == CHOOSE obj \in tenant : obj.id = id
Ids == {obj.id : obj \in tenant}
Exists(obj) == obj.owner # 0

\* nobody else has drawn the same random token
FreshToken == CHOOSE t \in Token : t \notin {configSecret.token, setting, deployment.config.token}

-----------------------------------------------------------------------------
(* The worker: one reconcile *)

Goto(step) == pc' = step
EndReconcile == Goto("idle") /\ ec' = NoCR /\ found' = 0 /\ built' = NoConfig /\ failed' = FALSE
Fail ==
    IF pc \in DeletionSteps THEN EndReconcile
    ELSE Goto("status") /\ failed' = TRUE /\ UNCHANGED <<ec, found, built>>

Reconcile ==
    /\ pc = "idle"
    /\ cr.uid # 0
    /\ ec' = cr
    /\ edited' = FALSE
    /\ Goto(IF cr.deleting THEN "deletionSecret" ELSE "finalizer")
    /\ UNCHANGED <<cr, tenant, lastId, setting, clientSecret, configSecret, deployment,
                   found, built, failed, interrupted, edits, faults>>

\* updateFinalizers; the update is refused when the resource changed meanwhile
UpdateFinalizers ==
    /\ pc = "finalizer"
    /\ IF ec.provisioner /\ ~ec.finalizer
       THEN IF edited
            THEN Fail /\ UNCHANGED cr
            ELSE /\ cr' = [cr EXCEPT !.finalizer = TRUE]
                 /\ ec' = [ec EXCEPT !.finalizer = TRUE]
                 /\ Goto("version") /\ UNCHANGED <<found, built, failed>>
       ELSE Goto("version") /\ UNCHANGED <<cr, ec, found, built, failed>>
    /\ UNCHANGED <<edited, tenant, lastId, setting, clientSecret, configSecret, deployment,
                   interrupted, edits, faults>>

\* the version is looked up when the image changed, and every now and then
UpdateVersionInfo ==
    /\ pc = "version"
    /\ \E requestOutdated \in BOOLEAN :
         ec' = IF ec.imageID # ec.image \/ requestOutdated THEN [ec EXCEPT !.imageID = ec.image] ELSE ec
    /\ Goto("kubeSystem")
    /\ UNCHANGED <<apiServer, tenant, lastId, setting, found, built, failed, interrupted, edits, faults>>

SetKubeSystemUID ==
    /\ pc = "kubeSystem"
    /\ ec' = [ec EXCEPT !.kubeSystemUID = TRUE]
    /\ Goto(IF ec.provisioner THEN "list" ELSE "config")
    /\ UNCHANGED <<apiServer, tenant, lastId, setting, found, built, failed, interrupted, edits, faults>>

\* two objects of one name are an error; one that a user made is left alone, and ends the
\* reconcile after the client secret was read for nothing
ListEdgeConnects ==
    /\ pc = "list"
    /\ CASE Cardinality(tenant) > 1 -> Fail
         [] tenant = {} -> Goto("secretID") /\ UNCHANGED <<ec, found, built, failed>>
         [] OTHER -> \E obj \in tenant :
               /\ found' = IF obj.managed THEN obj.id ELSE 0
               /\ Goto(IF obj.managed THEN "secretID" ELSE "status")
               /\ UNCHANGED <<ec, built, failed>>
    /\ UNCHANGED <<apiServer, tenant, lastId, setting, interrupted, edits, faults>>

ReadSecretID ==
    /\ pc = "secretID"
    /\ Goto(CASE found = 0 -> "create"
              [] found # 0 /\ found # clientSecret.id -> "recreate"
              [] OTHER -> "update")
    /\ UNCHANGED <<apiServer, tenant, lastId, setting, ec, found, built, failed, interrupted, edits, faults>>

RemoveFromTenant(id) == tenant' = {obj \in tenant : obj.id # id}

\* Mutant: the object whose secret was lost is not deleted
KeepForRecreation ==
    /\ pc = "recreate"
    /\ Goto("create") /\ found' = 0
    /\ UNCHANGED <<apiServer, tenant, lastId, setting, ec, built, failed, interrupted, edits, faults>>
\* deleting what is already gone is an error of the tenant
DeleteForRecreation ==
    /\ pc = "recreate"
    /\ IF found \in Ids
       THEN Goto("create") /\ found' = 0 /\ UNCHANGED <<ec, built, failed>>
       ELSE Fail
    /\ RemoveFromTenant(found)
    /\ UNCHANGED <<apiServer, lastId, setting, interrupted, edits, faults>>

NewObject ==
    [id |-> lastId + 1, managed |-> TRUE, hosts |-> HostPatterns(ec), creator |-> ec.uid]

CreateAtTenant ==
    /\ pc = "create"
    /\ lastId < MaxIds
    /\ tenant' = tenant \cup {NewObject}
    /\ lastId' = lastId + 1
    /\ found' = lastId + 1
    /\ Goto("saveSecret")
    /\ UNCHANGED <<apiServer, setting, ec, built, failed, interrupted, edits, faults>>

SaveClientSecret ==
    /\ pc = "saveSecret"
    /\ clientSecret' = [owner |-> ec.uid, id |-> found]
    /\ Goto("config")
    /\ UNCHANGED <<cr, edited, configSecret, deployment, tenant, lastId, setting, ec, found, built, failed,
                   interrupted, edits, faults>>

\* the object is read again by the id in the secret, and changed if its hosts differ
UpdateAtTenant ==
    /\ pc = "update"
    /\ IF clientSecret.id \in Ids
       THEN /\ tenant' = {IF obj.id = clientSecret.id THEN [obj EXCEPT !.hosts = HostPatterns(ec)] ELSE obj
                            : obj \in tenant}
            /\ Goto("config") /\ UNCHANGED <<ec, found, built, failed>>
       ELSE Fail /\ UNCHANGED tenant
    /\ UNCHANGED <<apiServer, lastId, setting, interrupted, edits, faults>>

\* Mutant: the token of the configuration is not looked up
AlwaysFreshToken == IF ec.automation THEN FreshToken ELSE NoToken
\* the token survives in the configuration, as long as the automation is on
ConfigToken ==
    IF ~ec.automation THEN NoToken
    ELSE IF configSecret.token # NoToken THEN configSecret.token ELSE FreshToken

CreateOrUpdateConfigSecret ==
    /\ pc = "config"
    /\ IF ec.provisioner /\ ~Exists(clientSecret)
       THEN Fail /\ UNCHANGED <<configSecret, built>>
       ELSE /\ configSecret' = [owner |-> ec.uid, id |-> IF ec.provisioner THEN clientSecret.id ELSE 0,
                                token |-> ConfigToken]
            /\ built' = configSecret'
            /\ Goto("deployment") /\ UNCHANGED <<ec, found, failed>>
    /\ UNCHANGED <<cr, edited, clientSecret, deployment, tenant, lastId, setting, interrupted, edits, faults>>

\* Mutant: the pods are not restarted with a new configuration
ImageOnly ==
    /\ pc = "deployment"
    /\ deployment' = [owner |-> ec.uid, config |-> IF Exists(deployment) THEN deployment.config ELSE built,
                      image |-> ec.imageID]
    /\ Goto(IF ec.provisioner /\ ec.automation THEN "setting" ELSE "status")
    /\ UNCHANGED <<cr, edited, clientSecret, configSecret, tenant, lastId, setting, ec, found, built, failed,
                   interrupted, edits, faults>>
\* the annotation with the hash of the configuration restarts the pods
CreateOrUpdateDeployment ==
    /\ pc = "deployment"
    /\ deployment' = [owner |-> ec.uid, config |-> built, image |-> ec.imageID]
    /\ Goto(IF ec.provisioner /\ ec.automation THEN "setting" ELSE "status")
    /\ UNCHANGED <<cr, edited, clientSecret, configSecret, tenant, lastId, setting, ec, found, built, failed,
                   interrupted, edits, faults>>

CreateOrUpdateConnectionSetting ==
    /\ pc = "setting"
    /\ setting' = built.token
    /\ Goto("status")
    /\ UNCHANGED <<apiServer, tenant, lastId, ec, found, built, failed, interrupted, edits, faults>>

\* the Deployment becomes ready at its own pace
DeterminedPhase ==
    IF failed THEN {"Error"}
    ELSE IF Exists(deployment) THEN {"Deploying", "Running"} ELSE {"Deploying"}

WriteStatus ==
    /\ pc = "status"
    /\ \E phase \in DeterminedPhase :
         cr' = IF cr.uid = 0 \/ edited THEN cr   \* a conflict; the status is lost
               ELSE [cr EXCEPT !.imageID = ec.imageID, !.kubeSystemUID = ec.kubeSystemUID, !.phase = phase]
    /\ EndReconcile
    /\ UNCHANGED <<edited, tenant, lastId, setting, clientSecret, configSecret, deployment,
                   interrupted, edits, faults>>

-----------------------------------------------------------------------------
(* The worker: a deletion.  The finalizer goes first, so whatever fails    *)
(* afterwards is not repeated                                              *)

ReadSecretForDeletion ==
    /\ pc = "deletionSecret"
    /\ Goto("dropFinalizer")
    /\ UNCHANGED <<apiServer, tenant, lastId, setting, ec, found, built, failed, interrupted, edits, faults>>

DropFinalizer ==
    /\ pc = "dropFinalizer"
    /\ IF edited
       THEN EndReconcile /\ UNCHANGED cr
       ELSE cr' = NoCR /\ Goto("deletionList") /\ UNCHANGED <<ec, found, built, failed>>
    /\ UNCHANGED <<edited, tenant, lastId, setting, clientSecret, configSecret, deployment,
                   interrupted, edits, faults>>

\* Mutant: an object whose id the secret does not have is taken for somebody else's
OnlyWithSecret ==
    /\ pc = "deletionList"
    /\ IF Cardinality(tenant) = 1 /\ Managed # {} /\ clientSecret.id \in Ids
       THEN /\ \E obj \in tenant : found' = obj.id
            /\ Goto(IF ec.automation /\ ec.provisioner THEN "deleteSetting" ELSE "deleteTenant")
            /\ UNCHANGED <<ec, built, failed>>
       ELSE EndReconcile
    /\ interrupted' = (interrupted \/ Cardinality(tenant) > 1)
    /\ UNCHANGED <<apiServer, tenant, lastId, setting, edits, faults>>
ListForDeletion ==
    /\ pc = "deletionList"
    /\ IF Cardinality(tenant) = 1 /\ Managed # {}
       THEN /\ \E obj \in tenant : found' = obj.id
            /\ Goto(IF ec.automation /\ ec.provisioner THEN "deleteSetting" ELSE "deleteTenant")
            /\ UNCHANGED <<ec, built, failed>>
       ELSE EndReconcile
    /\ interrupted' = (interrupted \/ Cardinality(tenant) > 1)
    /\ UNCHANGED <<apiServer, tenant, lastId, setting, edits, faults>>

\* the setting is found by the UID of the cluster, which the stored status may not have
DeleteConnectionSetting ==
    /\ pc = "deleteSetting"
    /\ setting' = IF ec.kubeSystemUID THEN NoToken ELSE setting
    /\ Goto("deleteTenant")
    /\ UNCHANGED <<apiServer, tenant, lastId, ec, found, built, failed, interrupted, edits, faults>>

DeleteAtTenant ==
    /\ pc = "deleteTenant"
    /\ RemoveFromTenant(found)
    /\ EndReconcile
    /\ UNCHANGED <<apiServer, lastId, setting, interrupted, edits, faults>>

-----------------------------------------------------------------------------
(* Failures *)

AfterFinalizer == {"deletionList", "deleteSetting", "deleteTenant"}
Fault == faults < MaxFaults /\ faults' = faults + 1

\* a call to the API server, the registry or the tenant fails without an effect
CallFails ==
    /\ Fault
    /\ pc \in ReconcileSteps \cup DeletionSteps
    /\ Fail
    /\ interrupted' = (interrupted \/ pc \in AfterFinalizer)
    /\ UNCHANGED <<apiServer, tenant, lastId, setting, edits>>

\* the tenant creates or deletes an object, but the answer is lost
AnswerLost ==
    /\ Fault
    /\ \/ /\ pc = "create"
          /\ lastId < MaxIds
          /\ tenant' = tenant \cup {NewObject}
          /\ lastId' = lastId + 1
       \/ /\ pc \in {"recreate", "deleteTenant"}
          /\ RemoveFromTenant(found)
          /\ UNCHANGED lastId
    /\ Fail
    /\ UNCHANGED <<apiServer, setting, interrupted, edits>>

StatusNotWritten ==
    /\ Fault
    /\ pc = "status"
    /\ EndReconcile
    /\ UNCHANGED <<apiServer, tenant, lastId, setting, interrupted, edits>>

OperatorCrashes ==
    /\ Fault
    /\ pc # "idle"
    /\ EndReconcile
    /\ interrupted' = (interrupted \/ pc \in AfterFinalizer)
    /\ UNCHANGED <<apiServer, tenant, lastId, setting, edits>>

-----------------------------------------------------------------------------
(* Users and the garbage collector of the cluster *)

Edit == edits < MaxEdits /\ edits' = edits + 1
unchangedByUsers == <<pc, ec, found, built, failed, interrupted, faults>>

EditResource ==
    /\ Edit
    /\ cr.uid # 0 /\ ~cr.deleting
    /\ cr' \in {[cr EXCEPT !.provisioner = ~@], [cr EXCEPT !.automation = ~@],
                [cr EXCEPT !.image = CHOOSE image \in Image : image # cr.image]}
    /\ edited' = TRUE
    /\ UNCHANGED <<tenant, lastId, setting, clientSecret, configSecret, deployment, unchangedByUsers>>

\* without a finalizer the resource is gone at once
DeleteResource ==
    /\ Edit
    /\ cr.uid # 0 /\ ~cr.deleting
    /\ cr' = IF cr.finalizer THEN [cr EXCEPT !.deleting = TRUE] ELSE NoCR
    /\ edited' = TRUE
    /\ UNCHANGED <<tenant, lastId, setting, clientSecret, configSecret, deployment, unchangedByUsers>>

LastIncarnation == LET known == {cr.uid, ec.uid, clientSecret.owner, configSecret.owner, deployment.owner}
                                  \cup {obj.creator : obj \in tenant}
                   IN CHOOSE uid \in known : \A other \in known : other <= uid

CreateResource ==
    /\ Edit
    /\ cr.uid = 0
    /\ LastIncarnation < MaxIncarnations
    /\ \E provisioner, automation \in BOOLEAN :
         cr' = [NoCR EXCEPT !.uid = LastIncarnation + 1, !.provisioner = provisioner, !.automation = automation]
    /\ edited' = TRUE
    /\ UNCHANGED <<tenant, lastId, setting, clientSecret, configSecret, deployment, unchangedByUsers>>

CreateManually ==
    /\ Edit
    /\ lastId < MaxIds
    /\ tenant' = tenant \cup {ManualObject(lastId + 1)}
    /\ lastId' = lastId + 1
    /\ UNCHANGED <<apiServer, setting, unchangedByUsers>>

DeleteManually ==
    /\ Edit
    /\ \E obj \in tenant : RemoveFromTenant(obj.id)
    /\ UNCHANGED <<apiServer, lastId, setting, unchangedByUsers>>

\* objects whose owner is gone are collected some time later
Orphaned(obj) == Exists(obj) /\ obj.owner # cr.uid

CollectGarbage ==
    /\ \/ Orphaned(clientSecret) /\ clientSecret' = NoSecret /\ UNCHANGED <<configSecret, deployment>>
       \/ Orphaned(configSecret) /\ configSecret' = NoConfig /\ UNCHANGED <<clientSecret, deployment>>
       \/ Orphaned(deployment) /\ deployment' = NoDeployment /\ UNCHANGED <<clientSecret, configSecret>>
    /\ UNCHANGED <<cr, edited, tenant, lastId, setting, unchangedByUsers, edits>>

-----------------------------------------------------------------------------
Worker ==
    \/ Reconcile \/ UpdateFinalizers \/ UpdateVersionInfo \/ SetKubeSystemUID
    \/ ListEdgeConnects \/ ReadSecretID \/ DeleteForRecreation \/ CreateAtTenant \/ SaveClientSecret
    \/ UpdateAtTenant \/ CreateOrUpdateConfigSecret \/ CreateOrUpdateDeployment
    \/ CreateOrUpdateConnectionSetting \/ WriteStatus
    \/ ReadSecretForDeletion \/ DropFinalizer \/ ListForDeletion \/ DeleteConnectionSetting \/ DeleteAtTenant
Failure == CallFails \/ AnswerLost \/ StatusNotWritten \/ OperatorCrashes
User == EditResource \/ DeleteResource \/ CreateResource \/ CreateManually \/ DeleteManually

Next == Worker \/ Failure \/ User \/ CollectGarbage

Spec == Init /\ [][Next]_vars

\* every reconcile is followed by another one, after an error or a quarter of an hour
FairSpec == Spec /\ WF_vars(Worker) /\ WF_vars(CollectGarbage)

-----------------------------------------------------------------------------
(* Properties *)

\* A crash or a lost answer between the creation at the tenant and the secret that remembers it
\* (createEdgeConnect) never leads to a second object: the next reconcile replaces the first.
OneManagedObject == Cardinality(Managed) <= 1

\* A deletion that nothing interrupted after it dropped the finalizer leaves no managed object at the
\* tenant (reconcileEdgeConnectDeletion).
GoneLeavesNoObject ==
    cr.uid = 0 /\ pc = "idle" /\ ~interrupted => Managed = {}

Settled == cr.uid # 0 /\ ~cr.deleting

\* With the provisioner on, and no object of a user in its way, the pods end up with the credentials
\* of the object at the tenant and with the configuration and the image that the resource asks for.
PodsGetTheCredentials ==
    <>[](Settled /\ cr.provisioner /\ tenant \subseteq Managed)
      => <>[](\A obj \in tenant : /\ deployment.config = configSecret
                                  /\ configSecret.id = obj.id
                                  /\ deployment.image = cr.image
                                  /\ obj.hosts = HostPatterns(cr))

\* With the Kubernetes automation on, the connection setting at the tenant and the pods end up with
\* the same token, also after the automation was switched off and on again.
TokensAgree ==
    <>[](Settled /\ cr.provisioner /\ cr.automation /\ tenant \subseteq Managed)
      => <>[](setting # NoToken /\ setting = deployment.config.token)

=============================================================================
