-------------------- MODULE EdgeConnectController_proofs --------------------
(***************************************************************************)
(* Proofs about the EdgeConnect controller, for any number of objects,     *)
(* resources, changes of users, failing calls and crashes.                 *)
(***************************************************************************)
EXTENDS EdgeConnectController, FiniteSetTheorems, WellFoundedInduction, TLAPS

(***************************************************************************)
(* The inductive invariant.  Whoever works at the tenant has put the       *)
(* finalizer on the resource, and it stays there meanwhile.                *)
(***************************************************************************)
HasFinalizer == cr.uid # 0 /\ cr.finalizer

FinalizerFirst ==
    /\ pc = "finalizer" => (edited \/ cr.uid # 0) /\ (ec.finalizer => HasFinalizer)
    /\ pc \in {"version", "kubeSystem"} /\ ec.provisioner => HasFinalizer
    /\ pc \in {"list", "secretID", "recreate", "create", "saveSecret", "update"} => HasFinalizer

\* what the worker remembers of the tenant is still true when it acts on it: meanwhile users
\* add only objects of their own
FoundIsManaged ==
    /\ pc \in {"idle", "finalizer", "version", "kubeSystem", "list"} => found = 0
    /\ pc = "create" \/ (pc = "secretID" /\ found = 0) => Managed = {}
    /\ \/ pc \in {"recreate", "deleteSetting", "deleteTenant"}
       \/ pc = "secretID" /\ found # 0
       => \A obj \in Managed : obj.id = found

AtMostOne == IsFiniteSet(tenant) /\ \A obj, other \in Managed : obj = other

\* an object at the tenant has a resource with the finalizer, or a deletion that still runs
ObjectIsGuarded == ~interrupted /\ Managed # {} => HasFinalizer \/ pc \in AfterFinalizer

IInv == FinalizerFirst /\ FoundIsManaged /\ AtMostOne /\ ObjectIsGuarded

-----------------------------------------------------------------------------
(***************************************************************************)
(* Type correctness.                                                       *)
(***************************************************************************)
LEMMA ConstantFacts ==
    /\ MaxIds \in Nat /\ MaxIncarnations \in Nat /\ MaxEdits \in Nat /\ MaxFaults \in Nat
    /\ MaxIds >= 1 /\ MaxIncarnations >= 1
BY BoundAssumption

LEMMA Absent ==
    /\ NoCR \in Resource
    /\ NoSecret \in [owner : 0..MaxIncarnations, id : 0..MaxIds]
    /\ NoConfig \in Config
    /\ NoDeployment \in [owner : 0..MaxIncarnations, config : Config, image : Image \cup {"none"}]
BY ConstantFacts DEF NoCR, Resource, Image, NoSecret, NoConfig, Config, NoDeployment

LEMMA ResourceChange ==
    ASSUME NEW res \in Resource, NEW uid \in 0..MaxIncarnations, NEW image \in Image,
           NEW provisioner \in BOOLEAN, NEW automation \in BOOLEAN
    PROVE  /\ [res EXCEPT !.uid = uid, !.provisioner = provisioner, !.automation = automation, !.image = image]
                \in Resource
           /\ [res EXCEPT !.uid = uid, !.provisioner = provisioner, !.automation = automation] \in Resource
BY DEF Resource

LEMMA FieldChange ==
    ASSUME NEW res \in Resource
    PROVE  /\ [res EXCEPT !.provisioner = ~@] \in Resource
           /\ [res EXCEPT !.automation = ~@] \in Resource
           /\ \A image \in Image : [res EXCEPT !.image = image] \in Resource
BY DEF Resource

LEMMA StatusChange ==
    ASSUME NEW res \in Resource, NEW other \in Resource
    PROVE  /\ [res EXCEPT !.finalizer = TRUE] \in Resource
           /\ [res EXCEPT !.deleting = TRUE] \in Resource
           /\ [res EXCEPT !.kubeSystemUID = TRUE] \in Resource
           /\ [res EXCEPT !.imageID = res.image] \in Resource
           /\ \A phase \in {"Error", "Deploying", "Running"} :
                [res EXCEPT !.imageID = other.imageID, !.kubeSystemUID = other.kubeSystemUID, !.phase = phase]
                  \in Resource
<1>1. /\ res.image \in Image \cup {"none"}
      /\ {"Error", "Deploying", "Running"} \subseteq {"none", "Error", "Deploying", "Running"}
  BY DEF Resource
<1> QED
  BY <1>1 DEF Resource

LEMMA TypeInit == Init => TypeOK
<1> SUFFICES ASSUME Init PROVE TypeOK
  OBVIOUS
<1>1. cr \in Resource
  <2>1. 1 \in 0..MaxIncarnations
    BY ConstantFacts
  <2>2. PICK provisioner, automation \in BOOLEAN, image \in Image :
          cr = [NoCR EXCEPT !.uid = 1, !.provisioner = provisioner, !.automation = automation, !.image = image]
    BY Zenon DEF Init
  <2> QED
    BY <2>1, <2>2, Absent, ResourceChange, Zenon
<1>2. tenant \subseteq TenantObject /\ lastId \in 0..MaxIds
  <2>1. ManualObject(1) \in TenantObject
    BY ConstantFacts DEF ManualObject, TenantObject, Id
  <2> QED
    BY <2>1, ConstantFacts DEF Init
<1>3. edits \in 0..MaxEdits /\ faults \in 0..MaxFaults
  BY ConstantFacts DEF Init
<1>5. {edited, failed, interrupted} \subseteq BOOLEAN
  BY Zenon DEF Init
<1>4. found \in 0..MaxIds /\ {configSecret, built} \subseteq Config
  BY ConstantFacts, Absent DEF Init
<1> QED
  BY <1>1, <1>2, <1>3, <1>4, <1>5, Absent DEF Init, TypeOK

(***************************************************************************)
(* The largest of some natural numbers is not more than the bound of them. *)
(***************************************************************************)
LEMMA LargestExists ==
    ASSUME NEW n \in Nat, NEW S \in SUBSET (0..n), S # {}
    PROVE  \E s \in S : \A other \in S : other <= s
<1> DEFINE Rest == {n - s : s \in S}
<1>1. Rest \in SUBSET Nat /\ Rest # {}
  <2>1. \A s \in S : s \in 0..n /\ n - s \in Nat
    OBVIOUS
  <2>2. PICK s \in S : TRUE
    OBVIOUS
  <2>3. n - s \in Rest
    OBVIOUS
  <2> QED
    BY <2>1, <2>3
<1> DEFINE Less == OpToRel(<, Nat)
<1>2. PICK rest \in Rest : \A other \in Rest : ~(<<other, rest>> \in Less)
  <2>1. IsWellFoundedOn(Less, Nat)
    BY NatLessThanWellFounded
  <2> HIDE DEF Less, Rest
  <2> QED
    BY <1>1, <2>1, WFMin
<1>3. PICK s \in S : rest = n - s
  OBVIOUS
<1>4. ASSUME NEW other \in S PROVE other <= s
  <2>1. n - other \in Rest /\ n - other \in Nat /\ rest \in Nat
    BY <1>1
  <2>2. ~(n - other < rest)
    BY <1>2, <2>1 DEF OpToRel
  <2> QED
    BY <2>2, <1>3
<1> QED
  BY <1>4

LEMMA IncarnationType == TypeOK => LastIncarnation \in 0..MaxIncarnations
<1> SUFFICES ASSUME TypeOK PROVE LastIncarnation \in 0..MaxIncarnations
  OBVIOUS
<1> DEFINE known == {cr.uid, ec.uid, clientSecret.owner, configSecret.owner, deployment.owner}
                      \cup {obj.creator : obj \in tenant}
<1>1. known \in SUBSET (0..MaxIncarnations) /\ known # {}
  BY DEF TypeOK, Resource, Config, TenantObject
<1>2. \E uid \in known : \A other \in known : other <= uid
  BY <1>1, LargestExists, ConstantFacts
<1> QED
  BY <1>1, <1>2 DEF LastIncarnation

LEMMA FreshTokenType == TypeOK => FreshToken \in Token
<1> SUFFICES ASSUME TypeOK PROVE FreshToken \in Token
  OBVIOUS
<1>1. {configSecret.token, setting, deployment.config.token} \subseteq Token \cup {NoToken}
  BY DEF TypeOK, Config
<1>2. \E t \in Token : t \notin {configSecret.token, setting, deployment.config.token}
  <2>1. Token \ {configSecret.token, setting, deployment.config.token} # {}
    BY <1>1, FreshAssumption
  <2> QED
    BY <2>1
<1> QED
  BY <1>2 DEF FreshToken

LEMMA NewObjectType == TypeOK /\ lastId < MaxIds => NewObject \in TenantObject /\ lastId + 1 \in 0..MaxIds
BY ConstantFacts DEF TypeOK, NewObject, TenantObject, Resource, HostPatterns, Id

LEMMA EndType ==
    ASSUME EndReconcile
    PROVE  /\ pc' = "idle" /\ ec' \in Resource /\ found' = 0 /\ found' \in 0..MaxIds
           /\ built' \in Config /\ failed' \in BOOLEAN
<1>1. failed' \in BOOLEAN
  BY Zenon DEF EndReconcile
<1> QED
  BY <1>1, Absent, ConstantFacts DEF EndReconcile, Goto

LEMMA FailType ==
    ASSUME TypeOK, Fail
    PROVE  /\ pc' \in {"idle", "status"} /\ ec' \in Resource /\ found' \in 0..MaxIds
           /\ built' \in Config /\ failed' \in BOOLEAN
           /\ pc' = "idle" => found' = 0
<1>1. CASE pc \in DeletionSteps
  BY <1>1, EndType DEF Fail
<1>2. CASE pc \notin DeletionSteps
  <2>1. failed' \in BOOLEAN
    BY <1>2, Zenon DEF Fail
  <2> QED
    BY <1>2, <2>1 DEF Fail, Goto, TypeOK
<1> QED
  BY <1>1, <1>2

(***************************************************************************)
(* Every step keeps the types: first the steps of the worker at the API    *)
(* server and the tenant.                                                  *)
(***************************************************************************)
LEMMA WorkerType == TypeOK /\ Worker => TypeOK'
<1> SUFFICES ASSUME TypeOK, Worker PROVE TypeOK'
  OBVIOUS
<1> USE DEF Goto
<1>1. CASE Reconcile
  BY <1>1 DEF Reconcile, TypeOK, ReconcileSteps, DeletionSteps
<1>2. CASE UpdateFinalizers
  <2>1. cr' \in Resource /\ ec' \in Resource
    BY <1>2, StatusChange, FailType, Zenon DEF UpdateFinalizers, TypeOK
  <2> QED
    BY <1>2, <2>1, FailType DEF UpdateFinalizers, TypeOK, ReconcileSteps, DeletionSteps
<1>3. CASE UpdateVersionInfo
  <2>1. ec' \in Resource
    BY <1>3, StatusChange, Zenon DEF UpdateVersionInfo, TypeOK
  <2> QED
    BY <1>3, <2>1 DEF UpdateVersionInfo, apiServer, TypeOK, ReconcileSteps, DeletionSteps
<1>4. CASE SetKubeSystemUID
  <2>1. ec' \in Resource
    BY <1>4, StatusChange, Zenon DEF SetKubeSystemUID, TypeOK
  <2> QED
    BY <1>4, <2>1 DEF SetKubeSystemUID, apiServer, TypeOK, ReconcileSteps, DeletionSteps
<1>5. CASE ListEdgeConnects
  BY <1>5, FailType, ConstantFacts
  DEF ListEdgeConnects, apiServer, TypeOK, ReconcileSteps, DeletionSteps, TenantObject, Id
<1>6. CASE ReadSecretID
  BY <1>6 DEF ReadSecretID, apiServer, TypeOK, ReconcileSteps, DeletionSteps
<1>7. CASE DeleteForRecreation
  BY <1>7, FailType, ConstantFacts
  DEF DeleteForRecreation, RemoveFromTenant, apiServer, TypeOK, ReconcileSteps, DeletionSteps
<1>8. CASE CreateAtTenant
  BY <1>8, NewObjectType DEF CreateAtTenant, apiServer, TypeOK, ReconcileSteps, DeletionSteps
<1>9. CASE SaveClientSecret
  BY <1>9 DEF SaveClientSecret, TypeOK, ReconcileSteps, DeletionSteps, Resource
<1>10. CASE UpdateAtTenant
  BY <1>10, FailType
  DEF UpdateAtTenant, apiServer, TypeOK, ReconcileSteps, DeletionSteps, TenantObject, HostPatterns
<1>11. CASE CreateOrUpdateConfigSecret
  BY <1>11, FailType, FreshTokenType, ConstantFacts
  DEF CreateOrUpdateConfigSecret, ConfigToken, TypeOK, ReconcileSteps, DeletionSteps, Config, Resource
<1>12. CASE CreateOrUpdateDeployment
  BY <1>12 DEF CreateOrUpdateDeployment, TypeOK, ReconcileSteps, DeletionSteps, Resource
<1>13. CASE CreateOrUpdateConnectionSetting
  BY <1>13 DEF CreateOrUpdateConnectionSetting, apiServer, TypeOK, ReconcileSteps, DeletionSteps, Config
<1>14. CASE WriteStatus
  <2>1. PICK phase \in DeterminedPhase :
          cr' = IF cr.uid = 0 \/ edited THEN cr
                ELSE [cr EXCEPT !.imageID = ec.imageID, !.kubeSystemUID = ec.kubeSystemUID, !.phase = phase]
    BY <1>14 DEF WriteStatus
  <2>2. phase \in {"Error", "Deploying", "Running"}
    BY DEF DeterminedPhase
  <2>3. cr' \in Resource
    BY <2>1, <2>2, StatusChange, Zenon DEF TypeOK
  <2> QED
    BY <1>14, <2>3, EndType DEF WriteStatus, TypeOK, ReconcileSteps, DeletionSteps
<1>15. CASE ReadSecretForDeletion
  BY <1>15 DEF ReadSecretForDeletion, apiServer, TypeOK, ReconcileSteps, DeletionSteps
<1>16. CASE DropFinalizer
  BY <1>16, EndType, Absent DEF DropFinalizer, TypeOK, ReconcileSteps, DeletionSteps
<1>17. CASE ListForDeletion
  BY <1>17, EndType, ConstantFacts
  DEF ListForDeletion, apiServer, TypeOK, ReconcileSteps, DeletionSteps, TenantObject, Id
<1>18. CASE DeleteConnectionSetting
  BY <1>18 DEF DeleteConnectionSetting, apiServer, TypeOK, ReconcileSteps, DeletionSteps
<1>19. CASE DeleteAtTenant
  BY <1>19, EndType DEF DeleteAtTenant, RemoveFromTenant, apiServer, TypeOK, ReconcileSteps, DeletionSteps
<1> QED
  BY <1>1, <1>2, <1>3, <1>4, <1>5, <1>6, <1>7, <1>8, <1>9, <1>10, <1>11, <1>12, <1>13, <1>14, <1>15, <1>16,
     <1>17, <1>18, <1>19 DEF Worker

LEMMA OtherTypes == TypeOK /\ (Failure \/ User \/ CollectGarbage) => TypeOK'
<1> SUFFICES ASSUME TypeOK, Failure \/ User \/ CollectGarbage PROVE TypeOK'
  OBVIOUS
<1>1. CASE CallFails
  BY <1>1, FailType, ConstantFacts DEF CallFails, Fault, apiServer, TypeOK
<1>2. CASE AnswerLost
  BY <1>2, FailType, NewObjectType, ConstantFacts DEF AnswerLost, Fault, RemoveFromTenant, apiServer, TypeOK
<1>3. CASE StatusNotWritten
  BY <1>3, EndType, ConstantFacts DEF StatusNotWritten, Fault, apiServer, TypeOK
<1>4. CASE OperatorCrashes
  BY <1>4, EndType, ConstantFacts DEF OperatorCrashes, Fault, apiServer, TypeOK
<1>5. CASE EditResource
  <2>1. \E image \in Image : image # cr.image
    BY DEF Image
  <2>2. (CHOOSE image \in Image : image # cr.image) \in Image
    BY <2>1
  <2>3. cr' \in Resource
    <3>1. cr \in Resource
      BY DEF TypeOK
    <3>2. \/ cr' = [cr EXCEPT !.provisioner = ~@]
          \/ cr' = [cr EXCEPT !.automation = ~@]
          \/ cr' = [cr EXCEPT !.image = CHOOSE image \in Image : image # cr.image]
      BY <1>5, Zenon DEF EditResource
    <3>3. /\ [cr EXCEPT !.provisioner = ~@] \in Resource
          /\ [cr EXCEPT !.automation = ~@] \in Resource
          /\ [cr EXCEPT !.image = CHOOSE image \in Image : image # cr.image] \in Resource
      BY <2>2, <3>1, FieldChange, Zenon
    <3> QED
      BY <3>2, <3>3, Zenon
  <2> QED
    BY <1>5, <2>3, ConstantFacts DEF EditResource, Edit, unchangedByUsers, TypeOK
<1>6. CASE DeleteResource
  <2>1. cr' \in Resource
    BY <1>6, StatusChange, Absent, Zenon DEF DeleteResource, TypeOK
  <2> QED
    BY <1>6, <2>1, ConstantFacts DEF DeleteResource, Edit, unchangedByUsers, TypeOK
<1>7. CASE CreateResource
  <2>1. LastIncarnation + 1 \in 0..MaxIncarnations
    BY <1>7, IncarnationType, ConstantFacts DEF CreateResource
  <2>2. cr' \in Resource
    <3>1. PICK provisioner, automation \in BOOLEAN :
            cr' = [NoCR EXCEPT !.uid = LastIncarnation + 1, !.provisioner = provisioner, !.automation = automation]
      BY <1>7, Zenon DEF CreateResource
    <3>2. \E image \in Image : TRUE
      BY DEF Image
    <3> QED
      BY <2>1, <3>1, <3>2, ResourceChange, Absent, Zenon
  <2> QED
    BY <1>7, <2>2, ConstantFacts DEF CreateResource, Edit, unchangedByUsers, TypeOK
<1>8. CASE CreateManually
  <2>1. lastId + 1 \in Id /\ lastId' \in 0..MaxIds
    BY <1>8, ConstantFacts DEF CreateManually, TypeOK, Id
  <2>2. ManualObject(lastId + 1) \in TenantObject
    BY <2>1, ConstantFacts DEF ManualObject, TenantObject
  <2> QED
    BY <1>8, <2>1, <2>2, ConstantFacts DEF CreateManually, Edit, apiServer, unchangedByUsers, TypeOK
<1>9. CASE DeleteManually
  BY <1>9, ConstantFacts DEF DeleteManually, Edit, RemoveFromTenant, apiServer, unchangedByUsers, TypeOK
<1>10. CASE CollectGarbage
  BY <1>10, Absent DEF CollectGarbage, unchangedByUsers, TypeOK
<1> QED
  BY <1>1, <1>2, <1>3, <1>4, <1>5, <1>6, <1>7, <1>8, <1>9, <1>10 DEF Failure, User

(***************************************************************************)
(* Every variable keeps its type, whatever fails and whoever edits.        *)
(***************************************************************************)
THEOREM TypeCorrect == Spec => []TypeOK
<1>1. TypeOK /\ [Next]_vars => TypeOK'
  <2> SUFFICES ASSUME TypeOK, [Next]_vars PROVE TypeOK'
    OBVIOUS
  <2>1. CASE UNCHANGED vars
    BY <2>1 DEF vars, TypeOK
  <2> QED
    BY <2>1, WorkerType, OtherTypes DEF Next
<1> QED
  BY <1>1, TypeInit, PTL DEF Spec

-----------------------------------------------------------------------------
(***************************************************************************)
(* The inductive invariant.                                                *)
(***************************************************************************)
Inv == TypeOK /\ IInv

LEMMA InvInit == Init => Inv
<1> SUFFICES ASSUME Init PROVE Inv
  OBVIOUS
<1>1. Managed = {}
  BY DEF Init, Managed, ManualObject
<1>2. IsFiniteSet(tenant)
  BY FS_EmptySet, FS_Singleton DEF Init
<1>3. FinalizerFirst
  BY DEF Init, FinalizerFirst
<1> QED
  BY <1>1, <1>2, <1>3, TypeInit
  DEF Init, Inv, IInv, FoundIsManaged, AtMostOne, ObjectIsGuarded

\* a reconcile that ends, with an error or without, forgets what it found
LEMMA EndInv ==
    ASSUME Inv, pc' \in {"idle", "status"}, pc' = "idle" => found' = 0,
           pc \notin AfterFinalizer \/ interrupted', interrupted => interrupted',
           cr' = cr, tenant' = tenant
    PROVE  IInv'
<1>1. FinalizerFirst' /\ FoundIsManaged'
  BY DEF FinalizerFirst, FoundIsManaged
<1>2. AtMostOne'
  BY DEF Inv, IInv, AtMostOne, Managed
<1>3. ObjectIsGuarded'
  BY DEF Inv, IInv, ObjectIsGuarded, Managed, HasFinalizer
<1> QED
  BY <1>1, <1>2, <1>3 DEF IInv

\* the worker goes on without a change at the tenant
LEMMA GoOnInv ==
    ASSUME Inv, FinalizerFirst', FoundIsManaged', HasFinalizer => HasFinalizer',
           pc \notin AfterFinalizer \/ pc' \in AfterFinalizer, interrupted' = interrupted, tenant' = tenant
    PROVE  IInv'
<1>1. AtMostOne'
  BY DEF Inv, IInv, AtMostOne, Managed
<1>2. ObjectIsGuarded'
  BY DEF Inv, IInv, ObjectIsGuarded, Managed
<1> QED
  BY <1>1, <1>2 DEF IInv

LEMMA FieldFacts ==
    ASSUME NEW res \in Resource
    PROVE  /\ [res EXCEPT !.finalizer = TRUE].finalizer /\ [res EXCEPT !.finalizer = TRUE].uid = res.uid
           /\ [res EXCEPT !.deleting = TRUE].finalizer = res.finalizer
           /\ [res EXCEPT !.deleting = TRUE].uid = res.uid
           /\ [res EXCEPT !.imageID = res.image].provisioner = res.provisioner
BY DEF Resource

LEMMA StatusFacts ==
    ASSUME NEW res \in Resource, NEW other, NEW phase,
           NEW written, written = [res EXCEPT !.imageID = other.imageID, !.kubeSystemUID = other.kubeSystemUID,
                                              !.phase = phase]
    PROVE  written.finalizer = res.finalizer /\ written.uid = res.uid
BY DEF Resource

LEMMA EditFacts ==
    ASSUME NEW res \in Resource, NEW image, NEW new,
           \/ new = [res EXCEPT !.provisioner = ~@]
           \/ new = [res EXCEPT !.automation = ~@]
           \/ new = [res EXCEPT !.image = image]
    PROVE  new.finalizer = res.finalizer /\ new.uid = res.uid
BY DEF Resource

LEMMA ReconcileStepInv == Inv /\ Worker /\ pc \in ReconcileSteps \cup {"idle", "status"} => IInv'
<1> SUFFICES ASSUME Inv, Worker, pc \in ReconcileSteps \cup {"idle", "status"} PROVE IInv'
  OBVIOUS
<1> USE DEF Goto, ReconcileSteps, AfterFinalizer, DeletionSteps
<1>0. TypeOK /\ FinalizerFirst /\ FoundIsManaged
  BY DEF Inv, IInv
<1>1. CASE Reconcile
  BY <1>0, <1>1, GoOnInv DEF Reconcile, FinalizerFirst, FoundIsManaged, HasFinalizer
<1>2. CASE UpdateFinalizers
  <2>1. CASE ec.provisioner /\ ~ec.finalizer /\ edited
    BY <1>2, <2>1, FailType, EndInv DEF UpdateFinalizers, Inv
  <2>2. CASE ec.provisioner /\ ~ec.finalizer /\ ~edited
    <3>1. cr'.finalizer /\ cr'.uid = cr.uid /\ cr.uid # 0
      BY <1>0, <1>2, <2>2, FieldFacts DEF UpdateFinalizers, TypeOK, FinalizerFirst
    <3> QED
      BY <1>0, <1>2, <2>2, <3>1, GoOnInv DEF UpdateFinalizers, FinalizerFirst, FoundIsManaged, HasFinalizer
  <2>3. CASE ~(ec.provisioner /\ ~ec.finalizer)
    BY <1>0, <1>2, <2>3, GoOnInv DEF UpdateFinalizers, FinalizerFirst, FoundIsManaged, HasFinalizer
  <2> QED
    BY <2>1, <2>2, <2>3
<1>3. CASE UpdateVersionInfo
  <2>1. ec'.provisioner = ec.provisioner
    <3>1. ec \in Resource
      BY <1>0 DEF TypeOK
    <3>2. ec' = ec \/ ec' = [ec EXCEPT !.imageID = ec.image]
      BY <1>3, Zenon DEF UpdateVersionInfo
    <3> QED
      BY <3>1, <3>2, FieldFacts
  <2>2. /\ pc = "version" /\ pc' = "kubeSystem"
        /\ UNCHANGED <<apiServer, tenant, found, interrupted>>
    BY <1>3, Zenon DEF UpdateVersionInfo
  <2>3. FinalizerFirst'
    BY <1>0, <2>1, <2>2 DEF apiServer, FinalizerFirst, HasFinalizer
  <2>4. FoundIsManaged'
    BY <1>0, <2>2 DEF FoundIsManaged
  <2>5. HasFinalizer => HasFinalizer'
    BY <2>2 DEF apiServer, HasFinalizer
  <2> QED
    BY <2>2, <2>3, <2>4, <2>5, GoOnInv
<1>4. CASE SetKubeSystemUID
  BY <1>0, <1>4, GoOnInv DEF SetKubeSystemUID, apiServer, FinalizerFirst, FoundIsManaged, HasFinalizer
<1>5. CASE ListEdgeConnects
  <2>1. CASE Cardinality(tenant) > 1
    <3>1. Fail
      <4>1. tenant # {}
        BY <2>1, FS_EmptySet
      <4> QED
        BY <1>5, <2>1, <4>1 DEF ListEdgeConnects
    <3>2. pc = "list" /\ UNCHANGED <<cr, tenant, interrupted>>
      BY <1>5 DEF ListEdgeConnects, apiServer
    <3> QED
      BY <1>0, <3>1, <3>2, FailType, EndInv
  <2>2. CASE tenant = {} /\ ~(Cardinality(tenant) > 1)
    BY <1>0, <1>5, <2>2, GoOnInv
    DEF ListEdgeConnects, apiServer, FinalizerFirst, FoundIsManaged, HasFinalizer, Managed
  <2>3. CASE tenant # {} /\ ~(Cardinality(tenant) > 1)
    <3>1. PICK obj \in tenant :
            /\ found' = IF obj.managed THEN obj.id ELSE 0
            /\ pc' = IF obj.managed THEN "secretID" ELSE "status"
      BY <1>5, <2>3 DEF ListEdgeConnects
    <3>2. \A other \in Managed : other = obj
      BY <2>3, FS_EmptySet, FS_Singleton, FS_CardinalityType DEF Inv, IInv, AtMostOne, Managed
    <3>3. obj.id # 0
      BY <1>0 DEF TypeOK, TenantObject, Id
    <3> QED
      BY <1>0, <1>5, <2>3, <3>1, <3>2, <3>3, GoOnInv
      DEF ListEdgeConnects, apiServer, FinalizerFirst, FoundIsManaged, HasFinalizer, Managed
  <2> QED
    BY <2>1, <2>2, <2>3
<1>6. CASE ReadSecretID
  BY <1>0, <1>6, GoOnInv DEF ReadSecretID, apiServer, FinalizerFirst, FoundIsManaged, HasFinalizer, Managed
<1>7. CASE DeleteForRecreation
  <2>1. Managed' = {}
    BY <1>0, <1>7 DEF DeleteForRecreation, RemoveFromTenant, FoundIsManaged, Managed
  <2>2. IsFiniteSet(tenant')
    BY <1>7, FS_Subset DEF DeleteForRecreation, RemoveFromTenant, Inv, IInv, AtMostOne
  <2>3. HasFinalizer /\ HasFinalizer'
    BY <1>0, <1>7 DEF DeleteForRecreation, apiServer, FinalizerFirst, HasFinalizer
  <2>4. pc' = "create" \/ (pc' \in {"idle", "status"} /\ (pc' = "idle" => found' = 0))
    BY <1>0, <1>7, FailType DEF DeleteForRecreation
  <2> QED
    BY <2>1, <2>2, <2>3, <2>4
    DEF IInv, FinalizerFirst, FoundIsManaged, AtMostOne, ObjectIsGuarded
<1>8. CASE CreateAtTenant
  <2>1. tenant' = tenant \cup {NewObject} /\ IsFiniteSet(tenant')
    BY <1>8, FS_AddElement DEF CreateAtTenant, Inv, IInv, AtMostOne
  <2>2. \A obj \in Managed' : obj = NewObject
    BY <1>0, <1>8, <2>1 DEF CreateAtTenant, FoundIsManaged, Managed
  <2>3. HasFinalizer'
    BY <1>0, <1>8 DEF CreateAtTenant, apiServer, FinalizerFirst, HasFinalizer
  <2> QED
    BY <1>8, <2>1, <2>2, <2>3
    DEF CreateAtTenant, IInv, FinalizerFirst, FoundIsManaged, AtMostOne, ObjectIsGuarded
<1>9. CASE SaveClientSecret
  BY <1>0, <1>9, GoOnInv DEF SaveClientSecret, FinalizerFirst, FoundIsManaged, HasFinalizer
<1>10. CASE UpdateAtTenant
  <2>1. CASE clientSecret.id \notin Ids
    BY <1>10, <2>1, FailType, EndInv DEF UpdateAtTenant, apiServer, Inv
  <2>2. CASE clientSecret.id \in Ids
    <3> DEFINE Written(obj) == IF obj.id = clientSecret.id THEN [obj EXCEPT !.hosts = HostPatterns(ec)] ELSE obj
               write == [obj \in tenant |-> Written(obj)]
    <3>1. tenant' = {Written(obj) : obj \in tenant}
      BY <1>10, <2>2 DEF UpdateAtTenant
    <3>2. \A obj \in tenant : Written(obj).managed = obj.managed
      BY <1>0 DEF TypeOK, TenantObject
    <3>3. IsFiniteSet(tenant')
      <4>1. write \in Surjection(tenant, tenant')
        BY <3>1 DEF Surjection
      <4> QED
        BY <4>1, FS_Surjection DEF Inv, IInv, AtMostOne
    <3>4. \A obj, other \in Managed' : obj = other
      <4> SUFFICES ASSUME NEW obj \in Managed', NEW other \in Managed' PROVE obj = other
        OBVIOUS
      <4>1. PICK old \in tenant : obj = Written(old)
        BY <3>1 DEF Managed
      <4>2. PICK older \in tenant : other = Written(older)
        BY <3>1 DEF Managed
      <4>3. old \in Managed /\ older \in Managed
        BY <3>2, <4>1, <4>2 DEF Managed
      <4>4. old = older
        BY <4>3 DEF Inv, IInv, AtMostOne
      <4> QED
        BY <4>1, <4>2, <4>4
    <3>5. HasFinalizer'
      BY <1>0, <1>10 DEF UpdateAtTenant, apiServer, FinalizerFirst, HasFinalizer
    <3> QED
      BY <1>10, <2>2, <3>3, <3>4, <3>5
      DEF UpdateAtTenant, IInv, FinalizerFirst, FoundIsManaged, AtMostOne, ObjectIsGuarded
  <2> QED
    BY <2>1, <2>2
<1>11. CASE CreateOrUpdateConfigSecret
  <2>1. CASE ec.provisioner /\ ~Exists(clientSecret)
    BY <1>11, <2>1, FailType, EndInv DEF CreateOrUpdateConfigSecret, Inv
  <2>2. CASE ~(ec.provisioner /\ ~Exists(clientSecret))
    BY <1>0, <1>11, <2>2, GoOnInv DEF CreateOrUpdateConfigSecret, FinalizerFirst, FoundIsManaged, HasFinalizer
  <2> QED
    BY <2>1, <2>2
<1>12. CASE CreateOrUpdateDeployment
  BY <1>0, <1>12, GoOnInv DEF CreateOrUpdateDeployment, FinalizerFirst, FoundIsManaged, HasFinalizer
<1>13. CASE CreateOrUpdateConnectionSetting
  BY <1>0, <1>13, GoOnInv
  DEF CreateOrUpdateConnectionSetting, apiServer, FinalizerFirst, FoundIsManaged, HasFinalizer
<1>14. CASE WriteStatus
  <2>1. cr'.finalizer = cr.finalizer /\ cr'.uid = cr.uid
    <3>1. cr \in Resource
      BY <1>0 DEF TypeOK
    <3>2. PICK phase \in DeterminedPhase :
            cr' = IF cr.uid = 0 \/ edited THEN cr
                  ELSE [cr EXCEPT !.imageID = ec.imageID, !.kubeSystemUID = ec.kubeSystemUID, !.phase = phase]
      BY <1>14 DEF WriteStatus
    <3>3. CASE cr.uid = 0 \/ edited
      BY <3>2, <3>3
    <3>4. CASE ~(cr.uid = 0 \/ edited)
      <4>1. cr' = [cr EXCEPT !.imageID = ec.imageID, !.kubeSystemUID = ec.kubeSystemUID, !.phase = phase]
        BY <3>2, <3>4
      <4> QED
        BY <3>1, <4>1 DEF Resource
    <3> QED
      BY <3>3, <3>4
  <2>2. pc' = "idle" /\ found' = 0
    BY <1>14, EndType DEF WriteStatus
  <2> QED
    BY <1>14, <2>1, <2>2, GoOnInv DEF WriteStatus, FinalizerFirst, FoundIsManaged, HasFinalizer
<1> QED
  BY <1>1, <1>2, <1>3, <1>4, <1>5, <1>6, <1>7, <1>8, <1>9, <1>10, <1>11, <1>12, <1>13, <1>14
  DEF Worker, ReadSecretForDeletion, DropFinalizer, ListForDeletion, DeleteConnectionSetting, DeleteAtTenant

LEMMA DeletionStepInv == Inv /\ Worker /\ pc \in DeletionSteps => IInv'
<1> SUFFICES ASSUME Inv, Worker, pc \in DeletionSteps PROVE IInv'
  OBVIOUS
<1> USE DEF Goto, DeletionSteps, AfterFinalizer
<1>0. TypeOK /\ FinalizerFirst /\ FoundIsManaged
  BY DEF Inv, IInv
<1>1. CASE ReadSecretForDeletion
  BY <1>0, <1>1, GoOnInv DEF ReadSecretForDeletion, apiServer, FinalizerFirst, FoundIsManaged, HasFinalizer
<1>2. CASE DropFinalizer
  <2>1. CASE edited
    BY <1>2, <2>1, EndType, EndInv DEF DropFinalizer, Inv
  <2>2. CASE ~edited
    <3>1. FinalizerFirst' /\ FoundIsManaged' /\ ObjectIsGuarded'
      BY <1>2, <2>2 DEF DropFinalizer, FinalizerFirst, FoundIsManaged, ObjectIsGuarded
    <3> QED
      BY <1>2, <2>2, <3>1 DEF DropFinalizer, Inv, IInv, AtMostOne, Managed
  <2> QED
    BY <2>1, <2>2
<1>3. CASE ListForDeletion
  <2>1. IsFiniteSet(tenant) /\ Cardinality(tenant) \in Nat
    BY FS_CardinalityType DEF Inv, IInv, AtMostOne
  <2>2. CASE Cardinality(tenant) = 1 /\ Managed # {}
    <3>1. PICK only : tenant = {only}
      BY <2>1, <2>2, FS_Singleton
    <3>2. found' = only.id /\ pc' \in {"deleteSetting", "deleteTenant"} /\ tenant' = tenant
      BY <1>3, <2>2, <3>1 DEF ListForDeletion
    <3>3. FinalizerFirst' /\ FoundIsManaged' /\ ObjectIsGuarded'
      BY <3>1, <3>2 DEF FinalizerFirst, FoundIsManaged, ObjectIsGuarded, Managed
    <3> QED
      BY <3>2, <3>3 DEF Inv, IInv, AtMostOne, Managed
  <2>3. CASE ~(Cardinality(tenant) = 1 /\ Managed # {})
    <3>1. Managed = {} \/ interrupted'
      <4>1. CASE Cardinality(tenant) > 1
        BY <1>3, <4>1 DEF ListForDeletion
      <4>2. CASE Cardinality(tenant) = 0
        BY <2>1, <4>2, FS_EmptySet DEF Managed
      <4> QED
        BY <2>1, <2>3, <4>1, <4>2
    <3>2. tenant' = tenant /\ pc' = "idle" /\ found' = 0
      BY <1>3, <2>3, EndType DEF ListForDeletion
    <3>3. FinalizerFirst' /\ FoundIsManaged' /\ ObjectIsGuarded'
      BY <3>1, <3>2 DEF FinalizerFirst, FoundIsManaged, ObjectIsGuarded, Managed
    <3> QED
      BY <3>2, <3>3 DEF Inv, IInv, AtMostOne, Managed
  <2> QED
    BY <2>2, <2>3
<1>4. CASE DeleteConnectionSetting
  <2>1. FoundIsManaged'
    BY <1>0, <1>4 DEF DeleteConnectionSetting, FoundIsManaged, Managed
  <2> QED
    BY <1>0, <1>4, <2>1, GoOnInv DEF DeleteConnectionSetting, apiServer, FinalizerFirst, HasFinalizer
<1>5. CASE DeleteAtTenant
  <2>1. Managed' = {}
    BY <1>0, <1>5 DEF DeleteAtTenant, RemoveFromTenant, FoundIsManaged, Managed
  <2>2. IsFiniteSet(tenant')
    BY <1>5, FS_Subset DEF DeleteAtTenant, RemoveFromTenant, Inv, IInv, AtMostOne
  <2>3. pc' = "idle" /\ found' = 0
    BY <1>5, EndType DEF DeleteAtTenant
  <2> QED
    BY <2>1, <2>2, <2>3 DEF IInv, FinalizerFirst, FoundIsManaged, AtMostOne, ObjectIsGuarded
<1> QED
  BY <1>1, <1>2, <1>3, <1>4, <1>5
  DEF Worker, Reconcile, UpdateFinalizers, UpdateVersionInfo, SetKubeSystemUID, ListEdgeConnects, ReadSecretID,
      DeleteForRecreation, CreateAtTenant, SaveClientSecret, UpdateAtTenant, CreateOrUpdateConfigSecret,
      CreateOrUpdateDeployment, CreateOrUpdateConnectionSetting, WriteStatus

LEMMA FailureInv == Inv /\ Failure => IInv'
<1> SUFFICES ASSUME Inv, Failure PROVE IInv'
  OBVIOUS
<1>0. TypeOK /\ FinalizerFirst /\ FoundIsManaged
  BY DEF Inv, IInv
<1>1. CASE CallFails
  BY <1>0, <1>1, FailType, EndInv DEF CallFails, apiServer
<1>2. CASE AnswerLost
  <2>1. pc' \in {"idle", "status"} /\ (pc' = "idle" => found' = 0)
    BY <1>0, <1>2, FailType DEF AnswerLost
  <2>2. FinalizerFirst' /\ FoundIsManaged'
    BY <2>1 DEF FinalizerFirst, FoundIsManaged
  <2>3. CASE pc = "create" /\ tenant' = tenant \cup {NewObject}
    <3>1. IsFiniteSet(tenant')
      BY <2>3, FS_AddElement DEF Inv, IInv, AtMostOne
    <3>2. \A obj \in Managed' : obj = NewObject
      BY <1>0, <2>3 DEF FoundIsManaged, Managed
    <3>3. HasFinalizer'
      BY <1>0, <1>2, <2>3 DEF AnswerLost, apiServer, FinalizerFirst, HasFinalizer
    <3> QED
      BY <2>2, <3>1, <3>2, <3>3 DEF IInv, AtMostOne, ObjectIsGuarded
  <2>4. CASE pc \in {"recreate", "deleteTenant"} /\ RemoveFromTenant(found)
    <3>1. Managed' = {}
      BY <1>0, <2>4 DEF RemoveFromTenant, FoundIsManaged, Managed
    <3>2. IsFiniteSet(tenant')
      BY <2>4, FS_Subset DEF RemoveFromTenant, Inv, IInv, AtMostOne
    <3> QED
      BY <2>2, <3>1, <3>2 DEF IInv, AtMostOne, ObjectIsGuarded
  <2> QED
    BY <1>2, <2>3, <2>4 DEF AnswerLost
<1>3. CASE StatusNotWritten
  BY <1>0, <1>3, EndType, EndInv DEF StatusNotWritten, apiServer, AfterFinalizer
<1>4. CASE OperatorCrashes
  BY <1>0, <1>4, EndType, EndInv DEF OperatorCrashes, apiServer
<1> QED
  BY <1>1, <1>2, <1>3, <1>4 DEF Failure

\* a user can take the resource away only when it has no finalizer, and adds no object of the operator
LEMMA OthersInv == Inv /\ (User \/ CollectGarbage) => IInv'
<1> SUFFICES ASSUME Inv, User \/ CollectGarbage PROVE IInv'
  OBVIOUS
<1>0. TypeOK /\ FinalizerFirst /\ FoundIsManaged /\ AtMostOne /\ ObjectIsGuarded
  BY DEF Inv, IInv
<1> USE DEF unchangedByUsers
<1>1. CASE EditResource
  <2>1. cr'.uid # 0 /\ cr'.finalizer = cr.finalizer /\ edited'
    <3>1. cr \in Resource
      BY <1>0 DEF TypeOK
    <3>2. \/ cr' = [cr EXCEPT !.provisioner = ~@]
          \/ cr' = [cr EXCEPT !.automation = ~@]
          \/ cr' = [cr EXCEPT !.image = CHOOSE image \in Image : image # cr.image]
      BY <1>1, Zenon DEF EditResource
    <3>3. cr.uid # 0 /\ edited' = TRUE
      BY <1>1 DEF EditResource
    <3> QED
      BY <3>1, <3>2, <3>3, EditFacts
  <2>2. FinalizerFirst' /\ FoundIsManaged'
    BY <1>0, <1>1, <2>1 DEF EditResource, FinalizerFirst, FoundIsManaged, HasFinalizer, Managed
  <2> QED
    BY <1>1, <2>1, <2>2, GoOnInv DEF EditResource, HasFinalizer
<1>2. CASE DeleteResource
  <2>1. (HasFinalizer => HasFinalizer') /\ edited'
    BY <1>0, <1>2, FieldFacts DEF DeleteResource, TypeOK, HasFinalizer
  <2>2. FinalizerFirst' /\ FoundIsManaged'
    BY <1>0, <1>2, <2>1 DEF DeleteResource, FinalizerFirst, FoundIsManaged, Managed
  <2> QED
    BY <1>2, <2>1, <2>2, GoOnInv DEF DeleteResource
<1>3. CASE CreateResource
  <2>1. ~HasFinalizer /\ edited'
    BY <1>3 DEF CreateResource, HasFinalizer
  <2>2. FinalizerFirst' /\ FoundIsManaged'
    BY <1>0, <1>3, <2>1 DEF CreateResource, FinalizerFirst, FoundIsManaged, Managed
  <2> QED
    BY <1>3, <2>1, <2>2, GoOnInv DEF CreateResource
<1>4. CASE CreateManually
  <2>1. Managed' = Managed
    BY <1>4 DEF CreateManually, ManualObject, Managed
  <2>2. IsFiniteSet(tenant')
    BY <1>0, <1>4, FS_AddElement DEF CreateManually, AtMostOne
  <2> QED
    BY <1>0, <1>4, <2>1, <2>2
    DEF CreateManually, apiServer, IInv, FinalizerFirst, FoundIsManaged, AtMostOne, ObjectIsGuarded, HasFinalizer
<1>5. CASE DeleteManually
  <2>1. tenant' \in SUBSET tenant /\ Managed' \subseteq Managed
    BY <1>5 DEF DeleteManually, RemoveFromTenant, Managed
  <2>2. IsFiniteSet(tenant')
    BY <1>0, <2>1, FS_Subset DEF AtMostOne
  <2> QED
    BY <1>0, <1>5, <2>1, <2>2
    DEF DeleteManually, apiServer, IInv, FinalizerFirst, FoundIsManaged, AtMostOne, ObjectIsGuarded, HasFinalizer
<1>6. CASE CollectGarbage
  BY <1>0, <1>6, GoOnInv DEF CollectGarbage, FinalizerFirst, FoundIsManaged, HasFinalizer, Managed
<1> QED
  BY <1>1, <1>2, <1>3, <1>4, <1>5, <1>6 DEF User

LEMMA InvStep == Inv /\ [Next]_vars => Inv'
<1> SUFFICES ASSUME Inv, [Next]_vars PROVE Inv'
  OBVIOUS
<1>1. CASE UNCHANGED vars
  BY <1>1
  DEF vars, Inv, TypeOK, IInv, FinalizerFirst, FoundIsManaged, AtMostOne, ObjectIsGuarded, HasFinalizer,
      Managed
<1>2. CASE Next
  <2>1. TypeOK'
    BY <1>2, WorkerType, OtherTypes DEF Next, Inv
  <2>2. pc \in ReconcileSteps \cup {"idle", "status"} \/ pc \in DeletionSteps
    BY DEF Inv, TypeOK
  <2> QED
    BY <1>2, <2>1, <2>2, ReconcileStepInv, DeletionStepInv, FailureInv, OthersInv DEF Next, Inv
<1> QED
  BY <1>1, <1>2

THEOREM Invariant == Spec => []Inv
BY InvInit, InvStep, PTL DEF Spec

(***************************************************************************)
(* There is never a second object of the operator at the tenant: neither   *)
(* a lost answer nor a crash between the creation and the secret, nor an   *)
(* error of the deletion before a recreation, leads to one                 *)
(* (createEdgeConnect, and the reconcile that follows it).                 *)
(***************************************************************************)
THEOREM NeverTwoObjects == Spec => []OneManagedObject
<1>1. Inv => OneManagedObject
  <2> SUFFICES ASSUME Inv PROVE Cardinality(Managed) <= 1
    BY DEF OneManagedObject
  <2>1. CASE Managed = {}
    BY <2>1, FS_EmptySet
  <2>2. CASE Managed # {}
    <3>1. PICK obj \in Managed : TRUE
      BY <2>2
    <3>2. Managed = {obj}
      BY DEF Inv, IInv, AtMostOne
    <3>3. Cardinality(Managed) = 1
      BY <3>2, FS_Singleton
    <3> QED
      BY <3>3
  <2> QED
    BY <2>1, <2>2
<1> QED
  BY <1>1, Invariant, PTL

(***************************************************************************)
(* When the resource is gone and the worker has nothing left to do, no     *)
(* object of the operator stays at the tenant, unless a deletion was       *)
(* interrupted after the finalizer went (reconcileEdgeConnectDeletion).    *)
(***************************************************************************)
THEOREM DeletionIsComplete == Spec => []GoneLeavesNoObject
<1>1. Inv => GoneLeavesNoObject
  BY DEF Inv, IInv, ObjectIsGuarded, HasFinalizer, AfterFinalizer, GoneLeavesNoObject
<1> QED
  BY <1>1, Invariant, PTL
=============================================================================
