--------------------------- MODULE NodesController ---------------------------
(***************************************************************************)
(* The nodes controller tells the tenant that the host of a cordoned or    *)
(* deleted Kubernetes node is going away ("marked for termination").  Its  *)
(* memory is the ConfigMap dynatrace-node-cache: one entry per node that   *)
(* runs or ran a OneAgent.  One worker reconciles one node at a time; it   *)
(* works on a copy of the ConfigMap that is written back at the very end.  *)
(*                                                                         *)
(* Timestamps are kept as their age, capped just above an hour: no         *)
(* comparison of the code tells larger ages apart.                         *)
(***************************************************************************)
EXTENDS Integers, FiniteSets

CONSTANTS
    Node,
    NoNode,         \* the worker is idle
    Hour,           \* the time between two marks of a node, in ticks
    PruneInterval,  \* the time between two prunes of the cache, in ticks
    PodsHaveIP,     \* environment: no OneAgent pod is listed without a host IP
    InformerLag,    \* environment: the informer may be behind the API server
    MaxChanges,     \* bound: changes of nodes, of their OneAgents and of the token secret
    MaxFaults       \* bound: crashes, lost answers and failing calls

ASSUME NodesAssumption ==
    /\ NoNode \notin Node
    /\ Hour \in Nat
    /\ PruneInterval \in Nat
    /\ PruneInterval < Hour
    /\ PodsHaveIP \in BOOLEAN
    /\ InformerLag \in BOOLEAN
    /\ MaxChanges \in Nat
    /\ MaxFaults \in Nat

VARIABLES
    node,           \* the Node objects of the API server
    instance,       \* DynaKube.status.oneAgent.instances, by node
    platformToken,  \* the token secret of the DynaKube holds a platform token
    listed,         \* the nodes in the informer's store
    queue,          \* the nodes whose reconcile is due
    configMap,      \* the stored cache
    pc,             \* what the worker does next
    current,        \* the node it reconciles
    found,          \* the Node object as it was read
    known,          \* the instance as it was read
    cache,          \* its copy of the cache
    missing,        \* cached nodes without a Node object that the prune goes through
    lastEvent,      \* history: age of the last event the tenant got for the node
    changes, faults

clusterVars == <<node, instance, platformToken>>
workerVars  == <<pc, current, found, known, cache, missing>>
vars == <<clusterVars, listed, queue, configMap, workerVars, lastEvent, changes, faults>>

Age == 0..Hour + 1
Never == Hour + 1
Older(age) == IF age = Never THEN Never ELSE age + 1

(***************************************************************************)
(* cache.Entry: LastSeen, LastMarkedForTermination, and whether IPAddress  *)
(* is set.  The cache: its entries and the lastUpdated annotation.         *)
(***************************************************************************)
Entry == [cached : BOOLEAN, seen : Age, marked : Age, ip : BOOLEAN]
NoEntry == [cached |-> FALSE, seen |-> Never, marked |-> Never, ip |-> FALSE]
Cache == [entries : [Node -> Entry], updated : Age]
EmptyCache == [entries |-> [n \in Node |-> NoEntry], updated |-> Never]

Cached(c) == {n \in Node : c.entries[n].cached}

NodeState == {"gone", "ready", "cordoned"}
Instance == {"none", "noip", "ip"}
PC == {"idle", "read", "node", "prune", "missing", "store"}

TypeOK ==
    /\ node \in [Node -> NodeState]
    /\ instance \in [Node -> Instance]
    /\ platformToken \in BOOLEAN
    /\ listed \subseteq Node
    /\ queue \subseteq Node
    /\ configMap \in Cache
    /\ pc \in PC
    /\ current \in Node \cup {NoNode}
    /\ found \in NodeState
    /\ known \in Instance
    /\ cache \in Cache
    /\ missing \subseteq Node
    /\ lastEvent \in [Node -> Age]
    /\ changes \in 0..MaxChanges
    /\ faults \in 0..MaxFaults

Init ==
    /\ node \in [Node -> NodeState]
    /\ instance \in [Node -> IF PodsHaveIP THEN {"none", "ip"} ELSE Instance]
    /\ platformToken = FALSE
    /\ listed = {n \in Node : node[n] # "gone"}
    /\ queue = listed
    /\ configMap = EmptyCache
    /\ pc = "idle"
    /\ current = NoNode
    /\ found = "gone"
    /\ known = "none"
    /\ cache = EmptyCache
    /\ missing = {}
    /\ lastEvent = [n \in Node |-> Never]
    /\ changes = 0
    /\ faults = 0

-----------------------------------------------------------------------------
(* The environment: users and autoscalers, the OneAgent reconciler, time.  *)

Change == changes < MaxChanges /\ changes' = changes + 1
Fault == faults < MaxFaults /\ faults' = faults + 1

\* the node comes or goes; the informer learns of it now or by a later NodeEvent
Observed(nodes, n) ==
    IF InformerLag THEN UNCHANGED <<listed, queue>> ELSE listed' = nodes /\ queue' = queue \cup {n}

NodeJoins(n) ==
    /\ Change
    /\ node[n] = "gone"
    /\ node' = [node EXCEPT ![n] = "ready"]
    /\ Observed(listed \cup {n}, n)
    /\ UNCHANGED <<instance, platformToken, configMap, workerVars, lastEvent, faults>>

\* kubectl (un)cordon, or the taint of the cluster autoscaler
NodeCordoned(n) ==
    /\ Change
    /\ node[n] # "gone"
    /\ node' = [node EXCEPT ![n] = IF node[n] = "ready" THEN "cordoned" ELSE "ready"]
    /\ UNCHANGED <<instance, platformToken, listed, queue, configMap, workerVars, lastEvent, faults>>

NodeLeaves(n) ==
    /\ Change
    /\ node[n] # "gone"
    /\ node' = [node EXCEPT ![n] = "gone"]
    /\ Observed(listed \ {n}, n)
    /\ UNCHANGED <<instance, platformToken, configMap, workerVars, lastEvent, faults>>

TokenSecretChanges ==
    /\ Change
    /\ platformToken' = ~platformToken
    /\ UNCHANGED <<node, instance, listed, queue, configMap, workerVars, lastEvent, faults>>

\* the OneAgent reconciler stores the instances its pods run on; a pod has no host IP at first
InstanceReported(n, i) ==
    /\ Change
    /\ node[n] # "gone"
    /\ i # instance[n]
    /\ PodsHaveIP => i # "noip"
    /\ instance' = [instance EXCEPT ![n] = i]
    /\ UNCHANGED <<node, platformToken, listed, queue, configMap, workerVars, lastEvent, faults>>

\* the pods of a node that left are collected, and its instance with them
InstanceForgotten(n) ==
    /\ node[n] = "gone" /\ instance[n] # "none"
    /\ instance' = [instance EXCEPT ![n] = "none"]
    /\ UNCHANGED <<node, platformToken, listed, queue, configMap, workerVars, lastEvent, changes, faults>>

\* an event of the informer: a change or a status update of the kubelet
NodeEvent(n) ==
    /\ node[n] # "gone" \/ n \in listed
    /\ listed' = IF node[n] = "gone" THEN listed \ {n} ELSE listed \cup {n}
    /\ queue' = queue \cup {n}
    /\ UNCHANGED <<clusterVars, configMap, workerVars, lastEvent, changes, faults>>

Aged(c) ==
    [entries |-> [n \in Node |-> [c.entries[n] EXCEPT !.seen = Older(@), !.marked = Older(@)]],
     updated |-> Older(c.updated)]

\* time passes between reconciles: one takes less than a tick
Tick ==
    /\ pc = "idle"
    /\ configMap' = Aged(configMap)
    /\ lastEvent' = [n \in Node |-> Older(lastEvent[n])]
    /\ UNCHANGED <<clusterVars, listed, queue, workerVars, changes, faults>>

-----------------------------------------------------------------------------
(* The worker.                                                             *)

Finish ==
    /\ pc' = "idle"
    /\ current' = NoNode /\ found' = "gone" /\ known' = "none"
    /\ cache' = EmptyCache /\ missing' = {}

\* an error: the work queue retries the node
Fail == Finish /\ queue' = queue \cup {current}

\* done with the node itself: what was read of it is out of scope
LeaveNode(next) == pc' = next /\ found' = "gone" /\ known' = "none" /\ UNCHANGED current

DetermineDynaKube(n) ==
    /\ pc = "idle" /\ n \in queue
    /\ queue' = queue \ {n}
    /\ IF instance[n] # "none" /\ platformToken
          THEN UNCHANGED <<pc, current, known>>
          ELSE pc' = "read" /\ current' = n /\ known' = instance[n]
    /\ UNCHANGED <<clusterVars, listed, configMap, found, cache, missing, lastEvent, changes, faults>>

\* getCache, and the Node object
ReadNode ==
    /\ pc = "read"
    /\ cache' = configMap
    /\ found' = node[current]
    /\ pc' = "node"
    /\ UNCHANGED <<clusterVars, listed, queue, configMap, current, known, missing, lastEvent, changes, faults>>

\* Mutant: the comparison is the wrong way round
MarkableWithinHour(e) == e.marked <= Hour
\* Mutant: a node that was not seen lately is not worth an event
MarkableWhenSeen(e) == e.marked > Hour /\ e.seen <= Hour
IsMarkableForTermination(e) == e.marked > Hour

\* the tenant takes the event, or answers that it does not know the host
EventSent(n) ==
    /\ lastEvent' = [lastEvent EXCEPT ![n] = 0]

(***************************************************************************)
(* sendMarkedForTermination fails without an IP address (GetEntityIDForIP),*)
(* or because a call fails; the event may have been taken nevertheless.    *)
(***************************************************************************)
SendFails(n, e) ==
    /\ IsMarkableForTermination(e)
    /\ \/ ~e.ip /\ UNCHANGED <<lastEvent, faults>>
       \/ Fault /\ UNCHANGED lastEvent
       \/ Fault /\ EventSent(n)
    /\ Fail
    /\ UNCHANGED <<clusterVars, listed, configMap, changes>>

\* Mutant: an event that could not be sent is only logged
MarkAnyway(n, e) ==
    \/ UNCHANGED lastEvent
    \/ IsMarkableForTermination(e) /\ e.ip /\ EventSent(n)
MarkForTermination(n, e) ==
    \/ ~IsMarkableForTermination(e) /\ UNCHANGED lastEvent
    \/ IsMarkableForTermination(e) /\ e.ip /\ EventSent(n)

\* what markForTermination leaves in the entry
Marked(e) == IF IsMarkableForTermination(e) THEN [e EXCEPT !.marked = 0] ELSE e

UpdatedEntry ==
    [cached |-> TRUE, seen |-> 0, marked |-> cache.entries[current].marked, ip |-> known = "ip"]

ReconcileNodeUpdate ==
    /\ pc = "node" /\ found # "gone" /\ known # "none"
    /\ \/ /\ IF found = "cordoned"
                THEN /\ MarkForTermination(current, UpdatedEntry)
                     /\ cache' = [cache EXCEPT !.entries[current] = Marked(UpdatedEntry)]
                ELSE /\ UNCHANGED lastEvent
                     /\ cache' = [cache EXCEPT !.entries[current] = UpdatedEntry]
          /\ LeaveNode("prune")
          /\ UNCHANGED <<clusterVars, listed, queue, configMap, missing, changes, faults>>
       \/ found = "cordoned" /\ SendFails(current, UpdatedEntry)

\* the node has no OneAgent: only the prune may follow
NoDynaKubeForNode ==
    /\ pc = "node" /\ found # "gone" /\ known = "none"
    /\ LeaveNode("prune")
    /\ UNCHANGED <<clusterVars, listed, queue, configMap, cache, missing, lastEvent, changes, faults>>

(***************************************************************************)
(* The DynaKube is determined anew.  Without one the entry goes without an *)
(* event.                                                                  *)
(***************************************************************************)
Forget(n) ==
    /\ cache' = [cache EXCEPT !.entries[n] = NoEntry]
    /\ IF instance[n] # "none" /\ cache.entries[n].cached
          THEN MarkForTermination(n, cache.entries[n])
          ELSE UNCHANGED lastEvent

CannotForget(n) ==
    /\ instance[n] # "none" /\ cache.entries[n].cached
    /\ SendFails(n, cache.entries[n])

ReconcileNodeDeletion ==
    /\ pc = "node" /\ found = "gone"
    /\ \/ /\ Forget(current)
          /\ LeaveNode("store")
          /\ UNCHANGED <<clusterVars, listed, queue, configMap, missing, changes, faults>>
       \/ CannotForget(current)

(***************************************************************************)
(* Prune: the entries of listed nodes go when no OneAgent was seen for an  *)
(* hour, or without an IP address; nodes that are not listed are left to   *)
(* reconcileNodeDeletion.                                                  *)
(***************************************************************************)
Deletable(n) == n \in listed /\ (cache.entries[n].seen > Hour \/ ~cache.entries[n].ip)

\* Mutant: nodes that are not listed are left to their deletion event
PruneListed ==
    /\ pc = "prune"
    /\ IF cache.updated > PruneInterval
          THEN /\ cache' = [cache EXCEPT !.entries =
                     [n \in Node |-> IF Deletable(n) THEN NoEntry ELSE cache.entries[n]]]
               /\ pc' = "missing"
          ELSE pc' = "store" /\ UNCHANGED cache
    /\ UNCHANGED <<clusterVars, listed, queue, configMap, current, found, known, missing, lastEvent, changes, faults>>
Prune ==
    /\ pc = "prune"
    /\ IF cache.updated > PruneInterval
          THEN /\ missing' = Cached(cache) \ listed
               /\ cache' = [cache EXCEPT !.entries =
                     [n \in Node |-> IF Deletable(n) THEN NoEntry ELSE cache.entries[n]]]
               /\ pc' = "missing"
          ELSE pc' = "store" /\ UNCHANGED <<cache, missing>>
    /\ UNCHANGED <<clusterVars, listed, queue, configMap, current, found, known, lastEvent, changes, faults>>

PruneMissing(n) ==
    /\ pc = "missing" /\ n \in missing
    /\ \/ /\ Forget(n)
          /\ missing' = missing \ {n}
          /\ UNCHANGED <<clusterVars, listed, queue, configMap, pc, current, found, known, changes, faults>>
       \/ CannotForget(n)

UpdateTimestamp ==
    /\ pc = "missing" /\ missing = {}
    /\ cache' = [cache EXCEPT !.updated = 0]
    /\ pc' = "store"
    /\ UNCHANGED <<clusterVars, listed, queue, configMap, current, found, known, missing, lastEvent, changes, faults>>

Store ==
    /\ pc = "store"
    /\ \/ configMap' = cache /\ Finish /\ UNCHANGED <<queue, faults>>
       \/ configMap' \in {cache, configMap} /\ Fault /\ Fail
    /\ UNCHANGED <<clusterVars, listed, lastEvent, changes>>

\* a read of the API server fails
ReadFails ==
    /\ pc \in {"read", "node", "missing"}
    /\ Fault /\ Fail
    /\ UNCHANGED <<clusterVars, listed, configMap, lastEvent, changes>>

\* the operator dies; the informer of the next one lists the nodes that are there
OperatorRestarts ==
    /\ Fault /\ Finish
    /\ listed' = {n \in Node : node[n] # "gone"}
    /\ queue' = listed'
    /\ UNCHANGED <<clusterVars, configMap, lastEvent, changes>>

Environment ==
    \/ \E n \in Node :
          \/ NodeJoins(n) \/ NodeCordoned(n) \/ NodeLeaves(n)
          \/ \E i \in Instance : InstanceReported(n, i)
          \/ InstanceForgotten(n) \/ NodeEvent(n)
    \/ TokenSecretChanges
    \/ Tick

\* the rest of the reconcile that was begun
Work ==
    \/ ReadNode \/ ReconcileNodeUpdate \/ NoDynaKubeForNode \/ ReconcileNodeDeletion
    \/ Prune \/ (\E n \in Node : PruneMissing(n)) \/ UpdateTimestamp \/ Store

Reconcile == Work \/ \E n \in Node : DetermineDynaKube(n)

Next == Environment \/ Reconcile \/ ReadFails \/ OperatorRestarts

Spec == Init /\ [][Next]_vars

(***************************************************************************)
(* The work queue is first in, first out; kubelets keep updating the       *)
(* status of their nodes; pods of a node that left are collected, and the  *)
(* DynaKube's instances follow.                                            *)
(***************************************************************************)
Fairness ==
    /\ \A n \in Node :
          /\ SF_vars(DetermineDynaKube(n))
          /\ WF_vars(NodeEvent(n))
          /\ WF_vars(InstanceForgotten(n))
    /\ WF_vars(Work)
    /\ SF_vars(Tick)

LiveSpec == Spec /\ Fairness

-----------------------------------------------------------------------------

(***************************************************************************)
(* A mark in the cache, stored or being worked on, never claims an event   *)
(* the tenant was not asked to take: whatever fails between the two, at    *)
(* worst the event is repeated.                                            *)
(***************************************************************************)
MarkMeansSent ==
    \A n \in Node :
        /\ lastEvent[n] <= configMap.entries[n].marked
        /\ lastEvent[n] <= cache.entries[n].marked

(***************************************************************************)
(* reconcileNodeDeletion drops the entry of a node that left only when the *)
(* tenant has heard of it within the hour, or no DynaKube has an instance  *)
(* on the node any more.                                                   *)
(***************************************************************************)
ForgottenAfterEvent ==
    [][\A n \in Node :
          /\ pc \in {"node", "missing"} /\ pc' # "idle"
          /\ cache.entries[n].cached /\ ~cache'.entries[n].cached
          => instance[n] = "none" \/ lastEvent'[n] <= Hour]_vars

Quiet == ~platformToken

(***************************************************************************)
(* The tenant keeps hearing of a node that stays cordoned and has a        *)
(* OneAgent with an IP address.                                            *)
(***************************************************************************)
CordonedIsMarked ==
    \A n \in Node :
        []<>(node[n] = "cordoned" /\ instance[n] = "ip" /\ Quiet => lastEvent[n] <= Hour)

(***************************************************************************)
(* A node that is gone leaves the cache, even when its deletion was missed *)
(* and its event cannot be sent, as long as some node is reconciled.  An   *)
(* instance without IP address, whose event always fails, may prevent it.  *)
(***************************************************************************)
GoneLeavesCache ==
    \A n \in Node :
        []<>(node[n] = "gone" /\ Quiet /\ (\E m \in Node : node[m] # "gone")
                /\ (\A m \in Node : instance[m] # "noip")
             => ~configMap.entries[n].cached)
=============================================================================
