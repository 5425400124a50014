----------------------- MODULE NodesAndRollouts_proofs -----------------------
(***************************************************************************)
(* Proofs about two specifications that share nothing.  First the nodes    *)
(* controller, for any set of nodes, any length of the two intervals and   *)
(* any number of failures.  Then the rollouts of the workloads, for any    *)
(* set of DynaKubes, any features of them and any number of disturbances.  *)
(***************************************************************************)
EXTENDS NodesController, WorkloadRollout, TLAPS

-----------------------------------------------------------------------------
(***************************************************************************)
(* Between two reconciles there is no copy of the cache: the marks in the  *)
(* copy need not age.                                                      *)
(***************************************************************************)
IdleInv == IF pc = "idle" THEN cache = EmptyCache ELSE current \in Node

Inv == TypeOK /\ IdleInv /\ MarkMeansSent

LEMMA AgeFacts ==
    /\ Never \in Age /\ 0 \in Age
    /\ \A a \in Age : Older(a) \in Age /\ a <= Older(a) /\ a <= Never
    /\ \A a, b \in Age : a <= b => Older(a) <= Older(b)
BY NodesAssumption DEF Age, Never, Older

LEMMA EmptyCacheType == EmptyCache \in Cache
BY AgeFacts DEF EmptyCache, Cache, Entry, NoEntry

LEMMA AgedType == ASSUME NEW c \in Cache PROVE Aged(c) \in Cache
BY AgeFacts DEF Aged, Cache, Entry

(***************************************************************************)
(* What the steps of the worker are made of.                               *)
(***************************************************************************)
LEMMA FinishInv ==
    ASSUME Inv, Finish, configMap' \in {cache, configMap},
           \A n \in Node : lastEvent'[n] <= lastEvent[n] /\ lastEvent'[n] \in Age
    PROVE  /\ pc' \in PC /\ current' \in Node \cup {NoNode} /\ found' \in NodeState
           /\ known' \in Instance /\ cache' \in Cache /\ missing' \subseteq Node
           /\ configMap' \in Cache
           /\ IdleInv' /\ MarkMeansSent'
<1>1. cache' = EmptyCache /\ cache' \in Cache
  BY EmptyCacheType DEF Finish
<1>2. ASSUME NEW n \in Node
      PROVE  lastEvent'[n] <= configMap'.entries[n].marked /\ lastEvent'[n] <= cache'.entries[n].marked
  <2>1. cache'.entries[n].marked = Never
    BY <1>1 DEF EmptyCache, NoEntry
  <2>2. configMap.entries[n].marked \in Nat /\ cache.entries[n].marked \in Nat /\ lastEvent[n] \in Nat /\ lastEvent'[n] \in Nat
    BY NodesAssumption DEF Inv, TypeOK, Cache, Entry, Age
  <2>3. lastEvent[n] <= configMap.entries[n].marked /\ lastEvent[n] <= cache.entries[n].marked
    BY DEF Inv, MarkMeansSent
  <2> QED
    BY <2>1, <2>2, <2>3, AgeFacts
<1>3. MarkMeansSent'
  BY <1>2 DEF MarkMeansSent
<1> QED
  BY <1>1, <1>3 DEF Finish, PC, NodeState, Instance, Inv, TypeOK, IdleInv

LEMMA EventSentInv ==
    ASSUME Inv, NEW n \in Node, EventSent(n)
    PROVE  /\ lastEvent' \in [Node -> Age] /\ lastEvent'[n] = 0
           /\ \A m \in Node : lastEvent'[m] <= lastEvent[m]
<1>1. lastEvent' \in [Node -> Age] /\ lastEvent'[n] = 0 /\ \A m \in Node : m # n => lastEvent'[m] = lastEvent[m]
  BY AgeFacts DEF EventSent, Inv, TypeOK
<1>2. \A m \in Node : lastEvent[m] \in Nat
  BY NodesAssumption DEF Inv, TypeOK, Age
<1> QED
  BY <1>1, <1>2 DEF EventSent, Inv, TypeOK

LEMMA SendFailsInv ==
    ASSUME Inv, NEW n \in Node, NEW e \in Entry, current \in Node, SendFails(n, e)
    PROVE  Inv'
<1>1. /\ lastEvent' \in [Node -> Age]
      /\ \A m \in Node : lastEvent'[m] <= lastEvent[m]
  <2>1. CASE EventSent(n)
    BY <2>1, EventSentInv
  <2>2. CASE UNCHANGED lastEvent
    <3>1. \A m \in Node : lastEvent[m] \in Nat
      BY NodesAssumption DEF Inv, TypeOK, Age
    <3> QED
      BY <2>2, <3>1 DEF Inv, TypeOK
  <2> QED
    BY <2>1, <2>2 DEF SendFails
<1>2. faults' \in 0..MaxFaults
  BY NodesAssumption DEF SendFails, Fault, Inv, TypeOK
<1>3. /\ pc' \in PC /\ current' \in Node \cup {NoNode} /\ found' \in NodeState
      /\ known' \in Instance /\ cache' \in Cache /\ missing' \subseteq Node
      /\ configMap' \in Cache /\ IdleInv' /\ MarkMeansSent'
  BY <1>1, FinishInv DEF SendFails, Fail
<1> QED
  BY <1>1, <1>2, <1>3 DEF SendFails, Fail, Inv, TypeOK, clusterVars

(***************************************************************************)
(* A step of a reconcile that goes on: it changes its copy of the cache,   *)
(* and the tenant may hear of a node.                                      *)
(***************************************************************************)
LEMMA GoesOnInv ==
    ASSUME Inv, pc # "idle", pc' \in PC, pc' # "idle", cache' \in Cache, missing' \subseteq Node,
           current' = current, found' \in NodeState, known' \in Instance,
           lastEvent' \in [Node -> Age],
           \A n \in Node : lastEvent'[n] <= lastEvent[n],
           \A n \in Node : lastEvent'[n] <= cache'.entries[n].marked,
           UNCHANGED <<clusterVars, listed, queue, configMap, changes, faults>>
    PROVE  Inv'
<1>1. ASSUME NEW n \in Node PROVE lastEvent'[n] <= configMap.entries[n].marked
  <2>1. lastEvent'[n] \in Nat /\ lastEvent[n] \in Nat /\ configMap.entries[n].marked \in Nat
    BY NodesAssumption DEF Inv, TypeOK, Age, Cache, Entry
  <2> QED
    BY <2>1 DEF Inv, MarkMeansSent
<1> QED
  BY <1>1 DEF Inv, TypeOK, IdleInv, MarkMeansSent, clusterVars

(***************************************************************************)
(* markForTermination: afterwards the tenant has heard of the node within  *)
(* the hour, and the mark it leaves is not newer than that.                *)
(***************************************************************************)
LEMMA MarkForTerminationInv ==
    ASSUME Inv, NEW n \in Node, NEW e \in Entry, lastEvent[n] <= e.marked, MarkForTermination(n, e)
    PROVE  /\ lastEvent' \in [Node -> Age]
           /\ \A m \in Node : lastEvent'[m] <= lastEvent[m]
           /\ Marked(e) \in Entry
           /\ lastEvent'[n] <= Marked(e).marked
           /\ lastEvent'[n] <= Hour
<1>1. \A m \in Node : lastEvent[m] \in Nat
  BY NodesAssumption DEF Inv, TypeOK, Age
<1>2. e.marked \in Age /\ e.marked \in Nat /\ e.seen \in Age /\ e.ip \in BOOLEAN /\ e.cached \in BOOLEAN
  BY NodesAssumption DEF Entry, Age
<1>3. CASE IsMarkableForTermination(e)
  <2>1. EventSent(n)
    BY <1>3 DEF MarkForTermination
  <2>2. Marked(e) = [e EXCEPT !.marked = 0]
    BY <1>3 DEF Marked
  <2>3. Marked(e) \in Entry /\ Marked(e).marked = 0
    BY <2>2, AgeFacts DEF Entry
  <2> QED
    BY <2>1, <2>3, EventSentInv, NodesAssumption
<1>4. CASE ~IsMarkableForTermination(e)
  <2>1. UNCHANGED lastEvent /\ Marked(e) = e
    BY <1>4 DEF MarkForTermination, Marked
  <2>2. e.marked <= Hour
    BY <1>2, <1>4, NodesAssumption DEF IsMarkableForTermination
  <2>3. lastEvent'[n] <= Hour
    BY <1>1, <1>2, <2>1, <2>2, NodesAssumption
  <2> QED
    BY <1>1, <2>1, <2>3 DEF Inv, TypeOK
<1> QED
  BY <1>3, <1>4

LEMMA ForgetInv ==
    ASSUME Inv, NEW n \in Node, Forget(n)
    PROVE  /\ lastEvent' \in [Node -> Age]
           /\ \A m \in Node : lastEvent'[m] <= lastEvent[m]
           /\ cache' \in Cache
           /\ \A m \in Node : lastEvent'[m] <= cache'.entries[m].marked
           /\ \A m \in Node \ {n} : cache'.entries[m] = cache.entries[m]
           /\ cache.entries[n].cached => instance[n] = "none" \/ lastEvent'[n] <= Hour
<1>1. cache.entries[n] \in Entry /\ lastEvent[n] <= cache.entries[n].marked
  BY DEF Inv, TypeOK, Cache, MarkMeansSent
<1>2. \A m \in Node : lastEvent[m] \in Nat /\ lastEvent[m] <= Never /\ cache.entries[m].marked \in Nat
  BY NodesAssumption DEF Inv, TypeOK, Age, Cache, Entry, Never
<1>3. /\ lastEvent' \in [Node -> Age]
      /\ \A m \in Node : lastEvent'[m] <= lastEvent[m]
      /\ cache.entries[n].cached => instance[n] = "none" \/ lastEvent'[n] <= Hour
  <2>1. CASE instance[n] # "none" /\ cache.entries[n].cached
    BY <1>1, <2>1, MarkForTerminationInv DEF Forget
  <2>2. CASE ~(instance[n] # "none" /\ cache.entries[n].cached)
    BY <1>2, <2>2 DEF Forget, Inv, TypeOK
  <2> QED
    BY <2>1, <2>2
<1>4. cache' = [cache EXCEPT !.entries[n] = NoEntry]
  BY DEF Forget
<1>5. NoEntry \in Entry /\ NoEntry.marked = Never
  BY AgeFacts DEF NoEntry, Entry
<1>6. /\ cache' \in Cache
      /\ cache'.entries[n] = NoEntry
      /\ \A m \in Node \ {n} : cache'.entries[m] = cache.entries[m]
  BY <1>4, <1>5 DEF Inv, TypeOK, Cache
<1>7. ASSUME NEW m \in Node PROVE lastEvent'[m] <= cache'.entries[m].marked
  <2>1. lastEvent'[m] \in Nat /\ lastEvent'[m] <= lastEvent[m] /\ Never \in Nat
    BY <1>3, NodesAssumption DEF Age, Never
  <2>2. lastEvent[m] <= cache.entries[m].marked
    BY DEF Inv, MarkMeansSent
  <2> QED
    BY <1>2, <1>5, <1>6, <2>1, <2>2
<1> QED
  BY <1>3, <1>6, <1>7

-----------------------------------------------------------------------------

LEMMA InitInv == Init => Inv
<1> SUFFICES ASSUME Init PROVE Inv
  OBVIOUS
<1>1. instance \in [Node -> Instance]
  BY DEF Init, Instance
<1>2. \A n \in Node : configMap.entries[n].marked = Never /\ cache.entries[n].marked = Never /\ lastEvent[n] = Never
  BY DEF Init, EmptyCache, NoEntry
<1>3. MarkMeansSent
  BY <1>2, NodesAssumption DEF MarkMeansSent, Never
<1>4. lastEvent \in [Node -> Age]
  BY AgeFacts DEF Init
<1>5. 0 \in 0..MaxChanges /\ 0 \in 0..MaxFaults
  BY NodesAssumption
<1>6. listed \subseteq Node /\ queue \subseteq Node
  BY DEF Init
<1>7. pc \in PC /\ found \in NodeState /\ known \in Instance /\ pc = "idle"
  BY DEF Init, PC, NodeState, Instance
<1> QED
  BY <1>1, <1>3, <1>4, <1>5, <1>6, <1>7, EmptyCacheType DEF Init, Inv, TypeOK, IdleInv

LEMMA EnvironmentInv ==
    ASSUME Inv, Environment
    PROVE  Inv'
<1>1. CASE Tick
  <2>1. configMap' = Aged(configMap) /\ configMap' \in Cache
    BY <1>1, AgedType DEF Tick, Inv, TypeOK
  <2>2. lastEvent' \in [Node -> Age]
    BY <1>1, AgeFacts DEF Tick, Inv, TypeOK
  <2>3. ASSUME NEW n \in Node
        PROVE  lastEvent'[n] <= configMap'.entries[n].marked /\ lastEvent'[n] <= cache'.entries[n].marked
    <3>1. lastEvent[n] \in Age /\ configMap.entries[n].marked \in Age
      BY DEF Inv, TypeOK, Cache, Entry
    <3>2. lastEvent'[n] = Older(lastEvent[n])
      BY <1>1 DEF Tick
    <3>5. configMap'.entries[n] = [configMap.entries[n] EXCEPT !.seen = Older(@), !.marked = Older(@)]
      BY <2>1 DEF Aged
    <3>6. configMap.entries[n] \in Entry
      BY DEF Inv, TypeOK, Cache
    <3>7. configMap'.entries[n].marked = Older(configMap.entries[n].marked)
      BY <3>5, <3>6 DEF Entry
    <3>3. cache'.entries[n].marked = Never
      BY <1>1 DEF Tick, workerVars, Inv, IdleInv, EmptyCache, NoEntry
    <3>4. lastEvent[n] <= configMap.entries[n].marked
      BY DEF Inv, MarkMeansSent
    <3> QED
      BY <3>1, <3>2, <3>3, <3>4, <3>7, AgeFacts
  <2>4. MarkMeansSent'
    BY <2>3 DEF MarkMeansSent
  <2> QED
    BY <1>1, <2>1, <2>2, <2>4 DEF Tick, Inv, TypeOK, IdleInv, workerVars, clusterVars
<1>2. ASSUME NEW n \in Node, NodeJoins(n) \/ NodeLeaves(n)
      PROVE  Inv'
  <2>1. listed' \subseteq Node /\ queue' \subseteq Node
    BY <1>2 DEF NodeJoins, NodeLeaves, Observed, Inv, TypeOK
  <2>2. changes' \in 0..MaxChanges
    BY <1>2, NodesAssumption DEF NodeJoins, NodeLeaves, Change, Inv, TypeOK
  <2>3. node' \in [Node -> NodeState]
    BY <1>2 DEF NodeJoins, NodeLeaves, Inv, TypeOK, NodeState
  <2> QED
    BY <1>2, <2>1, <2>2, <2>3
    DEF NodeJoins, NodeLeaves, Inv, TypeOK, IdleInv, MarkMeansSent, workerVars
<1>3. ASSUME NEW n \in Node, NodeCordoned(n) \/ InstanceForgotten(n) \/ \E i \in Instance : InstanceReported(n, i)
      PROVE  Inv'
  <2>1. changes' \in 0..MaxChanges
    BY <1>3, NodesAssumption DEF NodeCordoned, InstanceForgotten, InstanceReported, Change, Inv, TypeOK
  <2>2. node' \in [Node -> NodeState] /\ instance' \in [Node -> Instance]
    BY <1>3 DEF NodeCordoned, InstanceForgotten, InstanceReported, Inv, TypeOK, NodeState, Instance
  <2> QED
    BY <1>3, <2>1, <2>2
    DEF NodeCordoned, InstanceForgotten, InstanceReported, Inv, TypeOK, IdleInv, MarkMeansSent, workerVars
<1>4. ASSUME NEW n \in Node, NodeEvent(n)
      PROVE  Inv'
  BY <1>4 DEF NodeEvent, Inv, TypeOK, IdleInv, MarkMeansSent, clusterVars, workerVars
<1>5. CASE TokenSecretChanges
  <2>1. changes' \in 0..MaxChanges
    BY <1>5, NodesAssumption DEF TokenSecretChanges, Change, Inv, TypeOK
  <2> QED
    BY <1>5, <2>1 DEF TokenSecretChanges, Inv, TypeOK, IdleInv, MarkMeansSent, workerVars
<1> QED
  BY <1>1, <1>2, <1>3, <1>4, <1>5 DEF Environment

\* facts every step of a reconcile starts from
LEMMA WorkFacts ==
    ASSUME Inv
    PROVE  /\ \A n \in Node : cache.entries[n] \in Entry /\ lastEvent[n] <= cache.entries[n].marked
           /\ \A n \in Node : lastEvent[n] \in Nat /\ lastEvent[n] <= lastEvent[n] /\ lastEvent[n] <= Never
           /\ pc # "idle" => current \in Node
           /\ NoEntry \in Entry /\ NoEntry.marked = Never
<1>1. \A n \in Node : lastEvent[n] \in Nat /\ lastEvent[n] <= Never
  BY NodesAssumption DEF Inv, TypeOK, Age, Never
<1>2. NoEntry \in Entry /\ NoEntry.marked = Never
  BY AgeFacts DEF NoEntry, Entry
<1> QED
  BY <1>1, <1>2 DEF Inv, TypeOK, Cache, MarkMeansSent, IdleInv

LEMMA UpdateInv ==
    ASSUME Inv, ReconcileNodeUpdate
    PROVE  /\ Inv'
           /\ pc' # "idle" => \A n \in Node : cache.entries[n].cached => cache'.entries[n].cached
<1>1. current \in Node /\ pc = "node"
  BY WorkFacts DEF ReconcileNodeUpdate
<1>2. UpdatedEntry \in Entry /\ UpdatedEntry.marked = cache.entries[current].marked /\ UpdatedEntry.cached
  BY <1>1, WorkFacts, AgeFacts DEF UpdatedEntry, Entry
<1>3. lastEvent[current] <= UpdatedEntry.marked
  BY <1>1, <1>2, WorkFacts
<1>4. CASE SendFails(current, UpdatedEntry)
  BY <1>1, <1>2, <1>4, SendFailsInv DEF SendFails, Fail, Finish
<1>5. ASSUME NEW e \in Entry, e.cached,
             cache' = [cache EXCEPT !.entries[current] = e],
             lastEvent' \in [Node -> Age],
             \A m \in Node : lastEvent'[m] <= lastEvent[m],
             lastEvent'[current] <= e.marked,
             LeaveNode("prune"),
             UNCHANGED <<clusterVars, listed, queue, configMap, missing, changes, faults>>
      PROVE  Inv' /\ \A n \in Node : cache.entries[n].cached => cache'.entries[n].cached
  <2>1. /\ cache' \in Cache /\ cache'.entries[current] = e
        /\ \A n \in Node \ {current} : cache'.entries[n] = cache.entries[n]
    BY <1>1, <1>5 DEF Inv, TypeOK, Cache
  <2>2. ASSUME NEW n \in Node PROVE lastEvent'[n] <= cache'.entries[n].marked
    <3>1. lastEvent'[n] \in Nat /\ cache.entries[n].marked \in Nat
      BY <1>5, WorkFacts, NodesAssumption DEF Age, Entry
    <3> QED
      BY <1>5, <2>1, <3>1, WorkFacts
  <2>3. Inv'
    BY <1>1, <1>5, <2>1, <2>2, GoesOnInv DEF LeaveNode, PC, NodeState, Instance, Inv, TypeOK
  <2> QED
    BY <1>5, <2>1, <2>3
<1>6. CASE /\ IF found = "cordoned"
                 THEN /\ MarkForTermination(current, UpdatedEntry)
                      /\ cache' = [cache EXCEPT !.entries[current] = Marked(UpdatedEntry)]
                 ELSE /\ UNCHANGED lastEvent
                      /\ cache' = [cache EXCEPT !.entries[current] = UpdatedEntry]
           /\ LeaveNode("prune")
           /\ UNCHANGED <<clusterVars, listed, queue, configMap, missing, changes, faults>>
  <2>1. CASE found = "cordoned"
    <3>1. Marked(UpdatedEntry).cached
      BY <1>2 DEF Marked, Entry
    <3> QED
      BY <1>1, <1>2, <1>3, <1>5, <1>6, <2>1, <3>1, MarkForTerminationInv
  <2>2. CASE found # "cordoned"
    <3>1. lastEvent' \in [Node -> Age]
          /\ lastEvent' = lastEvent
      BY <1>6, <2>2 DEF Inv, TypeOK
    <3> QED
      BY <1>2, <1>3, <1>5, <1>6, <2>2, <3>1, WorkFacts
  <2> QED
    BY <2>1, <2>2
<1> QED
  BY <1>4, <1>6 DEF ReconcileNodeUpdate, SendFails, Fail, Finish

LEMMA DeletionInv ==
    ASSUME Inv, NEW n \in Node, pc \in {"node", "missing"},
           Forget(n), pc' \in PC, pc' # "idle", missing' \subseteq Node, current' = current,
           found' \in NodeState, known' \in Instance,
           UNCHANGED <<clusterVars, listed, queue, configMap, changes, faults>>
    PROVE  Inv'
<1>1. pc # "idle"
  OBVIOUS
<1> QED
  BY <1>1, ForgetInv, GoesOnInv

\* what ForgottenAfterEvent says of one step
Forgotten ==
    \A n \in Node : cache.entries[n].cached /\ ~cache'.entries[n].cached
                    => instance[n] = "none" \/ lastEvent'[n] <= Hour

LEMMA NodeDeletionInv ==
    ASSUME Inv, ReconcileNodeDeletion
    PROVE  Inv' /\ (pc' # "idle" => Forgotten)
<1>1. current \in Node /\ pc = "node"
  BY WorkFacts DEF ReconcileNodeDeletion
<1>2. CASE CannotForget(current)
  BY <1>1, <1>2, WorkFacts, SendFailsInv DEF CannotForget, SendFails, Fail, Finish
<1>3. CASE /\ Forget(current)
           /\ LeaveNode("store")
           /\ UNCHANGED <<clusterVars, listed, queue, configMap, missing, changes, faults>>
  <2>1. Inv'
    BY <1>1, <1>3, DeletionInv DEF LeaveNode, PC, NodeState, Instance, Inv, TypeOK
  <2> QED
    BY <1>1, <1>3, <2>1, ForgetInv DEF Forgotten
<1> QED
  BY <1>2, <1>3 DEF ReconcileNodeDeletion

LEMMA PruneMissingInv ==
    ASSUME Inv, NEW n \in Node, PruneMissing(n)
    PROVE  Inv' /\ (pc' # "idle" => Forgotten)
<1>1. current \in Node /\ pc = "missing"
  BY WorkFacts DEF PruneMissing
<1>2. CASE CannotForget(n)
  BY <1>1, <1>2, WorkFacts, SendFailsInv DEF CannotForget, SendFails, Fail, Finish
<1>3. CASE /\ Forget(n)
           /\ missing' = missing \ {n}
           /\ UNCHANGED <<clusterVars, listed, queue, configMap, pc, current, found, known, changes, faults>>
  <2>1. Inv'
    BY <1>1, <1>3, DeletionInv DEF PC, Inv, TypeOK
  <2> QED
    BY <1>3, <2>1, ForgetInv DEF Forgotten
<1> QED
  BY <1>2, <1>3 DEF PruneMissing

LEMMA PruneInv ==
    ASSUME Inv, Prune
    PROVE  Inv'
<1>1. pc = "prune" /\ current \in Node
  BY WorkFacts DEF Prune
<1>2. /\ lastEvent' \in [Node -> Age] /\ lastEvent' = lastEvent
      /\ current' = current /\ found' \in NodeState /\ known' \in Instance
  BY DEF Prune, Inv, TypeOK
<1>3. CASE cache.updated > PruneInterval
  <2>1. /\ cache' = [cache EXCEPT !.entries =
              [n \in Node |-> IF Deletable(n) THEN NoEntry ELSE cache.entries[n]]]
        /\ missing' \subseteq Node /\ pc' = "missing"
    BY <1>3 DEF Prune, Cached
  <2>2. cache'.entries = [n \in Node |-> IF Deletable(n) THEN NoEntry ELSE cache.entries[n]]
    BY <2>1 DEF Inv, TypeOK, Cache
  <2>3. \A n \in Node : cache'.entries[n] \in Entry /\ lastEvent[n] <= cache'.entries[n].marked
    BY <2>2, WorkFacts
  <2>4. cache' \in Cache
    BY <2>1, <2>2, WorkFacts DEF Inv, TypeOK, Cache
  <2> QED
    BY <1>1, <1>2, <2>1, <2>3, <2>4, WorkFacts, GoesOnInv DEF Prune, PC
<1>4. CASE ~(cache.updated > PruneInterval)
  <2>1. pc' = "store" /\ cache' = cache /\ missing' = missing
    BY <1>4 DEF Prune
  <2> QED
    BY <1>1, <1>2, <2>1, WorkFacts, GoesOnInv DEF Prune, PC, Inv, TypeOK
<1> QED
  BY <1>3, <1>4

LEMMA OtherStepsInv ==
    ASSUME Inv, \/ \E n \in Node : DetermineDynaKube(n)
                \/ ReadNode \/ NoDynaKubeForNode \/ UpdateTimestamp \/ Store \/ ReadFails \/ OperatorRestarts
    PROVE  /\ Inv'
           /\ pc \in {"node", "missing"} /\ pc' # "idle" => cache'.entries = cache.entries
<1>0. \A n \in Node : lastEvent[n] <= lastEvent[n] /\ lastEvent[n] \in Age
  BY WorkFacts DEF Inv, TypeOK
<1>1. ASSUME NEW n \in Node, DetermineDynaKube(n) PROVE Inv' /\ pc = "idle"
  BY <1>1 DEF DetermineDynaKube, Inv, TypeOK, IdleInv, MarkMeansSent, PC, clusterVars
<1>2. CASE ReadNode
  BY <1>2 DEF ReadNode, Inv, TypeOK, IdleInv, MarkMeansSent, PC, clusterVars
<1>3. CASE NoDynaKubeForNode
  <2>1. pc # "idle" /\ pc' = "prune"
    BY <1>3 DEF NoDynaKubeForNode, LeaveNode
  <2> QED
    BY <1>3, <2>1
    DEF NoDynaKubeForNode, LeaveNode, Inv, TypeOK, IdleInv, MarkMeansSent, PC, NodeState, Instance, clusterVars
<1>4. CASE UpdateTimestamp
  <2>1. cache' = [cache EXCEPT !.updated = 0]
    BY <1>4 DEF UpdateTimestamp
  <2>2. cache' \in Cache /\ cache'.entries = cache.entries
    BY <2>1, AgeFacts DEF Inv, TypeOK, Cache
  <2> QED
    BY <1>4, <2>2 DEF UpdateTimestamp, Inv, TypeOK, IdleInv, MarkMeansSent, PC, clusterVars
<1>5. CASE Store
  <2>1. Finish /\ configMap' \in {cache, configMap} /\ lastEvent' = lastEvent
    BY <1>5 DEF Store, Fail
  <2>2. queue' \subseteq Node /\ faults' \in 0..MaxFaults
    BY <1>5, WorkFacts, NodesAssumption DEF Store, Fail, Fault, Inv, TypeOK
  <2> QED
    BY <1>0, <1>5, <2>1, <2>2, FinishInv DEF Store, Finish, Inv, TypeOK, clusterVars
<1>6. CASE ReadFails
  <2>1. Finish /\ configMap' = configMap /\ lastEvent' = lastEvent
    BY <1>6 DEF ReadFails, Fail
  <2>2. queue' \subseteq Node /\ faults' \in 0..MaxFaults
    BY <1>6, WorkFacts, NodesAssumption DEF ReadFails, Fail, Fault, Inv, TypeOK
  <2> QED
    BY <1>0, <1>6, <2>1, <2>2, FinishInv DEF ReadFails, Finish, Inv, TypeOK, clusterVars
<1>7. CASE OperatorRestarts
  <2>1. Finish /\ configMap' = configMap /\ lastEvent' = lastEvent
    BY <1>7 DEF OperatorRestarts
  <2>2. queue' \subseteq Node /\ listed' \subseteq Node /\ faults' \in 0..MaxFaults
    BY <1>7, NodesAssumption DEF OperatorRestarts, Fault, Inv, TypeOK
  <2> QED
    BY <1>0, <1>7, <2>1, <2>2, FinishInv DEF OperatorRestarts, Finish, Inv, TypeOK, clusterVars
<1> QED
  BY <1>1, <1>2, <1>3, <1>4, <1>5, <1>6, <1>7

LEMMA NextInv ==
    ASSUME Inv, [Next]_vars
    PROVE  Inv'
<1>1. CASE UNCHANGED vars
  BY <1>1 DEF vars, clusterVars, workerVars, Inv, TypeOK, IdleInv, MarkMeansSent
<1>2. CASE Next
  BY <1>2, EnvironmentInv, UpdateInv, NodeDeletionInv, PruneMissingInv, PruneInv, OtherStepsInv
  DEF Next, Reconcile, Work
<1> QED
  BY <1>1, <1>2

(***************************************************************************)
(* A mark in the cache, stored or not, is never newer than the last time   *)
(* the tenant was told of the node; and every variable keeps its type.     *)
(***************************************************************************)
THEOREM MarksAreSound == Spec => [](TypeOK /\ MarkMeansSent)
<1>1. Init => Inv
  BY InitInv
<1>2. Inv /\ [Next]_vars => Inv'
  BY NextInv
<1>3. Inv => TypeOK /\ MarkMeansSent
  BY DEF Inv
<1> QED
  BY <1>1, <1>2, <1>3, PTL DEF Spec

(***************************************************************************)
(* reconcileNodeDeletion forgets no node whose OneAgent is still known     *)
(* before the tenant has heard of it within the hour.                      *)
(***************************************************************************)
THEOREM NodesAreForgottenAfterTheirEvent == Spec => ForgottenAfterEvent
<1>1. ASSUME Inv, [Next]_vars
      PROVE  [\A n \in Node :
                 /\ pc \in {"node", "missing"} /\ pc' # "idle"
                 /\ cache.entries[n].cached /\ ~cache'.entries[n].cached
                 => instance[n] = "none" \/ lastEvent'[n] <= Hour]_vars
  <2> SUFFICES ASSUME Next, NEW n \in Node, pc \in {"node", "missing"}, pc' # "idle",
                      cache.entries[n].cached, ~cache'.entries[n].cached
               PROVE  instance[n] = "none" \/ lastEvent'[n] <= Hour
    BY <1>1
  <2>1. CASE Environment
    BY <2>1 DEF Environment, NodeJoins, NodeCordoned, NodeLeaves, TokenSecretChanges, InstanceReported,
       InstanceForgotten, NodeEvent, Tick, workerVars
  <2>2. CASE ReconcileNodeUpdate
    BY <1>1, <2>2, UpdateInv
  <2>3. CASE ReconcileNodeDeletion
    BY <1>1, <2>3, NodeDeletionInv DEF Forgotten
  <2>4. ASSUME NEW m \in Node, PruneMissing(m)
        PROVE  instance[n] = "none" \/ lastEvent'[n] <= Hour
    BY <1>1, <2>4, PruneMissingInv DEF Forgotten
  <2>5. CASE Prune
    BY <2>5 DEF Prune
  <2>6. CASE \/ \E m \in Node : DetermineDynaKube(m)
             \/ ReadNode \/ NoDynaKubeForNode \/ UpdateTimestamp \/ Store \/ ReadFails \/ OperatorRestarts
    <3>1. cache'.entries = cache.entries
      BY <1>1, <2>6, OtherStepsInv
    <3> QED
      BY <3>1
  <2> QED
    BY <2>1, <2>2, <2>3, <2>4, <2>5, <2>6 DEF Next, Reconcile, Work
<1>2. Init => Inv
  BY InitInv
<1>3. Inv /\ [Next]_vars => Inv'
  BY NextInv
<1> QED
  BY <1>1, <1>2, <1>3, PTL DEF Spec, ForgottenAfterEvent

-----------------------------------------------------------------------------
(***************************************************************************)
(* The rollouts.  The argument is a squeeze.  Values only grow, contents   *)
(* of objects never pass the values they are made of, hashes in templates  *)
(* never pass the contents, and a pod starts with contents that are not    *)
(* behind the hash of its template.  Undisturbed reconciles bring contents *)
(* and hashes up to the values, and then the pods have nowhere else to be. *)
(***************************************************************************)

\* templates and pods are functions on the workloads
ShapeInv ==
    /\ template = [w \in Workload |-> template[w]]
    /\ pod = [w \in Workload |-> pod[w]]
TypeInv == RolloutTypeOK /\ ShapeInv

\* contents, source by source; a user secret has one source, a generated one its generation
Below(a, b) == \A s \in Source : a[s] <= b[s]

Copied == Object \ Generated
Reported == {"agTenant", "oaTenant"}

\* nothing happened since the reconcile started, or since the last one did
Undisturbed == quiet # 0 \/ (position # 0 /\ ~spoiled)

\* the worker is at a step that applies, and a reconcile that was disturbed does not count
PositionInv ==
    /\ position # 0 => Enabled(position)
    /\ spoiled => quiet = 0 /\ position # 0

\* an undisturbed reconcile works on current values, and its status was written
CopyInv ==
    /\ Undisturbed => dk = value
    /\ quiet # 0 /\ position = 0 => st = stored

\* no object is ahead of the values that it is made of
ContentInv ==
    /\ Below(dk, value)
    /\ \A o \in Copied : Below(object[o].content, Desired(o))
    /\ \A o \in Generated, s \in Source \ {"generation"} : object[o].content[s] = 0

\* no hash in the status is ahead of its object; the one of the proxy is taken before the secret is written
StatusInv ==
    /\ \A h \in Hash \ {"proxySecret"} : Below(st[h], object[h].content) /\ Below(stored[h], object[h].content)
    /\ Below(st["proxySecret"], Desired("proxySecret")) /\ Below(stored["proxySecret"], Desired("proxySecret"))

\* unless the hash of the KSPM token was lost it is the one of the token
LostInv ==
    ~lost => IF position = 0 THEN stored["kspmToken"] = object["kspmToken"].content ELSE st["kspmToken"] = object["kspmToken"].content

\* the objects whose hashes are taken from elsewhere were brought up to date by an earlier step
ProgressInv ==
    /\ What \in {"agAuth", "agProperties", "agCert", "activeGate"} => dk["attributes"] <= object["attributesConfig"].content["attributes"]
    /\ What \in {"agCert", "activeGate"} /\ With("properties") => raced \/ NoData(value["properties"]) \/ value["properties"] <= object["agProperties"].content["properties"]
    /\ What = "logMonitoring" => Below(LogConfigHash, object["logConfig"].content)

\* properties that changed between copy and hash, and what of a template can be compared with a pod
Exempt(o) == o = "agProperties" /\ raced
Mountable(w) == Hashed(w) \cap (Volumes(w, TRUE) \cup Envs(w))

\* no hash in a template is ahead of its object, and what is hashed but not mounted has no hash
TemplateInv == \A w \in Workload :
    /\ template[w].there => \E i \in 1..Len(Steps) : Enabled(i) /\ Made(i) = w
    /\ \A o \in Hashed(w) : Exempt(o) \/ Below(template[w].hash[o], ContentOf(o))
    /\ \A o \in Mountable(w) : o \in template[w].volumes \cup Envs(w) \/ template[w].hash[o] = Nothing

\* a pod is not behind the hash it started with, and not ahead of the object
PodInv == \A w \in Workload :
    /\ pod[w].there => template[w].there
    /\ \A o \in Mountable(w) :
         /\ Exempt(o) \/ Below(pod[w].hash[o], pod[w].content[o])
         /\ Below(pod[w].content[o], ContentOf(o))

\* the step of an object succeeded in this reconcile, or an undisturbed reconcile is over;
\* then the object is there and holds what it should, and so does its hash in the status
Done(o) == \E i \in 1..Len(Steps) :
    Enabled(i) /\ Made(i) = o /\ (quiet # 0 \/ (i < position /\ ~spoiled))
Skipped(o) == NoProperties /\ (o = "kmProperties" \/ (o = "agProperties" /\ ~NeedsCustomNoProxy))
DoneInv ==
    /\ \A o \in Copied : Done(o) => Skipped(o) \/ (object[o].there /\ object[o].content = Desired(o))
    /\ \A o \in Generated : Done(o) => object[o].there /\ o \notin outdated
    /\ \A o \in Reported \cup {"proxySecret"} : Done(o) => st[o] = Desired(o)

\* The properties.  The StatefulSet of the kubemon operand is only reached after the copy of the properties was made, in an
\* undisturbed reconcile only if there are some; the copy stays, and the ActiveGates run only after theirs was made.
PropertiesInv ==
    /\ What = "kubemon" /\ With("properties") => object["kmProperties"].there /\ (Undisturbed => ~NoData(value["properties"]))
    /\ template["kubemon"].there =>
         /\ template["kubemon"].volumes = KubemonVolumes /\ template["kubemon"].mounts = KubemonVolumes
         /\ With("properties") => object["kmProperties"].there
    /\ template["activeGate"].there /\ With("properties") => "agProperties" \in template["activeGate"].volumes
    /\ pod["activeGate"].there /\ With("properties") => object["agProperties"].there

\* the step of a workload succeeded after an undisturbed reconcile was over;
\* then its template is the one that would be built now, unless it waits for properties
Blocked(w) == w = "kubemon" /\ NoProperties
Deployed(w) == \E i \in 1..Len(Steps) :
    Enabled(i) /\ Made(i) = w /\ (quiet = MaxQuiet \/ (quiet # 0 /\ i < position))
DeployedInv == \A w \in Workload : Deployed(w) => Blocked(w) \/ template[w] = TemplateOf(w)

-----------------------------------------------------------------------------
(* The steps *)

LEMMA StepTable ==
    /\ Len(Steps) = 28
    /\ Component(1) = "proxy" /\ Made(1) = "proxySecret"
    /\ \A i \in 2..8 : Component(i) = "activeGate"
    /\ Made(2) = "agTenant" /\ Made(3) = "agConnection" /\ Made(4) = "attributesConfig" /\ Made(5) = "agAuth"
    /\ Made(6) = "agProperties" /\ Made(7) = "agCert" /\ Made(8) = "activeGate"
    /\ \A i \in 9..13 : Component(i) = "kubemon"
    /\ Made(9) = "kmConnection" /\ Made(10) = "kmTenant" /\ Made(11) = "kmAuth" /\ Made(12) = "kmProperties" /\ Made(13) = "kubemon"
    /\ \A i \in 14..17 : Component(i) = "extension"
    /\ Made(14) = "extToken" /\ Made(15) = "extCert" /\ Made(16) = "eec" /\ Made(17) = "databases"
    /\ \A i \in 18..19 : Component(i) = "otelc"
    /\ Made(18) = "collectorConfig" /\ Made(19) = "collector"
    /\ \A i \in 20..21 : Component(i) = "kspm"
    /\ Made(20) = "kspmToken" /\ Made(21) = "kspm"
    /\ \A i \in 22..24 : Component(i) = "logMonitoring"
    /\ Made(22) = "oaTenant" /\ Made(23) = "logConfig" /\ Made(24) = "logMonitoring"
    /\ Component(25) = "injection" /\ Made(25) = "pgcConfig"
    /\ \A i \in 26..27 : Component(i) = "oneAgent"
    /\ Made(26) = "oaTenant" /\ Made(27) = "oneAgent"
    /\ Component(28) = "status" /\ Made(28) = "write"
BY DEF Steps, Component, Made

LEMMA Positions ==
    /\ \A i \in 1..28 : Made(i) \in Object \cup Workload \cup {"write"}
    /\ \A i \in 1..28 : Made(i) = "write" => i = 28
    /\ \A i \in 1..28 : Made(i) = "activeGate" <=> i = 8
    /\ \A i \in 1..28 : Made(i) = "logMonitoring" <=> i = 24
    /\ \A i \in 1..28 : Made(i) = "kubemon" <=> i = 13
    /\ \A i \in 1..28 : Made(i) = "kmProperties" <=> i = 12
BY StepTable DEF Object, Workload

\* The features of the DynaKube and all that follows from them stay.
LEMMA SpecFixed ==
    ASSUME spec' = spec
    PROVE  /\ \A f : (On(f)' <=> On(f)) /\ (With(f)' <=> With(f))
           /\ NeedsPGC' <=> NeedsPGC
           /\ \A i : Enabled(i)' <=> Enabled(i)
           /\ \A w : Hashed(w)' = Hashed(w) /\ Envs(w)' = Envs(w)
           /\ \A w, b : Volumes(w, b)' = Volumes(w, b)
           /\ \A w, b : Mounts(w, b)' = Mounts(w, b)
<1> USE DEF On, With
<1>1. \A f : (On(f)' <=> On(f)) /\ (With(f)' <=> With(f))
  OBVIOUS
<1>2. /\ HasCaCert' <=> HasCaCert
      /\ NeedsCustomNoProxy' <=> NeedsCustomNoProxy
      /\ NeedsActiveGateProxy' <=> NeedsActiveGateProxy
      /\ NeedsOneAgentProxy' <=> NeedsOneAgentProxy
      /\ Extends' <=> Extends
      /\ NeedsPGC' <=> NeedsPGC
      /\ MonitorsKubernetes' <=> MonitorsKubernetes
      /\ IsTrustedCAsVolumeNeeded' <=> IsTrustedCAsVolumeNeeded
  BY DEF HasCaCert, NeedsCustomNoProxy, NeedsActiveGateProxy, NeedsOneAgentProxy, Extends, NeedsPGC, MonitorsKubernetes, IsTrustedCAsVolumeNeeded
<1>3. ASSUME NEW i PROVE Enabled(i)' <=> Enabled(i)
  BY <1>2 DEF Enabled, Wanted, Applies, Component, Made, Steps
<1>4. CertVolumes' = CertVolumes /\ KSPMTokenVolumes' = KSPMTokenVolumes /\ TrustedCAsVolumes' = TrustedCAsVolumes
  BY <1>2 DEF CertVolumes, KSPMTokenVolumes, TrustedCAsVolumes, When
<1>5. ActiveGateVolumes' = ActiveGateVolumes
  BY <1>2, <1>4 DEF ActiveGateVolumes, BaseVolumes, AuthTokenVolumes, RawImageVolumes, SSLVolumes, DeploymentPropertiesVolumes,
    CustomPropertiesVolumes, ProxyVolumes, ReadOnlyVolumes, KubernetesMonitoringVolumes, EECTokenVolumes, When
<1>6. KubemonVolumes' = KubemonVolumes /\ EECClaims' = EECClaims /\ EECVolumes' = EECVolumes /\ EECMounts' = EECMounts
  BY <1>2, <1>4 DEF KubemonVolumes, EECClaims, EECVolumes, EECMounts, When
<1>7. CollectorVolumes' = CollectorVolumes /\ CollectorEnvs' = CollectorEnvs
  BY <1>2, <1>4 DEF CollectorVolumes, CollectorEnvs, When
<1>8. DatabaseVolumes' = DatabaseVolumes /\ KSPMVolumes' = KSPMVolumes
  BY <1>2, <1>4 DEF DatabaseVolumes, KSPMVolumes
<1>9. ASSUME NEW b PROVE OneAgentVolumes(b)' = OneAgentVolumes(b)
  BY <1>2, <1>4 DEF OneAgentVolumes, When
<1>10. ASSUME NEW w, NEW b PROVE Volumes(w, b)' = Volumes(w, b)
  BY <1>5, <1>6, <1>7, <1>8, <1>9 DEF Volumes, LogMonitoringVolumes
<1>11. ASSUME NEW w, NEW b PROVE Mounts(w, b)' = Mounts(w, b)
  BY <1>6, <1>7, <1>9, <1>10 DEF Mounts, KubemonMounts, CollectorMounts, OneAgentMounts
<1>12. ASSUME NEW w PROVE Envs(w)' = Envs(w)
  BY <1>7 DEF Envs
<1>13. ActiveGateHashed' = ActiveGateHashed /\ KubemonHashed' = KubemonHashed /\ CollectorHashed' = CollectorHashed /\ OneAgentHashed' = OneAgentHashed
  BY <1>2, <1>4, <1>6, <1>7 DEF ActiveGateHashed, KubemonHashed, CollectorHashed, OneAgentHashed, When
<1>14. ASSUME NEW w PROVE Hashed(w)' = Hashed(w)
  BY <1>13 DEF Hashed
<1> QED
  BY <1>1, <1>2, <1>3, <1>10, <1>11, <1>12, <1>14

-----------------------------------------------------------------------------
(* How the position moves *)

LEMMA WhatIs ==
    ASSUME position \in 0..Len(Steps)
    PROVE  /\ \A x : x # "nothing" /\ What = x => position \in 1..28 /\ Made(position) = x
           /\ position # 0 => What = Made(position)
BY StepTable DEF What

LEMMA NextStepFacts ==
    ASSUME position \in 0..Len(Steps), position' \in NextStep
    PROVE  /\ position' \in 1..28 /\ position < position' /\ Enabled(position')
           /\ \A i \in 1..28 : Enabled(i) /\ i < position' => i <= position
           /\ Made(position') \in {"agAuth", "agProperties", "agCert", "activeGate"} => position \in 4..7
           /\ Made(position') \in {"agCert", "activeGate"} /\ With("properties") => position \in 6..7
           /\ Made(position') = "logMonitoring" => position = 23
           /\ Made(position') = "kubemon" /\ With("properties") => position = 12
<1>1. /\ position' \in 1..28 /\ position < position' /\ Enabled(position')
      /\ \A i \in 1..28 : Enabled(i) /\ i < position' => i <= position
  BY StepTable DEF NextStep
<1>2. ASSUME Made(position') \in {"agAuth", "agProperties", "agCert", "activeGate"}
      PROVE  position \in 4..7 /\ (Made(position') \in {"agCert", "activeGate"} /\ With("properties") => position \in 6..7)
  <2>1. position' \in 5..8 /\ (Made(position') \in {"agCert", "activeGate"} => position' \in 7..8)
    BY <1>1, <1>2, StepTable
  <2>2. On("activeGate")
    BY <1>1, <2>1, StepTable DEF Enabled, Wanted
  <2>3. Enabled(4) /\ (With("properties") => Enabled(6))
    BY <2>2, StepTable DEF Enabled, Wanted, Applies
  <2>4. 4 <= position
    BY <1>1, <2>1, <2>3
  <2>5. With("properties") /\ position' \in 7..8 => 6 <= position
    BY <1>1, <2>3
  <2> QED
    BY <1>1, <2>1, <2>4, <2>5, StepTable
<1>3. ASSUME Made(position') = "logMonitoring" PROVE position = 23
  <2>1. position' = 24
    BY <1>1, <1>3, Positions
  <2>2. Enabled(23)
    BY <1>1, <2>1, StepTable DEF Enabled, Wanted, Applies
  <2> QED
    BY <1>1, <2>1, <2>2
<1>4. ASSUME Made(position') = "kubemon", With("properties") PROVE position = 12
  <2>1. position' = 13
    BY <1>1, <1>4, Positions
  <2>2. Enabled(12)
    BY <1>1, <1>4, <2>1, StepTable DEF Enabled, Wanted, Applies
  <2> QED
    BY <1>1, <2>1, <2>2
<1> QED
  BY <1>1, <1>2, <1>3, <1>4

LEMMA NextComponentFacts ==
    ASSUME position \in 1..28, position' \in NextComponent
    PROVE  /\ position' \in 1..28 /\ position < position' /\ Enabled(position')
           /\ Made(position') \notin {"agAuth", "agProperties", "agCert", "activeGate", "logMonitoring", "kubemon"}
           /\ Made(position) \in Workload \cup {"kmProperties"} =>
                \A i \in 1..28 : Enabled(i) /\ Made(i) \in Object /\ i < position' => i <= position
           /\ Made(position) = "kmProperties" => \A i \in 1..28 : Enabled(i) /\ i < position' => i <= 13
<1>1. CASE Component(position) = "proxy"
  <2>1. position' = 28 /\ position = 1
    BY <1>1, StepTable DEF NextComponent
  <2>2. Enabled(28) /\ Made(position) \notin Workload \cup {"kmProperties"}
    BY <2>1, StepTable DEF Enabled, Wanted, Applies, Workload
  <2> QED
    BY <2>1, <2>2, StepTable
<1>2. CASE Component(position) # "proxy"
  <2>1. /\ position' \in 1..28 /\ position < position' /\ Enabled(position') /\ Component(position') # Component(position)
        /\ \A j \in 1..28 : position < j /\ j < position' /\ Enabled(j) => Component(j) = Component(position)
    BY <1>2, StepTable DEF NextComponent
  <2>2. position # 1
    BY <1>2, StepTable
  <2>3. ASSUME Made(position') \in {"agAuth", "agProperties", "agCert", "activeGate"} PROVE FALSE
    <3>1. position' \in 5..8
      BY <2>1, <2>3, StepTable
    <3> QED
      BY <2>1, <2>2, <3>1, StepTable
  <2>4. ASSUME Made(position') = "logMonitoring" PROVE FALSE
    <3>1. position' = 24
      BY <2>1, <2>4, Positions
    <3>2. position < 22
      BY <2>1, <3>1, StepTable
    <3>3. Enabled(22)
      BY <2>1, <3>1, StepTable DEF Enabled, Wanted, Applies
    <3> QED
      BY <2>1, <3>1, <3>2, <3>3, StepTable
  <2>5. ASSUME Made(position) \in Workload \cup {"kmProperties"}, NEW i \in 1..28, Enabled(i), Made(i) \in Object, i < position', ~(i <= position)
        PROVE  FALSE
    <3>2. position < i /\ i < position'
      BY <2>1, <2>5
    <3>3. Component(i) = Component(position)
      BY <2>1, <2>5, <3>2
    <3>4. position \in {8, 12, 13, 16, 17, 19, 21, 24, 27}
      BY <2>5, StepTable DEF Workload
    <3>5. i \in {1, 2, 3, 4, 5, 6, 7, 9, 10, 11, 12, 14, 15, 18, 20, 22, 23, 25, 26}
      BY <2>5, StepTable DEF Object
    <3> QED
      BY <3>2, <3>3, <3>4, <3>5, StepTable
  <2>6. ASSUME Made(position') = "kubemon" PROVE FALSE
    <3>1. position' = 13
      BY <2>1, <2>6, Positions
    <3>2. position < 9
      BY <2>1, <3>1, StepTable
    <3>3. Enabled(9)
      BY <2>1, <3>1, StepTable DEF Enabled, Wanted, Applies
    <3> QED
      BY <2>1, <3>1, <3>2, <3>3, StepTable
  <2>7. ASSUME Made(position) = "kmProperties", NEW i \in 1..28, Enabled(i), i < position', ~(i <= 13) PROVE FALSE
    <3>1. position = 12
      BY <2>7, Positions
    <3>2. Component(i) = Component(12)
      BY <2>1, <2>7, <3>1
    <3>3. Component(12) = "kubemon" /\ Component(i) # "kubemon"
      BY <2>7, StepTable
    <3> QED
      BY <3>2, <3>3
  <2> QED
    BY <2>1, <2>3, <2>4, <2>5, <2>6, <2>7
<1> QED
  BY <1>1, <1>2

-----------------------------------------------------------------------------
(* Types *)

LEMMA Strings ==
    /\ Hash \subseteq Object /\ Generated \subseteq Object /\ Rotated \subseteq Generated /\ Copied \subseteq Object
    /\ Object \cap UserSecret = {} /\ SpecSource \subseteq Source /\ UserSecret \subseteq Source
    /\ Hash = Reported \cup {"kspmToken", "proxySecret"} /\ Reported \cup {"proxySecret"} \subseteq Copied
    /\ Hash \cap Generated = {"kspmToken"} /\ Rotated \cap Hash = {}
    /\ "nothing" \notin Object \cup Workload /\ "write" \notin Object \cup Workload /\ Object \cap Workload = {}
BY DEF Hash, Object, Generated, Rotated, Copied, UserSecret, SpecSource, Source, Reported, Workload

LEMMA FromIs ==
    ASSUME RolloutTypeOK, NEW ss
    PROVE  /\ From(ss) \in Content
           /\ \A s \in Source : From(ss)[s] = IF s \in ss THEN Read(s) ELSE 0
<1>1. \A s \in Source : Read(s) \in Nat
  BY DEF RolloutTypeOK, Read, Content
<1> QED
  BY <1>1 DEF From, Content

LEMMA NothingIs == Nothing \in Content /\ \A s \in Source : Nothing[s] = 0
BY DEF Nothing, Content

LEMMA LogConfigIs ==
    ASSUME RolloutTypeOK
    PROVE  /\ LogConfig \in Content
           /\ \A s \in Source : LogConfig[s] =
                IF s = "tenantToken" THEN object["oaTenant"].content["tenantToken"]
                ELSE IF s \in {"endpoints"} \cup ({"proxy", "noProxy", "networkZone"} \cap spec.with) THEN Read(s) ELSE 0
<1>1. object["oaTenant"].content \in Content
  BY DEF RolloutTypeOK, Object
<1> QED
  BY <1>1, FromIs DEF LogConfig, Content, Source

LEMMA LogConfigHashIs ==
    ASSUME RolloutTypeOK
    PROVE  /\ LogConfigHash \in Content
           /\ \A s \in Source : LogConfigHash[s] =
                IF s = "tenantToken" THEN st["oaTenant"]["tenantToken"]
                ELSE IF s = "proxy" THEN IF With("proxy") THEN st["proxySecret"]["proxy"] ELSE 0
                ELSE IF s \in {"noProxy", "networkZone"} /\ With(s) THEN dk[s] ELSE 0
<1>1. st["oaTenant"] \in Content /\ st["proxySecret"] \in Content
  BY DEF RolloutTypeOK, Hash
<1>2. "proxy" \in Source /\ "tenantToken" \in Source
  BY DEF Source, SpecSource, UserSecret
<1>3. st["oaTenant"]["tenantToken"] \in Nat /\ st["proxySecret"]["proxy"] \in Nat
  BY <1>1, <1>2 DEF Content
<1>4. Read("noProxy") = dk["noProxy"] /\ Read("networkZone") = dk["networkZone"]
  BY DEF Read, SpecSource
<1> DEFINE base == From({"noProxy", "networkZone"} \cap spec.with)
           proxy == IF With("proxy") THEN st["proxySecret"]["proxy"] ELSE 0
           token == st["oaTenant"]["tenantToken"]
<1>5. base \in Content /\ \A s \in Source : base[s] = IF s \in {"noProxy", "networkZone"} /\ With(s) THEN dk[s] ELSE 0
  BY <1>4, FromIs DEF With
<1>6. LogConfigHash = [base EXCEPT !["tenantToken"] = token, !["proxy"] = proxy]
  BY DEF LogConfigHash
<1>7. proxy \in Nat /\ token \in Nat
  BY <1>3
<1> HIDE DEF base, proxy, token
<1>8. LogConfigHash \in Content
  BY <1>5, <1>6, <1>7 DEF Content
<1>9. \A s \in Source : LogConfigHash[s] = IF s = "tenantToken" THEN token ELSE IF s = "proxy" THEN proxy ELSE base[s]
  BY <1>2, <1>5, <1>6 DEF Content
<1> QED
  BY <1>5, <1>8, <1>9 DEF proxy, token

LEMMA DesiredType == ASSUME RolloutTypeOK, NEW o \in Copied PROVE Desired(o) \in Content
<1>1. o \in {"proxySecret", "agTenant", "kmTenant", "oaTenant", "attributesConfig", "agProperties", "kmProperties",
             "collectorConfig", "pgcConfig", "logConfig", "agConnection", "kmConnection"}
  BY DEF Copied, Object, Generated, Rotated
<1> QED
  BY <1>1, FromIs, LogConfigIs, NothingIs DEF Desired, CustomPropertiesValue

LEMMA ContentType ==
    ASSUME RolloutTypeOK, NEW o \in Object \cup UserSecret
    PROVE  /\ ContentOf(o) \in Content
           /\ o \in Object => ContentOf(o) = object[o].content
           /\ o \in UserSecret => \A s \in Source : ContentOf(o)[s] = IF s = o THEN value[o] ELSE 0
<1>1. CASE o \in UserSecret
  <2>1. o \in Source /\ value[o] \in Nat /\ o \notin Object
    BY <1>1, Strings DEF RolloutTypeOK, Content
  <2> QED
    BY <1>1, <2>1, NothingIs DEF ContentOf, Content
<1>2. CASE o \notin UserSecret
  BY <1>2 DEF ContentOf, RolloutTypeOK
<1> QED
  BY <1>1, <1>2

LEMMA HashType == ASSUME RolloutTypeOK, NEW w, NEW o \in Object \cup UserSecret PROVE HashOf(w, o) \in Content
<1>1. o \in {"agTenant", "oaTenant", "kspmToken"} => st[o] \in Content
  BY DEF RolloutTypeOK, Hash
<1> QED
  BY <1>1, FromIs, LogConfigHashIs, NothingIs, ContentType DEF HashOf

LEMMA NextGenerationIs ==
    ASSUME RolloutTypeOK, NEW o \in Object
    PROVE  /\ NextGeneration(o) \in Content
           /\ \A s \in Source : NextGeneration(o)[s] = IF s = "generation" THEN object[o].content["generation"] + 1 ELSE 0
<1>1. "generation" \in Source
  BY DEF Source
<1>2. object[o].content["generation"] \in Nat
  BY <1>1 DEF RolloutTypeOK, Content
<1> QED
  BY <1>1, <1>2, NothingIs DEF NextGeneration, Content

LEMMA WriteIs ==
    ASSUME RolloutTypeOK, NEW o \in Object, NEW content \in Content, Write(o, content)
    PROVE  /\ object' \in [Object -> [there : BOOLEAN, content : Content]]
           /\ object'[o] = [there |-> TRUE, content |-> content] /\ object'[o].there /\ object'[o].content = content
           /\ \A x \in Object : x # o => object'[x] = object[x]
BY DEF RolloutTypeOK, Write

LEMMA InitTypes == ASSUME RolloutInit PROVE TypeInv
<1>1. value \in Content
  <2>1. \A n \in {0, 1} : InitialValue(n) \in Content
    BY DEF InitialValue, Content
  <2> QED
    BY <2>1 DEF RolloutInit
<1>2. NoTemplate.there = FALSE /\ NoTemplate.hash \in [Object \cup UserSecret -> Content] /\ NoTemplate.hash = [o \in Object \cup UserSecret |-> Nothing]
  BY NothingIs DEF NoTemplate
<1>3. NoPod.there = FALSE /\ NoPod.hash = NoTemplate.hash /\ NoPod.content = NoTemplate.hash
  BY DEF NoPod
<1>4. object \in [Object -> [there : BOOLEAN, content : Content]]
  BY NothingIs DEF RolloutInit
<1>5. st \in [Hash -> Content] /\ stored \in [Hash -> Content]
  BY NothingIs DEF RolloutInit, NoHashes
<1>6. disturbances \in 0..MaxDisturbances
  BY BoundAssumption DEF RolloutInit
<1>7. \A w \in Workload : template[w] = NoTemplate /\ pod[w] = NoPod
  BY DEF RolloutInit
<1>8. ShapeInv
  BY DEF RolloutInit, ShapeInv
<1>9. spec \in Specs /\ dk \in Content /\ outdated = {} /\ position = 0 /\ quiet = 0 /\ spoiled = FALSE /\ raced = FALSE /\ lost = FALSE
  BY <1>1 DEF RolloutInit
<1>10. position \in 0..Len(Steps) /\ quiet \in 0..MaxQuiet
  BY <1>9, StepTable DEF MaxQuiet
<1>11. \A w \in Workload :
          /\ template[w].there \in BOOLEAN /\ template[w].hash \in [Object \cup UserSecret -> Content]
          /\ pod[w].there \in BOOLEAN
          /\ pod[w].hash \in [Object \cup UserSecret -> Content] /\ pod[w].content \in [Object \cup UserSecret -> Content]
  BY <1>2, <1>3, <1>7
<1> QED
  BY <1>1, <1>4, <1>5, <1>6, <1>8, <1>9, <1>10, <1>11 DEF TypeInv, RolloutTypeOK

LEMMA CountedTypes ==
    ASSUME TypeInv
    PROVE  /\ Disturb => disturbances' \in 0..MaxDisturbances /\ quiet' \in 0..MaxQuiet /\ spoiled' \in BOOLEAN
           /\ NoFault => disturbances' \in 0..MaxDisturbances /\ quiet' \in 0..MaxQuiet /\ spoiled' \in BOOLEAN
           /\ Counted => disturbances' \in 0..MaxDisturbances
<1>1. disturbances \in 0..MaxDisturbances /\ quiet \in 0..2 /\ spoiled \in BOOLEAN
  BY DEF TypeInv, RolloutTypeOK, MaxQuiet
<1>2. Counted => disturbances' \in 0..MaxDisturbances
  BY <1>1, BoundAssumption DEF Counted
<1>3. Disturb => spoiled' \in BOOLEAN
  BY DEF Disturb
<1>4. Disturb => quiet' \in 0..MaxQuiet /\ Counted
  BY DEF Disturb, MaxQuiet
<1>5. NoFault => disturbances' \in 0..MaxDisturbances /\ quiet' \in 0..MaxQuiet /\ spoiled' \in BOOLEAN
  BY <1>1 DEF NoFault, MaxQuiet
<1> QED
  BY <1>2, <1>3, <1>4, <1>5

\* The position after a step of the worker.
LEMMA MoveTypes ==
    ASSUME TypeInv, position # 0
    PROVE  /\ Succeeds => position' \in 0..Len(Steps)
           /\ position' \in NextComponent => position' \in 0..Len(Steps)
<1>1. position \in 1..28
  BY StepTable DEF TypeInv, RolloutTypeOK
<1> QED
  BY <1>1, NextStepFacts, NextComponentFacts, StepTable DEF TypeInv, RolloutTypeOK, Succeeds

LEMMA TemplateIs ==
    ASSUME TypeInv, NEW w
    PROVE  /\ TemplateOf(w).there = TRUE
           /\ TemplateOf(w).volumes = Volumes(w, object["pgcConfig"].there)
           /\ TemplateOf(w).mounts = Mounts(w, object["pgcConfig"].there)
           /\ TemplateOf(w).hash \in [Object \cup UserSecret -> Content]
           /\ \A o \in Object \cup UserSecret : TemplateOf(w).hash[o] = IF o \in Hashed(w) THEN HashOf(w, o) ELSE Nothing
BY HashType, NothingIs DEF TemplateOf, TypeInv

LEMMA CopyObjectTypes == ASSUME TypeInv, CopyObject PROVE RolloutTypeOK'
<1>1. What \in Copied /\ What \in Object /\ position # 0 /\ RolloutTypeOK
  BY Strings DEF CopyObject, Copied, What, TypeInv
<1>2. object' \in [Object -> [there : BOOLEAN, content : Content]]
  BY <1>1, WriteIs, DesiredType DEF CopyObject, CreateOrUpdate, RolloutTypeOK
<1>3. st' \in [Hash -> Content]
  BY <1>1, DesiredType DEF CopyObject, HashStatus, RolloutTypeOK
<1>4. stored' \in [Hash -> Content]
  BY <1>1, <1>3 DEF CopyObject, SaveStatus, RolloutTypeOK
<1>5. /\ position' \in 0..Len(Steps) /\ disturbances' \in 0..MaxDisturbances /\ quiet' \in 0..MaxQuiet /\ spoiled' \in BOOLEAN
  BY <1>1, MoveTypes, CountedTypes DEF CopyObject, Succeeds, Fails
<1> QED
  BY <1>1, <1>2, <1>3, <1>4, <1>5 DEF CopyObject, RolloutTypeOK

LEMMA SkipObjectTypes == ASSUME TypeInv, SkipObject PROVE TypeInv'
<1>1. What # "nothing"
  BY DEF SkipObject, Leaves, Refuses
<1>2. position # 0
  BY <1>1 DEF What
<1>3. position' \in 0..Len(Steps) /\ disturbances' \in 0..MaxDisturbances /\ quiet' \in 0..MaxQuiet /\ spoiled' \in BOOLEAN
  BY <1>2, MoveTypes, CountedTypes DEF SkipObject, Goes, Succeeds, Fails
<1> QED
  BY <1>3 DEF SkipObject, TypeInv, RolloutTypeOK, ShapeInv

LEMMA GenerateTypes == ASSUME TypeInv, Generate PROVE RolloutTypeOK'
<1>1. What \in Generated /\ What \in Object /\ position # 0 /\ RolloutTypeOK
  BY Strings DEF Generate, What, TypeInv
<1>2. NextGeneration(What) \in Content
  BY <1>1, NextGenerationIs
<1>3. object' \in [Object -> [there : BOOLEAN, content : Content]]
  BY <1>1, <1>2, WriteIs DEF Generate, RolloutTypeOK
<1>4. st' \in [Hash -> Content]
  BY <1>1, <1>2 DEF Generate, RolloutTypeOK
<1>5. /\ position' \in 0..Len(Steps) /\ disturbances' \in 0..MaxDisturbances /\ quiet' \in 0..MaxQuiet /\ spoiled' \in BOOLEAN
  BY <1>1, MoveTypes, CountedTypes DEF Generate, Goes, Succeeds, Fails
<1>6. lost' \in BOOLEAN
  BY <1>1 DEF Generate, RolloutTypeOK
<1> QED
  BY <1>1, <1>3, <1>4, <1>5, <1>6 DEF Generate, RolloutTypeOK

LEMMA RotateTypes == ASSUME TypeInv, Rotate PROVE RolloutTypeOK'
<1>1. What \in Rotated /\ What \in Object /\ position # 0 /\ RolloutTypeOK
  BY Strings DEF Rotate, What, TypeInv
<1>2. NextGeneration(What) \in Content
  BY <1>1, NextGenerationIs
<1>3. object' \in [Object -> [there : BOOLEAN, content : Content]]
  <2>1. [object EXCEPT ![What].there = FALSE] \in [Object -> [there : BOOLEAN, content : Content]]
    BY <1>1 DEF RolloutTypeOK
  <2> QED
    BY <1>1, <1>2, <2>1, WriteIs DEF Rotate, RolloutTypeOK
<1>4. outdated' \subseteq Rotated
  BY <1>1 DEF Rotate, RolloutTypeOK
<1>5. /\ position' \in 0..Len(Steps) /\ disturbances' \in 0..MaxDisturbances /\ quiet' \in 0..MaxQuiet /\ spoiled' \in BOOLEAN
  BY <1>1, MoveTypes, CountedTypes DEF Rotate, Goes, Succeeds, Fails
<1> QED
  BY <1>1, <1>3, <1>4, <1>5 DEF Rotate, RolloutTypeOK

LEMMA DeployTypes == ASSUME TypeInv, Deploy PROVE TypeInv'
<1>1. What \in Workload /\ position # 0 /\ RolloutTypeOK
  BY Strings DEF Deploy, What, TypeInv
<1>2. /\ position' \in 0..Len(Steps) /\ disturbances' \in 0..MaxDisturbances /\ quiet' \in 0..MaxQuiet /\ spoiled' \in BOOLEAN
  BY <1>1, MoveTypes, CountedTypes DEF Deploy, Goes, Succeeds, Fails
<1>3. CASE UNCHANGED template
  BY <1>1, <1>2, <1>3 DEF Deploy, RolloutTypeOK, TypeInv, ShapeInv
<1>4. CASE template' = [template EXCEPT ![What] = TemplateOf(What)]
  <2>1. ShapeInv'
    BY <1>1, <1>4 DEF Deploy, TypeInv, ShapeInv
  <2>2. \A w \in Workload : template'[w] = IF w = What THEN TemplateOf(What) ELSE template[w]
    BY <1>1, <1>4 DEF TypeInv, ShapeInv
  <2>3. \A w \in Workload : template'[w].there \in BOOLEAN /\ template'[w].hash \in [Object \cup UserSecret -> Content]
    BY <1>1, <2>2, TemplateIs DEF RolloutTypeOK
  <2> QED
    BY <1>1, <1>2, <2>1, <2>3 DEF Deploy, RolloutTypeOK, TypeInv
<1> QED
  BY <1>3, <1>4 DEF Deploy

LEMMA StartPodsIs ==
    ASSUME TypeInv, NEW w \in Workload, StartPods(w)
    PROVE  /\ ShapeInv'
           /\ \A v \in Workload : v # w => pod'[v] = pod[v]
           /\ pod'[w].there = TRUE /\ pod'[w].hash = template[w].hash
           /\ pod'[w].content \in [Object \cup UserSecret -> Content]
           /\ \A o \in Object \cup UserSecret : pod'[w].content[o] = IF o \in Needs(w) THEN ContentOf(o) ELSE Nothing
<1> DEFINE content == [o \in Object \cup UserSecret |-> IF o \in Needs(w) THEN ContentOf(o) ELSE Nothing]
           new == [there |-> TRUE, hash |-> template[w].hash, content |-> content]
<1>1. pod' = [pod EXCEPT ![w] = new] /\ UNCHANGED template
  BY DEF StartPods
<1>2. content \in [Object \cup UserSecret -> Content]
  BY ContentType, NothingIs DEF TypeInv
<1>3. new.there = TRUE /\ new.hash = template[w].hash /\ new.content = content
  OBVIOUS
<1> HIDE DEF new
<1>4. pod'[w] = new /\ \A v \in Workload : v # w => pod'[v] = pod[v]
  BY <1>1 DEF TypeInv, ShapeInv
<1>5. ShapeInv'
  BY <1>1 DEF TypeInv, ShapeInv
<1> QED
  BY <1>2, <1>3, <1>4, <1>5

LEMMA TypesStep == ASSUME TypeInv, [RolloutNext]_rolloutVars PROVE TypeInv'
<1> USE DEF TypeInv
<1>1. CASE StartReconcile
  <2>1. position' \in 0..Len(Steps)
    BY <1>1, NextStepFacts, StepTable DEF StartReconcile, RolloutTypeOK
  <2> QED
    BY <1>1, <2>1 DEF StartReconcile, RolloutTypeOK, ShapeInv
<1>2. CASE CopyObject \/ SkipObject
  BY <1>2, CopyObjectTypes, SkipObjectTypes DEF CopyObject, ShapeInv
<1>3. CASE Generate
  BY <1>3, GenerateTypes DEF Generate, ShapeInv
<1>4. CASE Rotate
  BY <1>4, RotateTypes DEF Rotate, ShapeInv
<1>5. CASE Deploy
  BY <1>5, DeployTypes
<1>6. CASE WriteStatus
  <2>1. disturbances' \in 0..MaxDisturbances
    BY <1>6, CountedTypes DEF WriteStatus, RolloutTypeOK
  <2>2. spoiled' \in BOOLEAN /\ lost' \in BOOLEAN
    BY <1>6 DEF WriteStatus, RolloutTypeOK
  <2>3. quiet' \in 0..MaxQuiet
    BY <1>6 DEF WriteStatus, RolloutTypeOK, MaxQuiet
  <2>4. position' \in 0..Len(Steps)
    BY <1>6, StepTable DEF WriteStatus
  <2>5. stored' \in [Hash -> Content]
    BY <1>6 DEF WriteStatus, RolloutTypeOK
  <2> QED
    BY <1>6, <2>1, <2>2, <2>3, <2>4, <2>5 DEF WriteStatus, RolloutTypeOK, ShapeInv
<1>7. CASE Crash
  <2>1. disturbances' \in 0..MaxDisturbances
    BY <1>7, CountedTypes DEF Crash
  <2>2. spoiled' \in BOOLEAN /\ lost' \in BOOLEAN
    BY <1>7 DEF Crash, RolloutTypeOK
  <2>3. quiet' \in 0..MaxQuiet /\ position' \in 0..Len(Steps)
    BY <1>7, StepTable DEF Crash, MaxQuiet
  <2> QED
    BY <1>7, <2>1, <2>2, <2>3 DEF Crash, RolloutTypeOK, ShapeInv
<1>8. ASSUME NEW w \in Workload, StartPods(w) PROVE TypeInv'
  <2>1. \A v \in Workload : pod'[v].there \in BOOLEAN /\ pod'[v].hash \in [Object \cup UserSecret -> Content] /\ pod'[v].content \in [Object \cup UserSecret -> Content]
    BY <1>8, StartPodsIs DEF RolloutTypeOK
  <2> QED
    BY <1>8, <2>1, StartPodsIs DEF StartPods, RolloutTypeOK
<1>9. ASSUME NEW s \in Source, ChangeValue(s) PROVE TypeInv'
  <2>1. \E n \in {value[s] + 1, value[s] + 2} : value' = [value EXCEPT ![s] = n]
    BY <1>9 DEF ChangeValue
  <2>2. value \in [Source -> Nat] /\ value[s] + 1 \in Nat /\ value[s] + 2 \in Nat
    BY <1>9 DEF RolloutTypeOK, Content
  <2>3. value' \in Content
    BY <2>1, <2>2 DEF Content
  <2>4. raced' \in BOOLEAN
    BY <1>9 DEF ChangeValue, RolloutTypeOK
  <2> QED
    BY <1>9, <2>3, <2>4, CountedTypes DEF ChangeValue, RolloutTypeOK, ShapeInv
<1>10. ASSUME NEW o \in Generated, DeleteSecret(o) PROVE TypeInv'
  <2>1. o \in Object
    BY Strings
  <2>2. object' \in [Object -> [there : BOOLEAN, content : Content]]
    BY <1>10, <2>1 DEF DeleteSecret, RolloutTypeOK
  <2>3. outdated' \subseteq Rotated
    BY <1>10 DEF DeleteSecret, RolloutTypeOK
  <2> QED
    BY <1>10, <2>2, <2>3, CountedTypes DEF DeleteSecret, RolloutTypeOK, ShapeInv
<1>11. ASSUME NEW o \in Rotated, IntervalPasses(o) PROVE TypeInv'
  BY <1>11, CountedTypes DEF IntervalPasses, RolloutTypeOK, ShapeInv
<1>12. CASE UNCHANGED rolloutVars
  BY <1>12 DEF rolloutVars, RolloutTypeOK, ShapeInv
<1> QED
  BY <1>1, <1>2, <1>3, <1>4, <1>5, <1>6, <1>7, <1>8, <1>9, <1>10, <1>11, <1>12 DEF RolloutNext, Step

-----------------------------------------------------------------------------
(* Contents, source by source *)

\* The values that go into an object, besides the tenant token of the log agents' config.
Feeds(o) ==
    CASE o = "proxySecret"      -> {"proxy"}
      [] o \in {"agTenant", "kmTenant", "oaTenant"} -> {"tenantToken"}
      [] o = "attributesConfig" -> {"attributes"}
      [] o = "agProperties"     -> When(With("properties"), {"properties"}) \cup When(NeedsCustomNoProxy, {"noProxy"})
      [] o = "kmProperties"     -> {"properties"}
      [] o = "collectorConfig"  -> {"protocols"}
      [] o = "pgcConfig"        -> {"pgc"}
      [] o = "logConfig"        -> {"endpoints"} \cup ({"proxy", "noProxy", "networkZone"} \cap spec.with)
      [] OTHER                  -> {}

ValuesAre ==
    /\ \A s \in Source : Read(s) \in Nat
    /\ \A o \in Copied : Desired(o) \in Content
    /\ \A o \in Copied, s \in Source : Desired(o)[s] =
         IF o = "logConfig" /\ s = "tenantToken" THEN object["oaTenant"].content["tenantToken"]
         ELSE IF s \in Feeds(o) THEN Read(s) ELSE 0
    /\ \A o \in Object \cup UserSecret : ContentOf(o) \in Content
    /\ \A o \in Object : ContentOf(o) = object[o].content
    /\ \A o \in UserSecret, s \in Source : ContentOf(o)[s] = IF s = o THEN value[o] ELSE 0
    /\ \A w \in Workload, o \in Object \cup UserSecret : HashOf(w, o) \in Content
    /\ LogConfigHash \in Content
    /\ \A s \in Source : LogConfigHash[s] =
         IF s = "tenantToken" THEN st["oaTenant"]["tenantToken"]
         ELSE IF s = "proxy" THEN IF With("proxy") THEN st["proxySecret"]["proxy"] ELSE 0
         ELSE IF s \in {"noProxy", "networkZone"} /\ With(s) THEN dk[s] ELSE 0

LEMMA Values == RolloutTypeOK => ValuesAre
<1> SUFFICES ASSUME RolloutTypeOK PROVE ValuesAre
  OBVIOUS
<1>1. \A s \in Source : Read(s) \in Nat
  BY DEF RolloutTypeOK, Read, Content
<1>2. ASSUME NEW o \in Copied, NEW s \in Source
      PROVE  Desired(o)[s] = IF o = "logConfig" /\ s = "tenantToken" THEN object["oaTenant"].content["tenantToken"]
                             ELSE IF s \in Feeds(o) THEN Read(s) ELSE 0
  <2>1. o \in {"proxySecret", "agTenant", "kmTenant", "oaTenant", "attributesConfig", "agProperties", "kmProperties",
               "collectorConfig", "pgcConfig", "agConnection", "kmConnection"} \/ o = "logConfig"
    BY DEF Copied, Object, Generated, Rotated
  <2>2. CASE o = "logConfig"
    BY <2>2, LogConfigIs DEF Desired, Feeds
  <2>3. CASE o \in {"agConnection", "kmConnection"}
    BY <2>3, NothingIs DEF Desired, Feeds
  <2>4. CASE o \in {"proxySecret", "agTenant", "kmTenant", "oaTenant", "attributesConfig", "agProperties", "kmProperties",
               "collectorConfig", "pgcConfig"}
    <3>1. Desired(o) = From(Feeds(o)) /\ o # "logConfig"
      BY <2>4 DEF Desired, Feeds, CustomPropertiesValue
    <3> QED
      BY <3>1, FromIs
  <2> QED
    BY <2>1, <2>2, <2>3, <2>4
<1> QED
  BY <1>1, <1>2, DesiredType, ContentType, HashType, LogConfigHashIs DEF ValuesAre

LEMMA ValuesNext == (RolloutTypeOK => ValuesAre)'
BY Values, PTL

LEMMA BelowIs ==
    /\ \A a \in Content : Below(a, a)
    /\ \A a, b, c \in Content : Below(a, b) /\ Below(b, c) => Below(a, c)
    /\ \A a, b \in Content : Below(a, b) /\ Below(b, a) => a = b
    /\ \A b \in Content : Below(Nothing, b)
<1>1. \A a \in Content, s \in Source : a[s] \in Nat
  BY DEF Content
<1>2. ASSUME NEW a \in Content, NEW b \in Content, NEW c \in Content, Below(a, b), Below(b, c) PROVE Below(a, c)
  BY <1>1, <1>2 DEF Below
<1>3. ASSUME NEW a \in Content, NEW b \in Content, Below(a, b), Below(b, a) PROVE a = b
  <2>1. ASSUME NEW s \in Source PROVE a[s] = b[s]
    BY <1>1, <1>3 DEF Below
  <2> QED
    BY <2>1 DEF Content
<1>4. (\A a \in Content : Below(a, a)) /\ (\A b \in Content : Below(Nothing, b))
  BY <1>1, NothingIs DEF Below
<1> QED
  BY <1>2, <1>3, <1>4

-----------------------------------------------------------------------------
(* What steps do to objects and hashes *)

LEMMA ObjectSteps ==
    ASSUME TypeInv, [RolloutNext]_rolloutVars
    PROVE  \A o \in Object : object'[o].content = object[o].content \/ object'[o].content = IF o \in Copied THEN Desired(o) ELSE NextGeneration(o)
<1> DEFINE New(o) == IF o \in Copied THEN Desired(o) ELSE NextGeneration(o)
<1>1. RolloutTypeOK
  BY DEF TypeInv
<1>2. ASSUME NEW x \in Object, NEW c \in Content, c = New(x), Write(x, c)
      PROVE  \A o \in Object : object'[o].content = object[o].content \/ object'[o].content = New(o)
  <2>1. object'[x].content = c /\ \A o \in Object : o # x => object'[o] = object[o]
    BY <1>1, <1>2, WriteIs
  <2> QED
    BY <1>2, <2>1
<1>3. ASSUME UNCHANGED object PROVE \A o \in Object : object'[o].content = object[o].content
  BY <1>3
<1>4. CASE CopyObject
  <2>1. What \in Copied /\ What \in Object
    BY <1>4, Strings DEF CopyObject, Copied
  <2>2. CASE CreateOrUpdate(What)
    BY <1>1, <1>2, <2>1, <2>2, DesiredType DEF CreateOrUpdate
  <2> QED
    BY <1>3, <1>4, <2>2 DEF CopyObject
<1>5. CASE Generate \/ Rotate
  <2>1. What \in Generated /\ What \in Object /\ What \notin Copied
    BY <1>5, Strings DEF Generate, Rotate, Copied
  <2>2. CASE Write(What, NextGeneration(What))
    BY <1>1, <1>2, <2>1, <2>2, NextGenerationIs
  <2>3. CASE object' = [object EXCEPT ![What].there = FALSE]
    BY <1>1, <2>1, <2>3 DEF RolloutTypeOK
  <2> QED
    BY <1>3, <1>5, <2>2, <2>3 DEF Generate, Rotate
<1>6. ASSUME NEW x \in Generated, DeleteSecret(x) PROVE \A o \in Object : object'[o].content = object[o].content
  BY <1>1, <1>6, Strings DEF DeleteSecret, RolloutTypeOK
<1>7. CASE SkipObject \/ Deploy \/ WriteStatus
  BY <1>3, <1>7 DEF SkipObject, Deploy, WriteStatus
<1>8. CASE StartReconcile \/ Crash
  BY <1>3, <1>8 DEF StartReconcile, Crash
<1>9. CASE \/ \E w \in Workload : StartPods(w)
           \/ \E s \in Source : ChangeValue(s)
           \/ \E o \in Rotated : IntervalPasses(o)
  BY <1>3, <1>9 DEF StartPods, ChangeValue, IntervalPasses
<1>10. CASE UNCHANGED rolloutVars
  BY <1>3, <1>10 DEF rolloutVars
<1> QED
  BY <1>4, <1>5, <1>6, <1>7, <1>8, <1>9, <1>10 DEF RolloutNext, Step

\* What the hash of an object is compared with: the object, or what it is made of.
Top(h) == IF h = "proxySecret" THEN Desired(h) ELSE object'[h].content

LEMMA StatusSteps ==
    ASSUME TypeInv, [RolloutNext]_rolloutVars
    PROVE  /\ \A h \in Hash : st'[h] = st[h] \/ st'[h] = stored[h] \/ st'[h] = Top(h)
           /\ \A h \in Hash : stored'[h] = stored[h] \/ stored'[h] = st'[h]
<1>1. RolloutTypeOK
  BY DEF TypeInv
<1>2. ASSUME UNCHANGED st, UNCHANGED stored
      PROVE  /\ \A h \in Hash : st'[h] = st[h] \/ st'[h] = stored[h] \/ st'[h] = Top(h)
             /\ \A h \in Hash : stored'[h] = stored[h] \/ stored'[h] = st'[h]
  BY <1>2
<1>3. CASE CopyObject
  <2>1. What \in Copied /\ What \in Object
    BY <1>3, Strings DEF CopyObject, Copied
  <2>2. \A h \in Hash : stored'[h] = stored[h] \/ stored'[h] = st'[h]
    BY <1>3 DEF CopyObject, SaveStatus
  <2>3. UNCHANGED st \/ (HashStatus(What) /\ (What = "proxySecret" \/ CreateOrUpdate(What)))
    BY <1>3 DEF CopyObject
  <2>4. CASE What \in Hash /\ HashStatus(What) /\ (What = "proxySecret" \/ CreateOrUpdate(What))
    <3>1. st'[What] = Desired(What) /\ \A h \in Hash : h # What => st'[h] = st[h]
      BY <1>1, <2>4 DEF HashStatus, RolloutTypeOK
    <3>2. Desired(What) = Top(What)
      <4>1. CASE What = "proxySecret"
        BY <4>1 DEF Top
      <4>2. CASE What # "proxySecret"
        <5>1. object'[What].content = Desired(What)
          BY <1>1, <2>1, <2>4, <4>2, WriteIs, DesiredType DEF CreateOrUpdate
        <5> QED
          BY <4>2, <5>1 DEF Top
      <4> QED
        BY <4>1, <4>2
    <3> QED
      BY <2>2, <3>1, <3>2
  <2>5. CASE UNCHANGED st
    BY <2>2, <2>5
  <2> QED
    BY <2>3, <2>4, <2>5 DEF HashStatus
<1>4. CASE Generate
  <2>1. CASE UNCHANGED st
    BY <1>2, <1>4, <2>1 DEF Generate
  <2>2. CASE What = "kspmToken" /\ Write(What, NextGeneration(What)) /\ st' = [st EXCEPT ![What] = NextGeneration(What)]
    <3>1. What \in Object /\ What \in Hash
      BY <2>2, Strings
    <3>2. st'[What] = NextGeneration(What) /\ \A h \in Hash : h # What => st'[h] = st[h]
      BY <1>1, <2>2, <3>1 DEF RolloutTypeOK
    <3>3. NextGeneration(What) = Top(What)
      <4>1. object'[What].content = NextGeneration(What)
        BY <1>1, <2>2, <3>1, WriteIs, NextGenerationIs
      <4> QED
        BY <2>2, <4>1 DEF Top
    <3> QED
      BY <1>4, <3>2, <3>3 DEF Generate
  <2> QED
    BY <1>4, <2>1, <2>2 DEF Generate
<1>5. CASE StartReconcile \/ WriteStatus
  BY <1>5 DEF StartReconcile, WriteStatus
<1>6. CASE SkipObject \/ Rotate \/ Deploy \/ Crash
  BY <1>2, <1>6 DEF SkipObject, Rotate, Deploy, Crash
<1>7. CASE \/ \E w \in Workload : StartPods(w)
           \/ \E s \in Source : ChangeValue(s)
           \/ \E o \in Generated : DeleteSecret(o)
           \/ \E o \in Rotated : IntervalPasses(o)
  BY <1>2, <1>7 DEF StartPods, ChangeValue, DeleteSecret, IntervalPasses
<1>8. CASE UNCHANGED rolloutVars
  BY <1>2, <1>8 DEF rolloutVars
<1> QED
  BY <1>3, <1>4, <1>5, <1>6, <1>7, <1>8 DEF RolloutNext, Step

LEMMA ValueSteps ==
    ASSUME TypeInv, [RolloutNext]_rolloutVars
    PROVE  /\ spec' = spec /\ (raced => raced')
           /\ value' = value \/ \E s \in Source : ChangeValue(s) /\ \E k \in {1, 2} : value' = [value EXCEPT ![s] = @ + k]
           /\ dk' = dk \/ (StartReconcile /\ dk' = value)
<1>1. CASE StartReconcile \/ Crash
  BY <1>1 DEF StartReconcile, Crash
<1>2. CASE SkipObject \/ CopyObject \/ Generate \/ Rotate \/ Deploy \/ WriteStatus
  BY <1>2 DEF SkipObject, CopyObject, Generate, Rotate, Deploy, WriteStatus
<1>3. CASE \/ \E w \in Workload : StartPods(w)
           \/ \E o \in Generated : DeleteSecret(o)
           \/ \E o \in Rotated : IntervalPasses(o)
  BY <1>3 DEF StartPods, DeleteSecret, IntervalPasses
<1>4. ASSUME NEW s \in Source, ChangeValue(s)
      PROVE  spec' = spec /\ (raced => raced') /\ (\E k \in {1, 2} : value' = [value EXCEPT ![s] = @ + k]) /\ dk' = dk
  BY <1>4 DEF ChangeValue
<1>5. CASE UNCHANGED rolloutVars
  BY <1>5 DEF rolloutVars
<1> QED
  BY <1>1, <1>2, <1>3, <1>4, <1>5 DEF RolloutNext, Step

-----------------------------------------------------------------------------
(* Values, contents and hashes only grow *)

GrowInv == TypeInv /\ ContentInv /\ StatusInv

Grows ==
    /\ spec' = spec /\ (raced => raced')
    /\ Below(dk, dk') /\ Below(value, value')
    /\ \A o \in Object : Below(object[o].content, object'[o].content)

LEMMA StepGrows == ASSUME TypeInv, ContentInv, [RolloutNext]_rolloutVars PROVE Grows /\ Below(dk', value')
<1>1. RolloutTypeOK /\ RolloutTypeOK'
  BY TypesStep DEF TypeInv
<1>2. dk \in Content /\ dk' \in Content /\ value \in Content /\ value' \in Content
  BY <1>1 DEF RolloutTypeOK
<1>3. Below(value, value')
  <2>1. ASSUME NEW s \in Source, NEW k \in {1, 2}, value' = [value EXCEPT ![s] = @ + k], NEW x \in Source PROVE value[x] <= value'[x]
    BY <1>2, <2>1 DEF Content
  <2> QED
    BY <1>2, <2>1, ValueSteps, BelowIs DEF Below
<1>4. Below(dk, dk') /\ Below(dk', value')
  BY <1>2, <1>3, ValueSteps, BelowIs DEF ContentInv, StartReconcile
<1>5. ASSUME NEW o \in Object PROVE Below(object[o].content, object'[o].content)
  <2>1. object[o].content \in Content
    BY <1>1 DEF RolloutTypeOK
  <2>2. CASE object'[o].content = object[o].content
    BY <2>1, <2>2, BelowIs
  <2>3. CASE o \in Copied /\ object'[o].content = Desired(o)
    BY <2>3 DEF ContentInv
  <2>4. CASE o \notin Copied /\ object'[o].content = NextGeneration(o)
    <3>1. o \in Generated
      BY <2>4 DEF Copied
    <3>2. \A s \in Source \ {"generation"} : object[o].content[s] = 0
      BY <3>1 DEF ContentInv
    <3>3. \A s \in Source : object[o].content[s] \in Nat
      BY <2>1 DEF Content
    <3> QED
      BY <1>1, <2>4, <3>2, <3>3, NextGenerationIs DEF Below
  <2> QED
    BY <2>2, <2>3, <2>4, ObjectSteps
<1> QED
  BY <1>3, <1>4, <1>5, ValueSteps DEF Grows

LEMMA FeedsFixed == ASSUME spec' = spec PROVE \A o : Feeds(o)' = Feeds(o)
BY DEF Feeds, When, With, NeedsCustomNoProxy

LEMMA ReadGrows ==
    ASSUME TypeInv, TypeInv', Grows
    PROVE  /\ \A o \in Copied : Below(Desired(o), Desired(o)')
           /\ \A o \in Object \cup UserSecret : Below(ContentOf(o), ContentOf(o)')
<1>1. RolloutTypeOK /\ RolloutTypeOK' /\ ValuesAre /\ ValuesAre'
  BY Values, ValuesNext DEF TypeInv
<1>2. \A s \in Source : Read(s) <= Read(s)'
  BY DEF Read, Grows, Below
<1>3. ASSUME NEW o \in Copied, NEW s \in Source PROVE Desired(o)[s] <= Desired(o)'[s]
  <2>1. Feeds(o)' = Feeds(o)
    BY FeedsFixed DEF Grows
  <2>2. CASE o = "logConfig" /\ s = "tenantToken"
    <3>1. "oaTenant" \in Object
      BY DEF Object
    <3>2. object["oaTenant"].content[s] <= object'["oaTenant"].content[s]
      BY <3>1 DEF Grows, Below
    <3> QED
      BY <1>1, <2>2, <3>2 DEF ValuesAre
  <2>3. CASE ~(o = "logConfig" /\ s = "tenantToken")
    <3>1. Desired(o)[s] = (IF s \in Feeds(o) THEN Read(s) ELSE 0)
      BY <1>1, <2>3 DEF ValuesAre
    <3>2. Desired(o)'[s] = (IF s \in Feeds(o) THEN Read(s)' ELSE 0)
      BY <1>1, <2>1, <2>3 DEF ValuesAre
    <3> QED
      BY <1>2, <3>1, <3>2
  <2> QED
    BY <2>2, <2>3
<1>4. ASSUME NEW o \in Object \cup UserSecret, NEW s \in Source PROVE ContentOf(o)[s] <= ContentOf(o)'[s]
  <2>1. CASE o \in Object
    BY <1>1, <2>1 DEF ValuesAre, Grows, Below
  <2>2. CASE o \in UserSecret
    <3>1. value[o] <= value'[o]
      BY <2>2, Strings DEF Grows, Below
    <3>2. ContentOf(o)[s] = (IF s = o THEN value[o] ELSE 0) /\ ContentOf(o)'[s] = (IF s = o THEN value'[o] ELSE 0)
      BY <1>1, <2>2 DEF ValuesAre
    <3> QED
      BY <3>1, <3>2
  <2> QED
    BY <2>1, <2>2
<1> QED
  BY <1>3, <1>4 DEF Below

LEMMA GrowInit == ASSUME RolloutInit PROVE GrowInv
<1>1. TypeInv /\ RolloutTypeOK
  BY InitTypes DEF TypeInv
<1>2. \A o \in Object : object[o].content = Nothing
  BY DEF RolloutInit
<1>3. \A h \in Hash : st[h] = Nothing /\ stored[h] = Nothing
  BY DEF RolloutInit, NoHashes
<1>4. dk = value /\ dk \in Content
  BY <1>1 DEF RolloutInit, RolloutTypeOK
<1>5. ContentInv
  BY <1>1, <1>2, <1>4, BelowIs, NothingIs, DesiredType, Strings DEF ContentInv
<1>6. StatusInv
  BY <1>1, <1>2, <1>3, BelowIs, NothingIs, DesiredType, Strings DEF StatusInv
<1> QED
  BY <1>1, <1>5, <1>6 DEF GrowInv

LEMMA GrowStep == ASSUME GrowInv, [RolloutNext]_rolloutVars PROVE GrowInv'
<1>1. TypeInv /\ TypeInv' /\ RolloutTypeOK /\ RolloutTypeOK' /\ ContentInv /\ StatusInv
  BY TypesStep DEF GrowInv, TypeInv
<1>2. Grows /\ Below(dk', value')
  BY <1>1, StepGrows
<1>3. \A o \in Copied : Desired(o) \in Content /\ Desired(o)' \in Content /\ Below(Desired(o), Desired(o)')
  BY <1>1, <1>2, ReadGrows, Values, ValuesNext DEF ValuesAre
<1>4. \A o \in Object : object[o].content \in Content /\ object'[o].content \in Content
  BY <1>1 DEF RolloutTypeOK
<1>5. ASSUME NEW o \in Copied PROVE Below(object'[o].content, Desired(o)')
  <2>1. object'[o].content = object[o].content \/ object'[o].content = Desired(o)
    BY <1>1, ObjectSteps, Strings
  <2>2. Below(object'[o].content, Desired(o))
    BY <1>1, <1>3, <2>1, BelowIs DEF ContentInv
  <2> QED
    BY <1>3, <1>4, <2>2, BelowIs, Strings
<1>6. ASSUME NEW o \in Generated, NEW s \in Source \ {"generation"} PROVE object'[o].content[s] = 0
  <2>1. o \in Object /\ o \notin Copied
    BY Strings DEF Copied
  <2>2. object'[o].content = object[o].content \/ object'[o].content = NextGeneration(o)
    BY <1>1, <2>1, ObjectSteps
  <2> QED
    BY <1>1, <2>1, <2>2, NextGenerationIs DEF ContentInv
<1>7. ContentInv'
  BY <1>2, <1>5, <1>6 DEF ContentInv
<1>8. \A h \in Hash : st[h] \in Content /\ stored[h] \in Content /\ st'[h] \in Content /\ stored'[h] \in Content
  BY <1>1 DEF RolloutTypeOK
<1>9. ASSUME NEW h \in Hash \ {"proxySecret"} PROVE Below(st'[h], object'[h].content) /\ Below(stored'[h], object'[h].content)
  <2>1. h \in Object
    BY Strings
  <2>2. Below(st[h], object'[h].content) /\ Below(stored[h], object'[h].content) /\ Below(object'[h].content, object'[h].content)
    BY <1>1, <1>2, <1>4, <1>8, <2>1, BelowIs DEF StatusInv, Grows
  <2>3. Top(h) = object'[h].content
    BY DEF Top
  <2>4. Below(st'[h], object'[h].content)
    BY <1>1, <2>2, <2>3, StatusSteps
  <2> QED
    BY <1>1, <2>2, <2>4, StatusSteps
<1>10. Below(st'["proxySecret"], Desired("proxySecret")') /\ Below(stored'["proxySecret"], Desired("proxySecret")')
  <2> DEFINE h == "proxySecret"
  <2>1. h \in Copied /\ h \in Hash
    BY Strings
  <2>2. Below(st[h], Desired(h)') /\ Below(stored[h], Desired(h)') /\ Below(Desired(h), Desired(h)')
    BY <1>1, <1>3, <1>8, <2>1, BelowIs DEF StatusInv
  <2>3. Top(h) = Desired(h)
    BY DEF Top
  <2>4. Below(st'[h], Desired(h)')
    BY <1>1, <2>1, <2>2, <2>3, StatusSteps
  <2> QED
    BY <1>1, <2>1, <2>2, <2>4, StatusSteps
<1>11. StatusInv'
  BY <1>9, <1>10 DEF StatusInv
<1> QED
  BY <1>1, <1>7, <1>11 DEF GrowInv

-----------------------------------------------------------------------------
(* Disturbances, and the copy of the DynaKube *)

Works == SkipObject \/ CopyObject \/ Generate \/ Rotate \/ Deploy
Skips ==
    /\ (SkipObject /\ Refuses(What)) \/ (Deploy /\ Unreadable(What) /\ UNCHANGED template)
    /\ position' \in NextComponent /\ NoFault

LEMMA WorkMoves ==
    ASSUME TypeInv, Works
    PROVE  /\ position \in 1..28 /\ position' \in 1..28 /\ position < position' /\ Enabled(position') /\ Made(position) = What
           /\ UNCHANGED <<spec, value, dk, pod, raced>>
           /\ Succeeds \/ Fails \/ Skips
           /\ Fails => quiet' = 0 /\ spoiled'
           /\ Succeeds \/ Skips => quiet' = quiet /\ spoiled' = spoiled
<1>1. position \in 0..Len(Steps)
  BY DEF TypeInv, RolloutTypeOK
<1>2. What # "nothing"
  BY Strings DEF Works, SkipObject, Leaves, Refuses, CopyObject, Generate, Rotate, Deploy, Copied
<1>3. position \in 1..28 /\ Made(position) = What
  BY <1>1, <1>2, WhatIs DEF What
<1>4. Succeeds \/ Fails \/ Skips
  BY DEF Works, SkipObject, CopyObject, Generate, Rotate, Deploy, Goes, Skips
<1>5. position' \in 1..28 /\ position < position' /\ Enabled(position')
  BY <1>1, <1>3, <1>4, NextStepFacts, NextComponentFacts DEF Succeeds, Fails, Skips
<1>6. UNCHANGED <<spec, value, dk, pod, raced>>
  BY DEF Works, SkipObject, CopyObject, Generate, Rotate, Deploy
<1>7. Fails => quiet' = 0 /\ spoiled'
  <2>1. position # 0
    BY <1>3
  <2> QED
    BY <2>1 DEF Fails, Disturb
<1>8. Succeeds \/ Skips => quiet' = quiet /\ spoiled' = spoiled
  BY DEF Succeeds, Skips, NoFault
<1> QED
  BY <1>3, <1>4, <1>5, <1>6, <1>7, <1>8

\* What others do while the worker stands still.
Meddles ==
    \/ \E s \in Source : ChangeValue(s)
    \/ \E o \in Generated : DeleteSecret(o)
    \/ \E o \in Rotated : IntervalPasses(o)

LEMMA MeddlingDisturbs ==
    ASSUME TypeInv, Meddles
    PROVE  position' = position /\ quiet' = 0 /\ (position # 0 => spoiled') /\ (position = 0 => ~spoiled') /\ UNCHANGED <<spec, dk, st, stored, template, pod, lost>>
<1>1. position' = position /\ Disturb /\ UNCHANGED <<spec, dk, st, stored, template, pod, lost>>
  BY DEF Meddles, ChangeValue, DeleteSecret, IntervalPasses
<1> QED
  BY <1>1 DEF Disturb

LEMMA StepKinds ==
    ASSUME [RolloutNext]_rolloutVars
    PROVE  StartReconcile \/ Works \/ WriteStatus \/ Crash \/ (\E w \in Workload : StartPods(w)) \/ Meddles \/ UNCHANGED rolloutVars
BY DEF RolloutNext, Step, Works, Meddles

ControlInv == PositionInv /\ CopyInv

LEMMA ControlInit == ASSUME RolloutInit PROVE ControlInv
BY DEF RolloutInit, ControlInv, PositionInv, CopyInv, Undisturbed

LEMMA WriteIsLast ==
    ASSUME TypeInv, WriteStatus
    PROVE  position = 28 /\ position' = 0 /\ ~spoiled' /\ UNCHANGED <<spec, value, dk, object, outdated, st, template, pod, raced>>
<1>1. position \in 1..28 /\ Made(position) = "write"
  BY WhatIs DEF WriteStatus, TypeInv, RolloutTypeOK
<1> QED
  BY <1>1, Positions DEF WriteStatus

LEMMA ControlStep == ASSUME TypeInv, ControlInv, [RolloutNext]_rolloutVars PROVE ControlInv'
<1>1. TypeInv'
  BY TypesStep
<1>2. spec' = spec /\ \A i : Enabled(i)' <=> Enabled(i)
  BY ValueSteps, SpecFixed
<1>3. position \in 0..Len(Steps) /\ position \in 0..28 /\ quiet \in 0..2 /\ quiet' \in 0..2 /\ spoiled \in BOOLEAN /\ spoiled' \in BOOLEAN
  BY <1>1, StepTable DEF TypeInv, RolloutTypeOK, MaxQuiet
<1>4. CASE StartReconcile
  <2>1. position = 0 /\ position' \in NextStep /\ dk' = value /\ value' = value /\ st' = stored /\ stored' = stored /\ quiet' = quiet /\ spoiled' = spoiled
    BY <1>4 DEF StartReconcile
  <2>2. position' \in 1..28 /\ Enabled(position')
    BY <1>3, <2>1, NextStepFacts
  <2>3. ~spoiled
    BY <2>1 DEF ControlInv, PositionInv
  <2> QED
    BY <1>2, <2>1, <2>2, <2>3 DEF ControlInv, PositionInv, CopyInv
<1>5. CASE Works
  <2>1. /\ position' \in 1..28 /\ position # 0 /\ Enabled(position') /\ UNCHANGED <<value, dk>>
        /\ (quiet' = 0 /\ spoiled') \/ (quiet' = quiet /\ spoiled' = spoiled)
    BY <1>5, WorkMoves
  <2>2. position' # 0
    BY <2>1
  <2>3. PositionInv'
    BY <1>2, <2>1, <2>2 DEF ControlInv, PositionInv
  <2>4. Undisturbed' => dk' = value'
    BY <1>3, <2>1, <2>2 DEF ControlInv, CopyInv, Undisturbed
  <2> QED
    BY <2>2, <2>3, <2>4 DEF ControlInv, CopyInv
<1>6. CASE WriteStatus
  <2>1. position = 28 /\ position' = 0 /\ ~spoiled' /\ UNCHANGED <<value, dk, st>>
    BY <1>6, WriteIsLast
  <2>2. quiet' # 0 => ~spoiled /\ stored' = st
    BY <1>6 DEF WriteStatus
  <2>3. PositionInv'
    BY <2>1 DEF PositionInv
  <2>4. CopyInv'
    BY <1>3, <2>1, <2>2 DEF ControlInv, CopyInv, Undisturbed
  <2> QED
    BY <2>3, <2>4 DEF ControlInv
<1>7. CASE Crash
  <2>1. position' = 0 /\ quiet' = 0 /\ ~spoiled'
    BY <1>7 DEF Crash
  <2> QED
    BY <2>1 DEF ControlInv, PositionInv, CopyInv, Undisturbed
<1>8. ASSUME NEW w \in Workload, StartPods(w) PROVE ControlInv'
  BY <1>2, <1>8 DEF StartPods, ControlInv, PositionInv, CopyInv, Undisturbed
<1>9. CASE Meddles
  <2>1. position' = position /\ quiet' = 0 /\ (position # 0 => spoiled') /\ (position = 0 => ~spoiled')
    BY <1>9, MeddlingDisturbs
  <2> QED
    BY <1>2, <2>1 DEF ControlInv, PositionInv, CopyInv, Undisturbed
<1>10. CASE UNCHANGED rolloutVars
  BY <1>2, <1>10 DEF rolloutVars, ControlInv, PositionInv, CopyInv, Undisturbed
<1> QED
  BY <1>4, <1>5, <1>6, <1>7, <1>8, <1>9, <1>10, StepKinds

-----------------------------------------------------------------------------
(* The hash of the KSPM token *)

LEMMA LostInit == ASSUME RolloutInit PROVE LostInv
BY DEF RolloutInit, LostInv, NoHashes, Hash, Object

LEMMA LostStep == ASSUME TypeInv, LostInv, [RolloutNext]_rolloutVars PROVE LostInv'
<1> DEFINE k == "kspmToken"
<1>1. RolloutTypeOK /\ k \in Hash /\ k \in Object /\ k \notin Copied /\ k \notin Rotated
  BY Strings DEF TypeInv, Copied, Generated, Rotated
<1>2. ASSUME UNCHANGED <<object, lost>>,
             (position' # 0 /\ position # 0 /\ st'[k] = st[k]) \/ (position' = position /\ UNCHANGED <<st, stored>>)
      PROVE  LostInv'
  BY <1>2 DEF LostInv
<1>10. ASSUME object'[k].content = object[k].content, st'[k] = st[k], lost' <=> lost, position # 0, position' # 0
       PROVE  LostInv'
  BY <1>10 DEF LostInv
<1>3. CASE StartReconcile
  <2>1. position = 0 /\ position' # 0 /\ st' = stored /\ UNCHANGED <<object, lost>>
    BY <1>1, <1>3, NextStepFacts DEF StartReconcile, RolloutTypeOK
  <2> QED
    BY <2>1 DEF LostInv
<1>4. CASE Works
  <2>1. position # 0 /\ position' # 0
    BY <1>4, WorkMoves
  <2>2. CASE CopyObject
    <3>1. What \in Copied /\ What # k /\ What \in Object
      BY <1>1, <2>2, Strings DEF CopyObject, Copied
    <3>2. st'[k] = st[k] /\ lost' = lost
      BY <1>1, <2>2, <3>1 DEF CopyObject, HashStatus, RolloutTypeOK
    <3>3. object'[k].content = object[k].content
      BY <1>1, <2>2, <3>1, WriteIs, DesiredType DEF CopyObject, CreateOrUpdate
    <3> QED
      BY <2>1, <3>2, <3>3 DEF LostInv
  <2>3. CASE Generate
    <3>1. CASE UNCHANGED <<object, st, lost>>
      BY <1>10, <2>1, <3>1
    <3>2. CASE What = k /\ Write(k, NextGeneration(k)) /\ st' = [st EXCEPT ![k] = NextGeneration(k)]
      <4>1. object'[k].content = NextGeneration(k) /\ st'[k] = NextGeneration(k)
        BY <1>1, <3>2, WriteIs, NextGenerationIs DEF RolloutTypeOK
      <4> QED
        BY <2>1, <4>1 DEF LostInv
    <3>3. CASE What = k /\ lost'
      BY <3>3 DEF LostInv
    <3>4. CASE What # k /\ Write(What, NextGeneration(What)) /\ UNCHANGED <<st, lost>>
      <4>1. What \in Object
        BY <2>3, Strings DEF Generate
      <4>2. object'[k] = object[k]
        BY <1>1, <3>4, <4>1, WriteIs, NextGenerationIs
      <4> QED
        BY <2>1, <3>4, <4>2 DEF LostInv
    <3>5. CASE What # k /\ Write(What, NextGeneration(What)) /\ Fails /\ lost' = (lost \/ What = k) /\ UNCHANGED st
      <4>1. lost' <=> lost
        BY <3>5
      <4>2. What \in Object
        BY <2>3, Strings DEF Generate
      <4>3. object'[k] = object[k]
        BY <1>1, <3>5, <4>2, WriteIs, NextGenerationIs
      <4> QED
        BY <1>10, <2>1, <3>5, <4>1, <4>3
    <3> QED
      BY <2>3, <3>1, <3>2, <3>3, <3>4, <3>5 DEF Generate
  <2>4. CASE Rotate
    <3>1. What \in Rotated /\ What # k /\ What \in Object /\ UNCHANGED <<st, lost>>
      BY <1>1, <2>4, Strings DEF Rotate
    <3>2. object'[k] = object[k]
      <4>1. CASE Write(What, NextGeneration(What))
        BY <1>1, <3>1, <4>1, WriteIs, NextGenerationIs
      <4>2. CASE object' = [object EXCEPT ![What].there = FALSE]
        BY <1>1, <3>1, <4>2 DEF RolloutTypeOK
      <4> QED
        BY <2>4, <4>1, <4>2 DEF Rotate
    <3> QED
      BY <2>1, <3>1, <3>2 DEF LostInv
  <2>5. CASE SkipObject \/ Deploy
    BY <1>2, <2>1, <2>5 DEF SkipObject, Deploy
  <2> QED
    BY <1>4, <2>2, <2>3, <2>4, <2>5 DEF Works
<1>5. CASE WriteStatus
  <2>1. position # 0 /\ position' = 0 /\ UNCHANGED object
    BY <1>5, WriteIsLast
  <2>2. ~lost' => ~lost /\ (stored' = st \/ (stored' = stored /\ st[k] = stored[k]))
    BY <1>5 DEF WriteStatus
  <2> QED
    BY <2>1, <2>2 DEF LostInv
<1>6. CASE Crash
  <2>1. position # 0 /\ position' = 0 /\ UNCHANGED <<object, stored>>
    BY <1>6 DEF Crash
  <2>2. ~lost' => ~lost /\ st[k] = stored[k]
    BY <1>6 DEF Crash
  <2> QED
    BY <2>1, <2>2 DEF LostInv
<1>7. ASSUME NEW w \in Workload, StartPods(w) PROVE LostInv'
  BY <1>2, <1>7 DEF StartPods
<1>8. CASE Meddles
  <2>1. position' = position /\ UNCHANGED <<st, stored, lost>>
    BY <1>8, MeddlingDisturbs
  <2>2. object'[k].content = object[k].content
    <3>1. ASSUME NEW o \in Generated, DeleteSecret(o) PROVE object'[k].content = object[k].content
      BY <1>1, <3>1, Strings DEF DeleteSecret, RolloutTypeOK
    <3> QED
      BY <1>8, <3>1 DEF Meddles, ChangeValue, IntervalPasses
  <2> QED
    BY <2>1, <2>2 DEF LostInv
<1>9. CASE UNCHANGED rolloutVars
  BY <1>9 DEF rolloutVars, LostInv
<1> QED
  BY <1>3, <1>4, <1>5, <1>6, <1>7, <1>8, <1>9, StepKinds

-----------------------------------------------------------------------------
(* What a reconcile has done when it comes to a workload *)

LEMMA WhatNext ==
    /\ position' # 0 => What' = Made(position')
    /\ position' = 0 => What' = "nothing"
    /\ position' = position => What' = What
BY DEF What, Made

\* A step that succeeded wrote its object.
LEMMA CopyDone ==
    ASSUME TypeInv, CopyObject, Succeeds, position \in 1..28, NEW o \in Copied, Made(position) = o
    PROVE  object'[o].there /\ object'[o].content = Desired(o) /\ (o \notin Hash => st' = st) /\ (o \in Hash => st'[o] = Desired(o))
<1>1. What = o /\ o \in Object /\ RolloutTypeOK
  BY Strings DEF What, TypeInv
<1>2. ~Fails
  <2>1. position \in Nat /\ position' \in Nat /\ disturbances \in Nat
    BY StepTable, NextStepFacts DEF TypeInv, RolloutTypeOK, Succeeds
  <2> QED
    BY <2>1 DEF Fails, Succeeds, Disturb, Counted, NoFault
<1>3. CreateOrUpdate(o) /\ HashStatus(o)
  BY <1>1, <1>2 DEF CopyObject
<1>4. object'[o].there /\ object'[o].content = Desired(o)
  BY <1>1, <1>3, WriteIs, DesiredType DEF CreateOrUpdate
<1> QED
  BY <1>1, <1>3, <1>4 DEF HashStatus, RolloutTypeOK

LEMMA ProgressInit == ASSUME RolloutInit PROVE ProgressInv
BY DEF RolloutInit, ProgressInv, What

LEMMA ProgressStep == ASSUME GrowInv, ProgressInv, [RolloutNext]_rolloutVars PROVE ProgressInv'
<1>1. TypeInv /\ TypeInv' /\ ContentInv /\ StatusInv /\ RolloutTypeOK /\ RolloutTypeOK' /\ ValuesAre /\ ValuesAre'
  BY TypesStep, Values, ValuesNext DEF GrowInv, TypeInv
<1>2. Grows
  BY <1>1, StepGrows
<1>3. /\ {"attributesConfig", "agProperties", "logConfig"} \subseteq Copied /\ Copied \subseteq Object
      /\ {"attributes", "properties", "proxy", "noProxy", "networkZone", "tenantToken"} \subseteq Source
  BY DEF Copied, Object, Generated, Rotated, Source, SpecSource, UserSecret
<1>4. \A o \in Object, s \in Source : object[o].content[s] \in Nat /\ object'[o].content[s] \in Nat /\ object[o].content[s] <= object'[o].content[s]
  BY <1>1, <1>2 DEF RolloutTypeOK, Content, Grows, Below
<1>5. \A s \in Source : value[s] \in Nat /\ value'[s] \in Nat /\ dk[s] \in Nat /\ dk'[s] \in Nat
  BY <1>1 DEF RolloutTypeOK, Content
<1>6. (\A f : With(f)' <=> With(f)) /\ (\A i : Enabled(i)' <=> Enabled(i))
  BY <1>2, SpecFixed DEF Grows
<1>7. ASSUME position' = 0 PROVE ProgressInv'
  BY <1>7, WhatNext DEF ProgressInv
<1>8. CASE StartReconcile
  <2>1. position = 0 /\ position \in 0..Len(Steps) /\ position' \in NextStep
    BY <1>1, <1>8 DEF StartReconcile, RolloutTypeOK
  <2>2. position' # 0 /\ Made(position') \notin {"agAuth", "agProperties", "agCert", "activeGate", "logMonitoring"}
    BY <2>1, NextStepFacts
  <2> QED
    BY <2>2, WhatNext DEF ProgressInv
<1>9. CASE Works
  <2>1. /\ position \in 1..28 /\ position' \in 1..28 /\ position' # 0 /\ UNCHANGED <<spec, value, dk, raced>>
        /\ (Succeeds \/ Fails \/ Skips) /\ Made(position) = What /\ What' = Made(position')
    BY <1>9, <1>1, WorkMoves, WhatNext
  <2>2. CASE Fails \/ Skips
    <3>1. Made(position') \notin {"agAuth", "agProperties", "agCert", "activeGate", "logMonitoring"}
      BY <2>1, <2>2, NextComponentFacts DEF Fails, Skips
    <3> QED
      BY <2>1, <3>1 DEF ProgressInv
  <2>3. CASE Succeeds
    <3>1. /\ What' \in {"agAuth", "agProperties", "agCert", "activeGate"} => position \in 4..7
          /\ What' \in {"agCert", "activeGate"} /\ With("properties") => position \in 6..7
          /\ What' = "logMonitoring" => position = 23
      BY <1>1, <2>1, <2>3, NextStepFacts DEF Succeeds, RolloutTypeOK
    <3>2. ASSUME What \in Copied
          PROVE  /\ CopyObject \/ (What \in {"agProperties", "kmProperties"} /\ NoData(Read("properties")))
                 /\ What \notin {"agProperties", "kmProperties"} => CopyObject
      BY <1>9, <3>2 DEF SkipObject, Leaves, Refuses, Works, Generate, Rotate, Deploy, Copied, Workload, Generated, Object
    <3>3. ASSUME What' \in {"agAuth", "agProperties", "agCert", "activeGate"}
          PROVE  dk'["attributes"] <= object'["attributesConfig"].content["attributes"]
      <4>1. CASE position = 4
        <5>1. What = "attributesConfig" /\ CopyObject
          BY <1>3, <2>1, <3>2, <4>1, StepTable
        <5>2. object'["attributesConfig"].content = Desired("attributesConfig")
          BY <1>1, <1>3, <2>1, <2>3, <5>1, CopyDone
        <5>3. Desired("attributesConfig")["attributes"] = Read("attributes")
          BY <1>1, <1>3 DEF ValuesAre, Feeds
        <5>4. Read("attributes") = dk["attributes"]
          BY DEF Read, SpecSource
        <5> QED
          BY <1>3, <1>5, <2>1, <5>2, <5>3, <5>4
      <4>2. CASE position \in 5..7
        <5>1. What \in {"agAuth", "agProperties", "agCert", "activeGate"}
          BY <2>1, <4>2, StepTable
        <5> QED
          BY <1>3, <1>4, <1>5, <2>1, <5>1 DEF ProgressInv
      <4> QED
        BY <2>1, <3>1, <3>3, <4>1, <4>2
    <3>4. ASSUME What' \in {"agCert", "activeGate"}, With("properties")
          PROVE  raced' \/ NoData(value'["properties"]) \/ value'["properties"] <= object'["agProperties"].content["properties"]
      <4>1. CASE position = 6
        <5>1. What = "agProperties" /\ (CopyObject \/ NoData(Read("properties")))
          BY <1>3, <2>1, <3>2, <4>1, StepTable
        <5>2. CopyObject => object'["agProperties"].content = Desired("agProperties")
          BY <1>1, <1>3, <2>1, <2>3, <5>1, CopyDone
        <5>3. Desired("agProperties")["properties"] = Read("properties")
          BY <1>1, <1>3, <3>4 DEF ValuesAre, Feeds, When
        <5>4. Read("properties") = value["properties"]
          BY DEF Read, SpecSource
        <5> QED
          BY <1>3, <1>5, <2>1, <5>1, <5>2, <5>3, <5>4
      <4>2. CASE position = 7
        <5>1. What = "agCert"
          BY <2>1, <4>2, StepTable
        <5> QED
          BY <1>3, <1>4, <1>5, <2>1, <3>4, <5>1 DEF ProgressInv
      <4> QED
        BY <2>1, <3>1, <3>4, <4>1, <4>2
    <3>5. ASSUME What' = "logMonitoring" PROVE Below(LogConfigHash', object'["logConfig"].content)
      <4>1. What = "logConfig" /\ CopyObject
        BY <1>3, <2>1, <3>1, <3>2, <3>5, StepTable
      <4>2. object'["logConfig"].content = Desired("logConfig") /\ st' = st
        BY <1>1, <1>3, <2>1, <2>3, <4>1, CopyDone DEF Hash
      <4>3. ASSUME NEW s \in Source PROVE LogConfigHash'[s] <= Desired("logConfig")[s]
        <5>1. Read("proxy") = value["proxy"] /\ Read("noProxy") = dk["noProxy"] /\ Read("networkZone") = dk["networkZone"]
          BY DEF Read, SpecSource
        <5>2. LogConfigHash'[s] = IF s = "tenantToken" THEN st["oaTenant"]["tenantToken"]
                 ELSE IF s = "proxy" THEN IF With("proxy") THEN st["proxySecret"]["proxy"] ELSE 0
                 ELSE IF s \in {"noProxy", "networkZone"} /\ With(s) THEN dk[s] ELSE 0
          BY <1>1, <1>6, <2>1, <4>2 DEF ValuesAre
        <5>3. Desired("logConfig")[s] = IF s = "tenantToken" THEN object["oaTenant"].content["tenantToken"]
                 ELSE IF s = "endpoints" \/ (s \in {"proxy", "noProxy", "networkZone"} /\ With(s)) THEN Read(s) ELSE 0
          BY <1>1, <1>3 DEF ValuesAre, Feeds, With
        <5>4. st["oaTenant"]["tenantToken"] <= object["oaTenant"].content["tenantToken"]
          BY <1>1, <1>3 DEF StatusInv, Below, Hash
        <5>5. st["proxySecret"]["proxy"] <= Desired("proxySecret")["proxy"]
          BY <1>1, <1>3 DEF StatusInv, Below
        <5>6. Desired("proxySecret")["proxy"] = Read("proxy")
          BY <1>1, <1>3, Strings DEF ValuesAre, Feeds
        <5>7. dk["noProxy"] \in Nat /\ dk["networkZone"] \in Nat /\ Read(s) \in Nat
          BY <1>1, <1>3, <1>5 DEF ValuesAre
        <5>8. CASE s = "tenantToken"
          BY <5>2, <5>3, <5>4, <5>8
        <5>9. CASE s = "proxy"
          BY <5>2, <5>3, <5>5, <5>6, <5>9
        <5>10. CASE s # "tenantToken" /\ s # "proxy"
          BY <5>1, <5>2, <5>3, <5>7, <5>10
        <5> QED
          BY <5>8, <5>9, <5>10
      <4> QED
        BY <4>2, <4>3 DEF Below
    <3> QED
      BY <1>6, <3>3, <3>4, <3>5 DEF ProgressInv
  <2> QED
    BY <2>1, <2>2, <2>3
<1>10. CASE WriteStatus
  BY <1>1, <1>7, <1>10, WriteIsLast
<1>11. CASE Crash
  BY <1>7, <1>11 DEF Crash
<1>12. ASSUME UNCHANGED <<position, dk, st>>,
              raced' \/ value'["properties"] = value["properties"] \/ What \notin {"agCert", "activeGate"}
       PROVE  ProgressInv'
  <2>1. What' = What
    BY <1>12, WhatNext
  <2>2. What \in {"agAuth", "agProperties", "agCert", "activeGate"} => dk'["attributes"] <= object'["attributesConfig"].content["attributes"]
    BY <1>3, <1>4, <1>5, <1>12 DEF ProgressInv
  <2>3. What \in {"agCert", "activeGate"} /\ With("properties") => raced' \/ NoData(value'["properties"]) \/ value'["properties"] <= object'["agProperties"].content["properties"]
    BY <1>2, <1>3, <1>4, <1>5, <1>12 DEF ProgressInv, Grows
  <2>4. What = "logMonitoring" => Below(LogConfigHash', object'["logConfig"].content)
    <3>1. ASSUME What = "logMonitoring", NEW s \in Source PROVE LogConfigHash'[s] <= object'["logConfig"].content[s]
      <4>1. LogConfigHash'[s] = LogConfigHash[s]
        BY <1>1, <1>6, <1>12 DEF ValuesAre
      <4>2. LogConfigHash[s] <= object["logConfig"].content[s]
        BY <3>1 DEF ProgressInv, Below
      <4>3. LogConfigHash[s] \in Nat
        BY <1>1 DEF ValuesAre, Content
      <4> QED
        BY <1>3, <1>4, <4>1, <4>2, <4>3
    <3> QED
      BY <3>1 DEF Below
  <2> QED
    BY <1>6, <2>1, <2>2, <2>3, <2>4 DEF ProgressInv
<1>13. ASSUME NEW w \in Workload, StartPods(w) PROVE ProgressInv'
  BY <1>12, <1>13 DEF StartPods
<1>14. CASE Meddles
  <2>1. UNCHANGED <<position, dk, st>>
    BY <1>1, <1>14, MeddlingDisturbs
  <2>2. ASSUME NEW s \in Source, ChangeValue(s)
        PROVE  raced' \/ value'["properties"] = value["properties"] \/ What \notin {"agCert", "activeGate"}
    <3>1. s = "properties" /\ What \in {"agCert", "activeGate"} => raced'
      BY <2>2 DEF ChangeValue
    <3>2. s # "properties" => value'["properties"] = value["properties"]
      BY <1>1, <1>3, <2>2 DEF ChangeValue, RolloutTypeOK, Content
    <3> QED
      BY <3>1, <3>2
  <2>3. (\E o \in Generated : DeleteSecret(o)) \/ (\E o \in Rotated : IntervalPasses(o)) => value' = value
    BY DEF DeleteSecret, IntervalPasses
  <2> QED
    BY <1>12, <1>14, <2>1, <2>2, <2>3 DEF Meddles
<1>15. CASE UNCHANGED rolloutVars
  BY <1>12, <1>15 DEF rolloutVars
<1> QED
  BY <1>8, <1>9, <1>10, <1>11, <1>13, <1>14, <1>15, StepKinds

-----------------------------------------------------------------------------
(* Templates and pods: no hash is ahead of the contents *)

LEMMA HashedIs ==
    ASSUME NEW w \in Workload
    PROVE  /\ Hashed(w) \subseteq Object \cup UserSecret
           /\ \A h : Volumes(w, h) = Volumes(w, TRUE) \/ Volumes(w, h) = Volumes(w, FALSE)
           /\ \A h : Volumes(w, h) \subseteq Volumes(w, TRUE)
           /\ Volumes(w, TRUE) \subseteq Volumes(w, FALSE) \cup {"pgcConfig"}
           /\ "agProperties" \in Hashed(w) => w = "activeGate" /\ With("properties")
           /\ "attributesConfig" \in Hashed(w) => w = "activeGate"
           /\ "logConfig" \in Hashed(w) => w = "logMonitoring"
           /\ "agProperties" \in Volumes(w, TRUE) \cup Envs(w) => w = "activeGate"
           /\ "kmProperties" \in Hashed(w) \cup Volumes(w, TRUE) \cup Envs(w) => w = "kubemon"
<1>1. ActiveGateHashed \subseteq Object
  BY DEF ActiveGateHashed, KSPMTokenVolumes, When, Object
<1>2. KubemonHashed \subseteq Object /\ KubemonHashed \cap {"agProperties", "attributesConfig", "logConfig"} = {}
  BY DEF KubemonHashed, Object
<1>3. CollectorHashed \subseteq Object \cup UserSecret /\ CollectorHashed \cap {"agProperties", "attributesConfig", "logConfig"} = {}
  BY DEF CollectorHashed, Object, UserSecret
<1>4. OneAgentHashed \subseteq Object /\ OneAgentHashed \cap {"agProperties", "attributesConfig", "logConfig"} = {}
  BY DEF OneAgentHashed, Object, When
<1>5. "logConfig" \notin ActiveGateHashed /\ ("agProperties" \in ActiveGateHashed => With("properties"))
  BY DEF ActiveGateHashed, KSPMTokenVolumes, When
<1>6. Hashed(w) \subseteq Object \cup UserSecret
  BY <1>1, <1>2, <1>3, <1>4 DEF Hashed, Workload, Object
<1>7. /\ "agProperties" \in Hashed(w) => w = "activeGate" /\ With("properties")
      /\ "attributesConfig" \in Hashed(w) => w = "activeGate"
      /\ "logConfig" \in Hashed(w) => w = "logMonitoring"
  BY <1>2, <1>3, <1>4, <1>5 DEF Hashed, Workload
<1>8. \A h : OneAgentVolumes(h) = OneAgentVolumes(IF h THEN TRUE ELSE FALSE) /\ OneAgentVolumes(h) \subseteq OneAgentVolumes(TRUE)
  BY DEF OneAgentVolumes, When
<1>9. OneAgentVolumes(TRUE) \subseteq OneAgentVolumes(FALSE) \cup {"pgcConfig"}
  BY DEF OneAgentVolumes, When
<1>10. /\ \A h : Volumes(w, h) = Volumes(w, TRUE) \/ Volumes(w, h) = Volumes(w, FALSE)
       /\ \A h : Volumes(w, h) \subseteq Volumes(w, TRUE)
       /\ Volumes(w, TRUE) \subseteq Volumes(w, FALSE) \cup {"pgcConfig"}
  <2>1. CASE w = "oneAgent"
    BY <1>8, <1>9, <2>1 DEF Volumes
  <2>2. CASE w # "oneAgent"
    BY <2>2 DEF Volumes, Workload
  <2> QED
    BY <2>1, <2>2
<1>11. "kmProperties" \notin CertVolumes \cup ActiveGateHashed \cup CollectorHashed \cup OneAgentHashed \cup CollectorEnvs
  BY DEF CertVolumes, ActiveGateHashed, CollectorHashed, OneAgentHashed, KSPMTokenVolumes, CollectorEnvs, When
<1>12. "agProperties" \notin CertVolumes \cup CollectorEnvs
  BY DEF CertVolumes, CollectorEnvs, When
<1>13. "kmProperties" \notin ActiveGateVolumes
  BY <1>11 DEF ActiveGateVolumes, BaseVolumes, AuthTokenVolumes, RawImageVolumes, SSLVolumes, DeploymentPropertiesVolumes, TrustedCAsVolumes,
    CustomPropertiesVolumes, ProxyVolumes, ReadOnlyVolumes, KubernetesMonitoringVolumes, KSPMTokenVolumes, EECTokenVolumes, When
<1>14. {"agProperties", "kmProperties"} \cap (EECVolumes \cup EECClaims \cup CollectorVolumes) = {}
  BY <1>11, <1>12 DEF EECVolumes, EECClaims, CollectorVolumes, When
<1>15. {"agProperties", "kmProperties"} \cap (DatabaseVolumes \cup KSPMVolumes \cup LogMonitoringVolumes) = {}
  BY <1>11, <1>12 DEF DatabaseVolumes, KSPMVolumes, LogMonitoringVolumes, TrustedCAsVolumes, When
<1>16. {"agProperties", "kmProperties"} \cap OneAgentVolumes(TRUE) = {} /\ "agProperties" \notin KubemonVolumes
  BY <1>11, <1>12 DEF OneAgentVolumes, KubemonVolumes, TrustedCAsVolumes, When
<1>17. /\ "agProperties" \in Volumes(w, TRUE) \cup Envs(w) => w = "activeGate"
       /\ "kmProperties" \in Hashed(w) \cup Volumes(w, TRUE) \cup Envs(w) => w = "kubemon"
  BY <1>11, <1>12, <1>13, <1>14, <1>15, <1>16 DEF Hashed, Volumes, Envs, Workload
<1> QED
  BY <1>6, <1>7, <1>10, <1>17

LEMMA TemplateSteps ==
    ASSUME TypeInv, [RolloutNext]_rolloutVars, ~UNCHANGED template
    PROVE  /\ Works /\ What \in Workload /\ ~Unreadable(What) /\ UNCHANGED <<object, outdated, st, stored, lost>>
           /\ template'[What] = TemplateOf(What) /\ \A w \in Workload : w # What => template'[w] = template[w]
           /\ template' = [template EXCEPT ![What] = TemplateOf(What)]
<1>1. Deploy
  <2>1. UNCHANGED template \/ Works
    BY StepKinds DEF StartReconcile, WriteStatus, Crash, StartPods, Meddles, ChangeValue, DeleteSecret, IntervalPasses, rolloutVars
  <2> QED
    BY <2>1 DEF Works, SkipObject, CopyObject, Generate, Rotate
<1>2. What \in Workload /\ ~Unreadable(What) /\ UNCHANGED <<object, outdated, st, stored, lost>> /\ template' = [template EXCEPT ![What] = TemplateOf(What)]
  BY <1>1 DEF Deploy
<1> QED
  BY <1>1, <1>2 DEF Works, TypeInv, ShapeInv

LEMMA HashBelow ==
    ASSUME GrowInv, ProgressInv, What \in Workload, NEW o \in Hashed(What)
    PROVE  Exempt(o) \/ Below(HashOf(What, o), ContentOf(o))
<1>1. RolloutTypeOK /\ ValuesAre /\ StatusInv
  BY Values DEF GrowInv, TypeInv
<1>2. o \in Object \cup UserSecret /\ ContentOf(o) \in Content /\ (o \in Object => ContentOf(o) = object[o].content)
  BY <1>1, HashedIs DEF ValuesAre
<1>3. \A s \in Source : ContentOf(o)[s] \in Nat
  BY <1>2 DEF Content
<1>4. CASE o \in {"agTenant", "oaTenant", "kspmToken"}
  <2>1. HashOf(What, o) = st[o] /\ o \in Hash \ {"proxySecret"} /\ o \in Object
    BY <1>4 DEF HashOf, Hash, Object
  <2> QED
    BY <1>1, <1>2, <2>1 DEF StatusInv
<1>5. CASE o = "agProperties"
  <2>1. HashOf(What, o) = (IF NoData(value["properties"]) THEN Nothing ELSE From({"properties"})) /\ o \in Object
    BY <1>5 DEF HashOf, Object, Read, SpecSource
  <2>2. raced \/ NoData(value["properties"]) \/ value["properties"] <= object[o].content["properties"]
    BY <1>5, HashedIs DEF ProgressInv
  <2>3. \A s \in Source : From({"properties"})[s] = IF s = "properties" THEN value["properties"] ELSE 0
    BY <1>1, FromIs DEF Read, SpecSource
  <2> QED
    BY <1>2, <1>3, <1>5, <2>1, <2>2, <2>3, NothingIs DEF Below, Exempt
<1>6. CASE o = "attributesConfig"
  <2>1. HashOf(What, o) = From({"attributes"}) /\ o \in Object
    BY <1>6 DEF HashOf, Object
  <2>2. dk["attributes"] <= object[o].content["attributes"]
    BY <1>6, HashedIs DEF ProgressInv
  <2>3. \A s \in Source : From({"attributes"})[s] = IF s = "attributes" THEN dk["attributes"] ELSE 0
    BY <1>1, FromIs DEF Read, SpecSource
  <2> QED
    BY <1>2, <1>3, <1>6, <2>1, <2>2, <2>3 DEF Below
<1>7. CASE o = "logConfig"
  <2>1. HashOf(What, o) = LogConfigHash /\ o \in Object
    BY <1>7 DEF HashOf, Object
  <2> QED
    BY <1>2, <1>7, <2>1, HashedIs DEF ProgressInv
<1>8. CASE o \notin {"agTenant", "oaTenant", "kspmToken", "agProperties", "attributesConfig", "logConfig"}
  <2>1. HashOf(What, o) = IF There(o) THEN ContentOf(o) ELSE Nothing
    BY <1>8 DEF HashOf
  <2> QED
    BY <1>2, <2>1, BelowIs
<1> QED
  BY <1>4, <1>5, <1>6, <1>7, <1>8

LEMMA MountableFixed == ASSUME spec' = spec PROVE \A w : Mountable(w)' = Mountable(w)
BY SpecFixed DEF Mountable

LEMMA TemplateInit == ASSUME RolloutInit PROVE TemplateInv /\ PodInv
<1>1. RolloutTypeOK
  BY InitTypes DEF TypeInv
<1>2. ASSUME NEW w \in Workload
      PROVE  /\ ~template[w].there /\ ~pod[w].there
             /\ \A o \in Object \cup UserSecret : template[w].hash[o] = Nothing /\ pod[w].hash[o] = Nothing /\ pod[w].content[o] = Nothing
  BY DEF RolloutInit, NoTemplate, NoPod
<1>3. ASSUME NEW w \in Workload, NEW o \in Hashed(w)
      PROVE  o \in Object \cup UserSecret /\ Below(Nothing, ContentOf(o)) /\ Below(Nothing, Nothing)
  BY <1>1, <1>3, HashedIs, BelowIs, NothingIs, Values DEF ValuesAre
<1> QED
  BY <1>2, <1>3 DEF TemplateInv, PodInv, Mountable

LEMMA TemplateStep == ASSUME GrowInv, ControlInv, ProgressInv, TemplateInv, [RolloutNext]_rolloutVars PROVE TemplateInv'
<1>1. TypeInv /\ TypeInv' /\ ContentInv /\ RolloutTypeOK /\ RolloutTypeOK' /\ ValuesAre /\ ValuesAre'
  BY TypesStep, Values, ValuesNext DEF GrowInv, TypeInv
<1>2. Grows
  BY <1>1, StepGrows
<1>3. \A w : Hashed(w)' = Hashed(w) /\ Mountable(w)' = Mountable(w) /\ Envs(w)' = Envs(w)
  BY <1>2, SpecFixed, MountableFixed DEF Grows
<1>4. \A i : Enabled(i)' <=> Enabled(i)
  BY <1>2, SpecFixed DEF Grows
<1>5. ASSUME NEW w \in Workload, template'[w] = template[w]
      PROVE  /\ template'[w].there => \E i \in 1..Len(Steps) : Enabled(i)' /\ Made(i) = w
             /\ \A o \in Hashed(w) : Exempt(o)' \/ Below(template'[w].hash[o], ContentOf(o)')
             /\ \A o \in Mountable(w) : o \in template'[w].volumes \cup Envs(w) \/ template'[w].hash[o] = Nothing
  <2>1. ASSUME NEW o \in Hashed(w) PROVE Exempt(o)' \/ Below(template'[w].hash[o], ContentOf(o)')
    <3>1. o \in Object \cup UserSecret
      BY HashedIs
    <3>2. template[w].hash[o] \in Content /\ ContentOf(o) \in Content /\ ContentOf(o)' \in Content
      BY <1>1, <3>1 DEF RolloutTypeOK, ValuesAre
    <3>3. Exempt(o) \/ Below(template[w].hash[o], ContentOf(o))
      BY DEF TemplateInv
    <3>4. Exempt(o) => Exempt(o)'
      BY <1>2 DEF Exempt, Grows
    <3> QED
      BY <1>1, <1>2, <1>5, <3>1, <3>2, <3>3, <3>4, ReadGrows, BelowIs
  <2> QED
    BY <1>4, <1>5, <2>1 DEF TemplateInv
<1>6. ASSUME NEW w \in Workload, template'[w] # template[w]
      PROVE  /\ template'[w].there => \E i \in 1..Len(Steps) : Enabled(i)' /\ Made(i) = w
             /\ \A o \in Hashed(w) : Exempt(o)' \/ Below(template'[w].hash[o], ContentOf(o)')
             /\ \A o \in Mountable(w) : o \in template'[w].volumes \cup Envs(w) \/ template'[w].hash[o] = Nothing
  <2>1. w = What /\ Works /\ template'[w] = TemplateOf(w)
    BY <1>1, <1>6, TemplateSteps
  <2>2. position \in 1..28 /\ Made(position) = w
    BY <1>1, <2>1, WorkMoves
  <2>3. position \in 1..Len(Steps) /\ Enabled(position)
    BY <2>2, StepTable DEF ControlInv, PositionInv
  <2>4. \A o \in Object \cup UserSecret : TemplateOf(w).hash[o] = IF o \in Hashed(w) THEN HashOf(w, o) ELSE Nothing
    BY <1>1, TemplateIs
  <2>5. ASSUME NEW o \in Hashed(w) PROVE Exempt(o)' \/ Below(template'[w].hash[o], ContentOf(o)')
    <3>1. o \in Object \cup UserSecret
      BY HashedIs
    <3>2. HashOf(w, o) \in Content /\ ContentOf(o) \in Content /\ ContentOf(o)' \in Content /\ Below(ContentOf(o), ContentOf(o)')
      BY <1>1, <1>2, <3>1, ReadGrows DEF ValuesAre
    <3>3. Exempt(o) \/ Below(HashOf(w, o), ContentOf(o))
      BY <2>1, HashBelow
    <3>4. Exempt(o) => Exempt(o)'
      BY <1>2 DEF Exempt, Grows
    <3>5. template'[w].hash[o] = HashOf(w, o)
      BY <2>1, <2>4, <3>1
    <3> QED
      BY <3>2, <3>3, <3>4, <3>5, BelowIs
  <2>6. ASSUME NEW o \in Mountable(w), o \notin template'[w].volumes \cup Envs(w) PROVE template'[w].hash[o] = Nothing
    <3>1. o \in Hashed(w) /\ o \in Object \cup UserSecret /\ o \in Volumes(w, TRUE)
      BY <2>6, HashedIs DEF Mountable
    <3>2. o \notin Volumes(w, object["pgcConfig"].there)
      BY <1>1, <2>1, <2>6, TemplateIs
    <3>3. o = "pgcConfig" /\ ~object["pgcConfig"].there
      <4>1. object["pgcConfig"].there \in BOOLEAN
        BY <1>1 DEF RolloutTypeOK, Object
      <4> QED
        BY <3>1, <3>2, <4>1, HashedIs
    <3>4. HashOf(w, o) = Nothing
      BY <3>3 DEF HashOf, There, UserSecret
    <3> QED
      BY <2>1, <2>4, <3>1, <3>4
  <2> QED
    BY <1>4, <2>2, <2>3, <2>5, <2>6
<1>7. ASSUME NEW w \in Workload
      PROVE  /\ template'[w].there => \E i \in 1..Len(Steps) : Enabled(i)' /\ Made(i) = w
             /\ \A o \in Hashed(w) : Exempt(o)' \/ Below(template'[w].hash[o], ContentOf(o)')
             /\ \A o \in Mountable(w) : o \in template'[w].volumes \cup Envs(w) \/ template'[w].hash[o] = Nothing
  BY <1>5, <1>6
<1> QED
  BY <1>3, <1>7 DEF TemplateInv

LEMMA PodSteps ==
    ASSUME TypeInv, [RolloutNext]_rolloutVars
    PROVE  UNCHANGED pod \/ \E w \in Workload : StartPods(w)
BY StepKinds, WorkMoves DEF StartReconcile, WriteStatus, Crash, Meddles, ChangeValue, DeleteSecret, IntervalPasses, rolloutVars

LEMMA PodStep == ASSUME GrowInv, TemplateInv, PodInv, [RolloutNext]_rolloutVars PROVE PodInv'
<1>1. TypeInv /\ TypeInv' /\ ContentInv /\ RolloutTypeOK /\ RolloutTypeOK' /\ ValuesAre /\ ValuesAre'
  BY TypesStep, Values, ValuesNext DEF GrowInv, TypeInv
<1>2. Grows
  BY <1>1, StepGrows
<1>3. \A w : Mountable(w)' = Mountable(w)
  BY <1>2, MountableFixed DEF Grows
<1>4. ASSUME NEW w \in Workload, template[w].there PROVE template'[w].there
  <2>1. TemplateOf(w).there
    BY <1>1, TemplateIs
  <2> QED
    BY <1>1, <1>4, <2>1, TemplateSteps
<1>5. ASSUME NEW w \in Workload, pod'[w] = pod[w]
      PROVE  /\ pod'[w].there => template'[w].there
             /\ \A o \in Mountable(w) : (Exempt(o)' \/ Below(pod'[w].hash[o], pod'[w].content[o])) /\ Below(pod'[w].content[o], ContentOf(o)')
  <2>1. ASSUME NEW o \in Mountable(w)
        PROVE  (Exempt(o)' \/ Below(pod'[w].hash[o], pod'[w].content[o])) /\ Below(pod'[w].content[o], ContentOf(o)')
    <3>1. o \in Object \cup UserSecret
      BY HashedIs DEF Mountable
    <3>2. pod[w].content[o] \in Content /\ ContentOf(o) \in Content /\ ContentOf(o)' \in Content /\ Below(ContentOf(o), ContentOf(o)')
      BY <1>1, <1>2, <3>1, ReadGrows DEF RolloutTypeOK, ValuesAre
    <3>3. (Exempt(o) \/ Below(pod[w].hash[o], pod[w].content[o])) /\ Below(pod[w].content[o], ContentOf(o))
      BY DEF PodInv
    <3>4. Exempt(o) => Exempt(o)'
      BY <1>2 DEF Exempt, Grows
    <3> QED
      BY <1>5, <3>2, <3>3, <3>4, BelowIs
  <2> QED
    BY <1>4, <1>5, <2>1 DEF PodInv
<1>6. ASSUME NEW w \in Workload, StartPods(w)
      PROVE  /\ template'[w].there
             /\ \A o \in Mountable(w) : (Exempt(o)' \/ Below(pod'[w].hash[o], pod'[w].content[o])) /\ Below(pod'[w].content[o], ContentOf(o)')
  <2>1. ASSUME NEW o \in Mountable(w)
        PROVE  (Exempt(o)' \/ Below(pod'[w].hash[o], pod'[w].content[o])) /\ Below(pod'[w].content[o], ContentOf(o)')
    <3>1. o \in Object \cup UserSecret /\ o \in Hashed(w)
      BY HashedIs DEF Mountable
    <3>2. ContentOf(o) \in Content /\ ContentOf(o)' \in Content /\ Below(ContentOf(o), ContentOf(o)')
      BY <1>1, <1>2, <3>1, ReadGrows DEF ValuesAre
    <3>3. pod'[w].hash[o] = template[w].hash[o] /\ pod'[w].content[o] = IF o \in Needs(w) THEN ContentOf(o) ELSE Nothing
      BY <1>1, <1>6, <3>1, StartPodsIs
    <3>4. Exempt(o) => Exempt(o)'
      BY <1>2 DEF Exempt, Grows
    <3>5. CASE o \in Needs(w)
      BY <3>1, <3>2, <3>3, <3>4, <3>5 DEF TemplateInv
    <3>6. CASE o \notin Needs(w)
      <4>1. template[w].hash[o] = Nothing
        BY <3>1, <3>6 DEF TemplateInv, Needs
      <4> QED
        BY <3>2, <3>3, <3>6, <4>1, BelowIs, NothingIs
    <3> QED
      BY <3>5, <3>6
  <2> QED
    BY <1>4, <1>6, <2>1 DEF StartPods, Startable
<1>7. ASSUME NEW w \in Workload
      PROVE  /\ pod'[w].there => template'[w].there
             /\ \A o \in Mountable(w) : (Exempt(o)' \/ Below(pod'[w].hash[o], pod'[w].content[o])) /\ Below(pod'[w].content[o], ContentOf(o)')
  <2>1. CASE UNCHANGED pod
    BY <1>5, <2>1
  <2>2. ASSUME NEW v \in Workload, StartPods(v)
        PROVE  /\ pod'[w].there => template'[w].there
               /\ \A o \in Mountable(w) : (Exempt(o)' \/ Below(pod'[w].hash[o], pod'[w].content[o])) /\ Below(pod'[w].content[o], ContentOf(o)')
    <3>1. CASE v = w
      BY <1>6, <2>2, <3>1
    <3>2. CASE v # w
      BY <1>1, <1>5, <2>2, <3>2, StartPodsIs
    <3> QED
      BY <3>1, <3>2
  <2> QED
    BY <1>1, <2>1, <2>2, PodSteps
<1> QED
  BY <1>3, <1>7 DEF PodInv

-----------------------------------------------------------------------------
(* What undisturbed reconciles have done *)

LEMMA DesiredFixed ==
    ASSUME TypeInv, TypeInv', UNCHANGED <<spec, dk, value>>, NEW o \in Copied,
           o # "logConfig" \/ object'["oaTenant"].content = object["oaTenant"].content
    PROVE  Desired(o)' = Desired(o)
<1>1. ValuesAre /\ ValuesAre'
  BY Values, ValuesNext DEF TypeInv
<1>2. Desired(o) \in Content /\ Desired(o)' \in Content
  BY <1>1 DEF ValuesAre
<1>3. Feeds(o)' = Feeds(o) /\ \A s \in Source : Read(s)' = Read(s)
  BY FeedsFixed DEF Read
<1>4. ASSUME NEW s \in Source PROVE Desired(o)'[s] = Desired(o)[s]
  BY <1>1, <1>3 DEF ValuesAre
<1> QED
  BY <1>2, <1>4 DEF Content

LEMMA SkippedFixed == ASSUME UNCHANGED <<spec, value>> PROVE (NoProperties' <=> NoProperties) /\ \A o : Skipped(o)' <=> Skipped(o)
BY DEF Skipped, NoProperties, With, NeedsCustomNoProxy

LEMMA NotSkipped ==
    /\ \A o : o \notin {"agProperties", "kmProperties"} => ~Skipped(o)
    /\ \A o : ~Leaves(o) /\ ~Refuses(o) => ~Skipped(o)
    /\ \A o : Leaves(o) \/ Refuses(o) => o \in {"agProperties", "kmProperties"} /\ (With("properties") => Skipped(o))
BY DEF Skipped, NoProperties, Leaves, Refuses, Read, SpecSource

LEMMA NothingDone == ASSUME \A o \in Object : ~Done(o)' PROVE DoneInv'
BY Strings DEF DoneInv

LEMMA NotDone ==
    ASSUME quiet' = 0, spoiled' \/ position' = 0
    PROVE  \A o : ~Done(o)'
<1>1. ASSUME NEW i \in 1..28, position' = 0 PROVE ~(i < position')
  BY <1>1
<1> QED
  BY <1>1, StepTable DEF Done

LEMMA DoneFrame ==
    ASSUME TypeInv, TypeInv', DoneInv, UNCHANGED <<spec, dk, value, object, outdated, st>>,
           \A o \in Object : Done(o)' => Done(o)
    PROVE  DoneInv'
<1>1. \A o \in Copied : Desired(o)' = Desired(o)
  BY DesiredFixed
<1> QED
  BY <1>1, SkippedFixed, Strings DEF DoneInv

\* The objects that are done after a step that succeeded, or a workload that was skipped.
LEMMA DoneNext ==
    ASSUME TypeInv, ControlInv, Works, ~Fails, NEW o \in Object, Done(o)'
    PROVE  Done(o) \/ o = What
<1>1. /\ position \in 1..28 /\ position' \in 1..28 /\ spec' = spec /\ quiet' = quiet /\ spoiled' = spoiled
      /\ (Succeeds \/ Skips) /\ Made(position) = What
  BY WorkMoves
<1>2. PICK i \in 1..28 : Enabled(i) /\ Made(i) = o /\ (quiet # 0 \/ (i < position' /\ ~spoiled))
  BY <1>1, SpecFixed, StepTable DEF Done
<1>3. CASE quiet # 0 \/ i < position
  BY <1>2, <1>3, StepTable DEF Done
<1>4. CASE quiet = 0 /\ ~(i < position)
  <2>1. CASE Succeeds
    <3>1. i <= position
      BY <1>2, <1>4, <2>1, NextStepFacts DEF Succeeds, TypeInv, RolloutTypeOK
    <3>2. i = position
      BY <1>1, <1>4, <3>1
    <3> QED
      BY <1>1, <1>2, <2>1, <3>2
  <2>2. CASE Skips
    <3>1. Made(position) \in Workload \cup {"kmProperties"}
      BY <1>1, <2>2 DEF Skips, Deploy, Refuses
    <3>2. i <= position
      BY <1>1, <1>2, <1>4, <2>2, <3>1, NextComponentFacts DEF Skips
    <3>3. i = position
      BY <1>1, <1>4, <3>2
    <3> QED
      BY <1>1, <1>2, <3>3
  <2> QED
    BY <1>1, <2>1, <2>2
<1> QED
  BY <1>3, <1>4

LEMMA LogConfigAfterTenant == ASSUME TypeInv, Done("logConfig") PROVE Done("oaTenant")
<1>1. PICK i \in 1..28 : Enabled(i) /\ Made(i) = "logConfig" /\ (quiet # 0 \/ (i < position /\ ~spoiled))
  BY StepTable DEF Done
<1>2. i = 23
  BY <1>1, StepTable
<1>3. Enabled(22)
  BY <1>1, <1>2, StepTable DEF Enabled, Wanted, Applies
<1>4. position \in 0..28
  BY StepTable DEF TypeInv, RolloutTypeOK
<1> QED
  BY <1>1, <1>2, <1>3, <1>4, StepTable DEF Done

LEMMA DoneInit == ASSUME RolloutInit PROVE DoneInv /\ DeployedInv
<1>1. quiet = 0 /\ position = 0
  BY DEF RolloutInit
<1>2. ASSUME NEW i \in 1..28 PROVE ~(i < position)
  BY <1>1
<1> QED
  BY <1>1, <1>2, StepTable, Strings DEF DoneInv, DeployedInv, Done, Deployed, MaxQuiet

LEMMA DoneCopy == ASSUME TypeInv, TypeInv', ControlInv, DoneInv, CopyObject, Succeeds PROVE DoneInv'
<1>1. RolloutTypeOK /\ Works /\ ~Fails /\ position \in 1..28 /\ Made(position) = What /\ What \in Copied /\ What \in Object
      /\ UNCHANGED <<spec, dk, value, outdated>>
  <2>1. Works /\ What \in Copied
    BY DEF Works, CopyObject, Copied
  <2>2. ~Fails
    <3>1. disturbances \in Nat
      BY DEF TypeInv, RolloutTypeOK
    <3> QED
      BY <3>1 DEF Fails, Succeeds, Disturb, Counted, NoFault
  <2> QED
    BY <2>1, <2>2, WorkMoves, Strings DEF TypeInv, CopyObject
<1>2. object'[What].there /\ object'[What].content = Desired(What) /\ (What \notin Hash => st' = st) /\ (What \in Hash => st'[What] = Desired(What))
  BY <1>1, CopyDone
<1>3. \A o \in Object : o # What => object'[o] = object[o]
  BY <1>1, WriteIs, DesiredType DEF CopyObject, CreateOrUpdate
<1>4. \A o \in Hash : o # What => st'[o] = st[o]
  BY <1>1 DEF CopyObject, HashStatus, RolloutTypeOK
<1>5. ASSUME NEW o \in Copied, Done(o)' PROVE Desired(o)' = Desired(o)
  <2>1. CASE o # "logConfig" \/ What # "oaTenant"
    BY <1>1, <1>3, <2>1, DesiredFixed DEF Object
  <2>2. CASE o = "logConfig" /\ What = "oaTenant"
    <3>1. Done("oaTenant")
      <4>1. o \in Object /\ o # What
        BY <2>2, Strings
      <4>2. Done(o)
        BY <1>1, <1>5, <4>1, DoneNext
      <4> QED
        BY <2>2, <4>2, LogConfigAfterTenant
    <3>2. object["oaTenant"].content = Desired("oaTenant")
      BY <1>1, <2>2, <3>1, NotSkipped DEF DoneInv
    <3> QED
      BY <1>1, <1>2, <2>2, <3>2, DesiredFixed
  <2> QED
    BY <2>1, <2>2
<1>6. ASSUME NEW o \in Copied, Done(o)' PROVE Skipped(o)' \/ (object'[o].there /\ object'[o].content = Desired(o)')
  <2>1. CASE o = What
    BY <1>2, <1>5, <1>6, <2>1
  <2>2. CASE o # What
    <3>1. Done(o) /\ o \in Object
      BY <1>1, <1>6, <2>2, DoneNext, Strings
    <3> QED
      BY <1>1, <1>3, <1>5, <1>6, <2>2, <3>1, SkippedFixed DEF DoneInv
  <2> QED
    BY <2>1, <2>2
<1>7. ASSUME NEW o \in Generated, Done(o)' PROVE object'[o].there /\ o \notin outdated'
  <2>1. o \in Object /\ o # What
    BY <1>1, Strings DEF Copied
  <2>2. Done(o)
    BY <1>1, <1>7, <2>1, DoneNext
  <2> QED
    BY <1>1, <1>3, <2>1, <2>2 DEF DoneInv
<1>8. ASSUME NEW o \in Reported \cup {"proxySecret"}, Done(o)' PROVE st'[o] = Desired(o)'
  <2>1. o \in Copied /\ o \in Hash /\ o \in Object
    BY Strings
  <2>2. CASE o = What
    BY <1>2, <1>5, <1>8, <2>1, <2>2
  <2>3. CASE o # What
    <3>1. Done(o)
      BY <1>1, <1>8, <2>1, <2>3, DoneNext
    <3> QED
      BY <1>4, <1>5, <1>8, <2>1, <2>3, <3>1 DEF DoneInv
  <2> QED
    BY <2>2, <2>3
<1> QED
  BY <1>6, <1>7, <1>8 DEF DoneInv

LEMMA DoneSkip == ASSUME TypeInv, TypeInv', ControlInv, DoneInv, SkipObject, ~Fails PROVE DoneInv'
<1>1. Works /\ UNCHANGED <<spec, dk, value, object, outdated, st>>
  BY DEF Works, SkipObject
<1>2. position \in 1..28 /\ Made(position) = What /\ Enabled(position) /\ (Leaves(What) \/ Refuses(What))
  BY <1>1, WorkMoves DEF ControlInv, PositionInv, SkipObject
<1>3. With("properties")
  BY <1>2 DEF Leaves, Refuses, Enabled, Applies
<1>4. What \in {"agProperties", "kmProperties"} /\ Skipped(What)
  BY <1>2, <1>3, NotSkipped
<1>5. \A o \in Object : Done(o)' => Done(o) \/ o = What
  BY <1>1, DoneNext
<1>6. \A o \in Copied : Desired(o)' = Desired(o)
  BY <1>1, DesiredFixed
<1>7. What \notin Generated \cup Reported \cup {"proxySecret"}
  BY <1>4 DEF Generated, Rotated, Reported
<1>8. \A o \in Object : Skipped(o)' <=> Skipped(o)
  BY <1>1, SkippedFixed
<1>9. ASSUME NEW o \in Copied, Done(o)' PROVE Skipped(o)' \/ (object'[o].there /\ object'[o].content = Desired(o)')
  BY <1>1, <1>4, <1>5, <1>6, <1>8, <1>9, Strings DEF DoneInv
<1>10. ASSUME NEW o \in Generated, Done(o)' PROVE object'[o].there /\ o \notin outdated'
  BY <1>1, <1>5, <1>7, <1>10, Strings DEF DoneInv
<1>11. ASSUME NEW o \in Reported \cup {"proxySecret"}, Done(o)' PROVE st'[o] = Desired(o)'
  BY <1>1, <1>5, <1>6, <1>7, <1>11, Strings DEF DoneInv
<1> QED
  BY <1>9, <1>10, <1>11 DEF DoneInv

LEMMA DoneGenerate == ASSUME TypeInv, TypeInv', ControlInv, DoneInv, Generate \/ Rotate, ~Fails PROVE DoneInv'
<1>1. RolloutTypeOK /\ Works /\ position \in 1..28 /\ Made(position) = What /\ What \in Generated /\ What \notin Copied /\ What \in Object
      /\ UNCHANGED <<spec, dk, value>>
  <2>1. Works /\ What \in Generated /\ What \notin Copied
    BY Strings DEF Works, Generate, Rotate, Copied
  <2> QED
    BY <2>1, WorkMoves, Strings DEF TypeInv
<1>2. /\ (UNCHANGED object /\ object[What].there) \/ Write(What, NextGeneration(What))
      /\ outdated' = outdated \ {What}
  <2>1. CASE Generate
    <3>1. What \notin outdated
      BY <1>1, <2>1 DEF Generate, RolloutTypeOK
    <3> QED
      BY <2>1, <3>1 DEF Generate
  <2>2. CASE Rotate
    BY <2>2 DEF Rotate, IsOutdated
  <2> QED
    BY <2>1, <2>2
<1>3. object'[What].there /\ \A o \in Object : o # What => object'[o] = object[o]
  BY <1>1, <1>2, WriteIs, NextGenerationIs
<1>4. \A o \in Reported \cup {"proxySecret"} : st'[o] = st[o]
  <2>1. UNCHANGED st \/ st' = [st EXCEPT !["kspmToken"] = NextGeneration("kspmToken")]
    BY DEF Generate, Rotate
  <2>2. \A o \in Reported \cup {"proxySecret"} : o \in Hash /\ o # "kspmToken"
    BY DEF Reported, Hash
  <2> QED
    BY <1>1, <2>1, <2>2 DEF RolloutTypeOK
<1>5. \A o \in Copied : Desired(o)' = Desired(o)
  <2>1. "oaTenant" \in Object /\ "oaTenant" # What
    BY <1>1 DEF Object, Generated, Rotated
  <2>2. object'["oaTenant"].content = object["oaTenant"].content
    BY <1>3, <2>1
  <2> QED
    BY <1>1, <2>2, DesiredFixed
<1>6. ASSUME NEW o \in Copied, Done(o)' PROVE (Skipped(o)' \/ (object'[o].there /\ object'[o].content = Desired(o)')) /\ Done(o)
  <2>1. Done(o) /\ o \in Object /\ o # What
    BY <1>1, <1>6, DoneNext, Strings
  <2> QED
    BY <1>1, <1>3, <1>5, <2>1, SkippedFixed DEF DoneInv
<1>7. ASSUME NEW o \in Generated, Done(o)' PROVE object'[o].there /\ o \notin outdated'
  <2>1. o \in Object
    BY Strings
  <2>2. CASE o = What
    BY <1>2, <1>3, <2>2
  <2>3. CASE o # What
    <3>1. Done(o)
      BY <1>1, <1>7, <2>1, <2>3, DoneNext
    <3> QED
      BY <1>2, <1>3, <2>1, <2>3, <3>1 DEF DoneInv
  <2> QED
    BY <2>2, <2>3
<1>8. ASSUME NEW o \in Reported \cup {"proxySecret"}, Done(o)' PROVE st'[o] = Desired(o)'
  <2>1. o \in Copied
    BY Strings
  <2> QED
    BY <1>4, <1>5, <1>6, <1>8, <2>1 DEF DoneInv
<1> QED
  BY <1>6, <1>7, <1>8 DEF DoneInv

LEMMA DoneStep == ASSUME TypeInv, ControlInv, DoneInv, [RolloutNext]_rolloutVars PROVE DoneInv'
<1>1. TypeInv' /\ spec' = spec /\ \A i : Enabled(i)' <=> Enabled(i)
  BY TypesStep, ValueSteps, SpecFixed
<1>2. CASE StartReconcile
  <2>1. position = 0 /\ position \in 0..Len(Steps) /\ position' \in NextStep /\ quiet' = quiet /\ dk' = value /\ st' = stored /\ UNCHANGED <<value, object, outdated>>
    BY <1>2 DEF StartReconcile, TypeInv, RolloutTypeOK
  <2>2. CASE quiet # 0
    <3>1. UNCHANGED <<dk, st>>
      BY <2>1, <2>2 DEF ControlInv, CopyInv, Undisturbed
    <3>2. \A o \in Object : Done(o)' => Done(o)
      BY <1>1, <2>1, <2>2 DEF Done
    <3> QED
      BY <1>1, <2>1, <3>1, <3>2, DoneFrame
  <2>3. CASE quiet = 0
    <3>1. ASSUME NEW i \in 1..28, Enabled(i), i < position' PROVE FALSE
      <4>1. i <= position
        BY <2>1, <3>1, NextStepFacts
      <4> QED
        BY <2>1, <4>1
    <3>2. \A o \in Object : ~Done(o)'
      BY <1>1, <2>1, <2>3, <3>1, StepTable DEF Done
    <3> QED
      BY <3>2, NothingDone
  <2> QED
    BY <2>2, <2>3
<1>3. CASE Works
  <2>1. CASE Fails
    BY <1>3, <2>1, WorkMoves, NotDone, NothingDone
  <2>2. CASE ~Fails /\ Deploy
    <3>1. UNCHANGED <<dk, value, object, outdated, st>> /\ What \in Workload
      BY <2>2 DEF Deploy
    <3>2. \A o \in Object : Done(o)' => Done(o)
      BY <1>3, <2>2, <3>1, DoneNext, Strings
    <3> QED
      BY <1>1, <3>1, <3>2, DoneFrame
  <2>3. CASE ~Fails /\ CopyObject
    <3>1. Succeeds
      BY <2>3 DEF CopyObject
    <3> QED
      BY <1>1, <2>3, <3>1, DoneCopy
  <2>4. CASE ~Fails /\ (Generate \/ Rotate)
    BY <1>1, <2>4, DoneGenerate
  <2>5. CASE ~Fails /\ SkipObject
    BY <1>1, <2>5, DoneSkip
  <2> QED
    BY <1>3, <2>1, <2>2, <2>3, <2>4, <2>5 DEF Works
<1>4. CASE WriteStatus
  <2>1. position = 28 /\ position' = 0 /\ UNCHANGED <<dk, value, object, outdated, st>>
    BY <1>4, WriteIsLast DEF WriteStatus
  <2>2. CASE quiet' = 0
    BY <2>1, <2>2, NotDone, NothingDone
  <2>3. CASE quiet' # 0
    <3>1. ~spoiled
      BY <1>4, <2>3 DEF WriteStatus
    <3>2. ASSUME NEW o \in Object, Done(o)' PROVE Done(o)
      <4>1. PICK i \in 1..28 : Enabled(i) /\ Made(i) = o
        BY <1>1, <3>2, StepTable DEF Done
      <4>2. i < position
        BY <2>1, <4>1, StepTable, Strings
      <4> QED
        BY <3>1, <4>1, <4>2, StepTable DEF Done
    <3> QED
      BY <1>1, <2>1, <3>2, DoneFrame
  <2> QED
    BY <2>2, <2>3
<1>5. CASE Crash
  BY <1>5, NotDone, NothingDone DEF Crash
<1>6. ASSUME NEW w \in Workload, StartPods(w) PROVE DoneInv'
  <2>1. UNCHANGED <<dk, value, object, outdated, st, position, quiet, spoiled>>
    BY <1>6 DEF StartPods
  <2>2. \A o \in Object : Done(o)' => Done(o)
    BY <1>1, <2>1 DEF Done
  <2> QED
    BY <1>1, <2>1, <2>2, DoneFrame
<1>7. CASE Meddles
  BY <1>7, MeddlingDisturbs, NotDone, NothingDone
<1>8. CASE UNCHANGED rolloutVars
  <2>1. UNCHANGED <<dk, value, object, outdated, st, position, quiet, spoiled>>
    BY <1>8 DEF rolloutVars
  <2>2. \A o \in Object : Done(o)' => Done(o)
    BY <1>1, <2>1 DEF Done
  <2> QED
    BY <1>1, <2>1, <2>2, DoneFrame
<1> QED
  BY <1>2, <1>3, <1>4, <1>5, <1>6, <1>7, <1>8, StepKinds

-----------------------------------------------------------------------------
(* What a workload needs, some step makes *)

Produced(o) == \E i \in 1..28 : Enabled(i) /\ Made(i) = o

LEMMA EnabledIs ==
    /\ NeedsActiveGateProxy \/ NeedsOneAgentProxy => Produced("proxySecret")
    /\ On("activeGate") => /\ Produced("agTenant") /\ Produced("agConnection") /\ Produced("attributesConfig") /\ Produced("agAuth")
                           /\ With("properties") \/ NeedsCustomNoProxy => Produced("agProperties")
                           /\ With("autoCert") /\ ~With("userCert") => Produced("agCert")
    /\ On("kubemon") => /\ Produced("kmConnection") /\ Produced("kmTenant") /\ Produced("kmAuth")
                        /\ With("properties") => Produced("kmProperties")
    /\ Extends => Produced("extToken") /\ Produced("extCert")
    /\ On("telemetry") => Produced("collectorConfig")
    /\ On("kspm") => Produced("kspmToken")
    /\ On("logMonitoring") => Produced("logConfig")
    /\ NeedsPGC => Produced("pgcConfig")
    /\ On("oneAgent") => Produced("oaTenant")
<1>1. NeedsActiveGateProxy \/ NeedsOneAgentProxy => Enabled(1)
  BY StepTable DEF Enabled, Wanted, Applies
<1>2. On("activeGate") => Enabled(2) /\ Enabled(3) /\ Enabled(4) /\ Enabled(5)
  BY StepTable DEF Enabled, Wanted, Applies
<1>3. On("activeGate") /\ (With("properties") \/ NeedsCustomNoProxy) => Enabled(6)
  BY StepTable DEF Enabled, Wanted, Applies
<1>4. On("activeGate") /\ With("autoCert") /\ ~With("userCert") => Enabled(7)
  BY StepTable DEF Enabled, Wanted, Applies
<1>5. On("kubemon") => Enabled(9) /\ Enabled(10) /\ Enabled(11) /\ (With("properties") => Enabled(12))
  BY StepTable DEF Enabled, Wanted, Applies
<1>6. Extends => Enabled(14) /\ Enabled(15)
  BY StepTable DEF Enabled, Wanted, Applies
<1>7. On("telemetry") => Enabled(18)
  BY StepTable DEF Enabled, Wanted, Applies
<1>8. On("kspm") => Enabled(20)
  BY StepTable DEF Enabled, Wanted, Applies
<1>9. On("logMonitoring") => Enabled(23)
  BY StepTable DEF Enabled, Wanted, Applies
<1>10. NeedsPGC => Enabled(25)
  BY StepTable DEF Enabled, Wanted, Applies
<1>11. On("oneAgent") => Enabled(26)
  BY StepTable DEF Enabled, Wanted, Applies
<1>12. ASSUME NEW i \in 1..28, Enabled(i) PROVE Produced(Made(i))
  BY <1>12 DEF Produced
<1> QED
  BY <1>1, <1>2, <1>3, <1>4, <1>5, <1>6, <1>7, <1>8, <1>9, <1>10, <1>11, <1>12, StepTable

LEMMA WorkloadIsOn ==
    ASSUME NEW i \in 1..28, Enabled(i), Made(i) \in Workload
    PROVE  /\ Made(i) = "activeGate" => On("activeGate")
           /\ Made(i) = "kubemon" => On("kubemon")
           /\ Made(i) \in {"eec", "databases"} => Extends
           /\ Made(i) = "collector" => On("telemetry") \/ On("prometheus")
           /\ Made(i) = "kspm" => On("kspm")
           /\ Made(i) = "logMonitoring" => On("logMonitoring")
           /\ Made(i) = "oneAgent" => On("oneAgent")
<1>1. /\ Made(i) = "activeGate" => Component(i) = "activeGate"
      /\ Made(i) = "kubemon" => Component(i) = "kubemon"
      /\ Made(i) \in {"eec", "databases"} => Component(i) = "extension"
      /\ Made(i) = "collector" => Component(i) = "otelc"
      /\ Made(i) = "kspm" => Component(i) = "kspm"
      /\ Made(i) = "logMonitoring" => Component(i) = "logMonitoring"
      /\ Made(i) = "oneAgent" => Component(i) = "oneAgent"
  BY StepTable
<1>2. Wanted(Component(i))
  BY DEF Enabled
<1> QED
  BY <1>1, <1>2 DEF Wanted

\* Hashes that are taken from elsewhere, or from an object that may be missing.
NotRead == {"agTenant", "oaTenant", "kspmToken", "agProperties", "kmProperties", "attributesConfig", "logConfig", "pgcConfig"}

LEMMA NeedsAreProduced ==
    ASSUME NEW i \in 1..28, Enabled(i), NEW w \in Workload, Made(i) = w, NEW o \in Object,
           o \in Volumes(w, TRUE) \cup Envs(w) \cup (Hashed(w) \ NotRead)
    PROVE  Produced(o)
<1>1. ASSUME o \in CertVolumes PROVE Produced(o)
  BY <1>1, EnabledIs DEF CertVolumes, When, HasCaCert, Object
<1>2. "trustedCAs" \notin Object
  BY DEF Object
<1>3. CASE w = "activeGate"
  <2>1. On("activeGate")
    BY <1>3, WorkloadIsOn
  <2>2. o \in ActiveGateVolumes \cup {"agConnection"} \cup (ActiveGateHashed \ NotRead)
    BY <1>3 DEF Volumes, Envs, Hashed
  <2>3. CASE o \in ActiveGateVolumes
    BY <1>1, <2>1, <2>3, EnabledIs DEF ActiveGateVolumes, BaseVolumes, AuthTokenVolumes, RawImageVolumes, SSLVolumes, TrustedCAsVolumes,
       DeploymentPropertiesVolumes, CustomPropertiesVolumes, ProxyVolumes, ReadOnlyVolumes, KubernetesMonitoringVolumes, KSPMTokenVolumes,
       MonitorsKubernetes, EECTokenVolumes, When, Object
  <2>4. ActiveGateHashed \ NotRead \subseteq {"agAuth"}
    BY DEF ActiveGateHashed, KSPMTokenVolumes, When, NotRead
  <2> QED
    BY <2>1, <2>2, <2>3, <2>4, EnabledIs
<1>4. CASE w = "kubemon"
  <2>1. On("kubemon")
    BY <1>4, WorkloadIsOn
  <2>2. o \in KubemonVolumes \cup {"kmConnection"}
    BY <1>4 DEF Volumes, Envs, Hashed, KubemonHashed, KubemonVolumes
  <2>3. o \in {"kmTenant", "kmAuth", "kmConnection"} \/ (o = "kmProperties" /\ With("properties")) \/ (o = "kspmToken" /\ On("kspm"))
    BY <2>2 DEF KubemonVolumes, When, Object
  <2> QED
    BY <2>1, <2>3, EnabledIs
<1>5. CASE w = "eec"
  <2>1. Extends
    BY <1>5, WorkloadIsOn
  <2>2. o \in {"extToken", "extCert"} \cup CertVolumes
    BY <1>5 DEF Volumes, Envs, Hashed, EECVolumes, EECClaims, When, Object
  <2> QED
    BY <1>1, <2>1, <2>2, EnabledIs
<1>6. CASE w = "databases"
  <2>1. Extends
    BY <1>6, WorkloadIsOn
  <2>2. o \in {"extToken", "extCert"}
    BY <1>6 DEF Volumes, Envs, Hashed, DatabaseVolumes, TrustedCAsVolumes, When, Object
  <2> QED
    BY <2>1, <2>2, EnabledIs
<1>7. CASE w = "collector"
  <2>1. o \in CollectorVolumes \cup CollectorEnvs
    BY <1>7 DEF Volumes, Envs, Hashed, CollectorHashed
  <2>2. \/ On("prometheus") /\ o \in {"extToken", "extCert"}
        \/ On("telemetry") /\ o \in {"collectorConfig"} \cup CertVolumes
    BY <2>1 DEF CollectorVolumes, CollectorEnvs, When, Object
  <2> QED
    BY <1>1, <2>2, EnabledIs DEF Extends
<1>8. CASE w = "kspm"
  <2>1. On("kspm")
    BY <1>8, WorkloadIsOn
  <2>2. o \in {"kspmToken"} \cup CertVolumes
    BY <1>8 DEF Volumes, Envs, Hashed, KSPMVolumes, Object
  <2> QED
    BY <1>1, <2>1, <2>2, EnabledIs
<1>9. CASE w = "logMonitoring"
  <2>1. On("logMonitoring")
    BY <1>9, WorkloadIsOn
  <2>2. o = "logConfig"
    BY <1>9 DEF Volumes, Envs, Hashed, LogMonitoringVolumes, Object
  <2> QED
    BY <2>1, <2>2, EnabledIs
<1>10. CASE w = "oneAgent"
  <2>1. On("oneAgent")
    BY <1>10, WorkloadIsOn
  <2>2. o \in OneAgentVolumes(TRUE)
    BY <1>10 DEF Volumes, Envs, Hashed, OneAgentHashed, When, NotRead
  <2>3. \/ o = "oaTenant" \/ (o = "pgcConfig" /\ NeedsPGC) \/ o \in CertVolumes \/ (o = "proxySecret" /\ NeedsOneAgentProxy)
    BY <2>2 DEF OneAgentVolumes, TrustedCAsVolumes, When, Object
  <2> QED
    BY <1>1, <2>1, <2>3, EnabledIs
<1> QED
  BY <1>3, <1>4, <1>5, <1>6, <1>7, <1>8, <1>9, <1>10 DEF Workload

\* Only the ActiveGates and the kubemon operand mount custom properties.
LEMMA PropertiesOf ==
    ASSUME NEW w \in Workload, NEW o \in Volumes(w, TRUE) \cup Envs(w)
    PROVE  (o = "kmProperties" => w = "kubemon") /\ (o = "agProperties" => w = "activeGate")
<1>1. ASSUME o = "kmProperties" PROVE w = "kubemon"
  <2>1. "kmProperties" \in Hashed(w) \cup Volumes(w, TRUE) \cup Envs(w)
    BY <1>1
  <2> QED
    BY <2>1, HashedIs
<1>2. ASSUME o = "agProperties" PROVE w = "activeGate"
  <2>1. "agProperties" \in Volumes(w, TRUE) \cup Envs(w)
    BY <1>2
  <2> QED
    BY <2>1, HashedIs
<1> QED
  BY <1>1, <1>2

LEMMA AllThere ==
    ASSUME TypeInv, DoneInv, quiet # 0, NEW i \in 1..28, Enabled(i), NEW w \in Workload, Made(i) = w,
           NEW o \in Object \cup UserSecret, o \in Volumes(w, TRUE) \cup Envs(w) \cup (Hashed(w) \ NotRead),
           Skipped(o) => object[o].there
    PROVE  There(o)
<1>1. CASE o \in UserSecret
  BY <1>1 DEF There
<1>2. CASE o \in Object
  <2>1. Done(o)
    BY <1>2, NeedsAreProduced, StepTable DEF Produced, Done
  <2>2. object[o].there
    BY <1>2, <2>1 DEF DoneInv, Copied
  <2> QED
    BY <1>2, <2>2, Strings DEF There
<1> QED
  BY <1>1, <1>2

LEMMA AllReadable ==
    ASSUME TypeInv, DoneInv, quiet # 0, NEW i \in 1..28, Enabled(i), NEW w \in Workload, Made(i) = w
    PROVE  ~Unreadable(w)
<1>1. ASSUME NEW o \in Hashed(w) \ NotRead PROVE There(o)
  <2>1. ~Skipped(o) /\ o \in Object \cup UserSecret
    BY <1>1, HashedIs, NotSkipped DEF NotRead
  <2> QED
    BY <1>1, <2>1, AllThere
<1> QED
  BY <1>1 DEF Unreadable, NotRead

LEMMA SameMounts == ASSUME NEW w \in Workload, NEW h PROVE Mounts(w, h) \subseteq Volumes(w, h)
<1>1. EECMounts \subseteq EECVolumes \cup EECClaims
  BY DEF EECMounts, EECVolumes, EECClaims, When
<1> QED
  BY <1>1 DEF Mounts, Volumes, KubemonMounts, CollectorMounts, OneAgentMounts, Workload

-----------------------------------------------------------------------------
(* Undisturbed reconciles change nothing that a template is made of *)

LEMMA QuietStep ==
    ASSUME TypeInv, ControlInv, DoneInv, [RolloutNext]_rolloutVars, quiet # 0, quiet' # 0
    PROVE  UNCHANGED <<spec, object, outdated, st, dk, value>>
<1>1. RolloutTypeOK
  BY DEF TypeInv
<1>2. CASE StartReconcile
  <2>1. position = 0 /\ dk' = value /\ st' = stored /\ UNCHANGED <<spec, value, object, outdated>>
    BY <1>2 DEF StartReconcile
  <2> QED
    BY <2>1 DEF ControlInv, CopyInv, Undisturbed
<1>3. CASE Works
  <2>1. position \in 1..28 /\ Made(position) = What /\ UNCHANGED <<spec, value, dk>>
    BY <1>3, WorkMoves
  <2>2. Enabled(position)
    BY <2>1 DEF ControlInv, PositionInv
  <2>3. Done(What)
    BY <2>1, <2>2, StepTable DEF Done
  <2>4. ~Fails
    BY DEF Fails, Disturb
  <2>5. CASE CopyObject
    <3>1. What \in Copied /\ What \in Object /\ CreateOrUpdate(What) /\ HashStatus(What) /\ UNCHANGED outdated
      BY <2>4, <2>5, Strings DEF CopyObject, Copied
    <3>2. object[What].there /\ object[What].content = Desired(What)
      BY <2>3, <2>5, <3>1, NotSkipped DEF DoneInv, CopyObject
    <3>3. object[What] = [there |-> TRUE, content |-> Desired(What)]
      BY <1>1, <3>1, <3>2 DEF RolloutTypeOK
    <3>4. object' = object
      BY <1>1, <3>1, <3>3 DEF CreateOrUpdate, Write, RolloutTypeOK
    <3>5. st' = st
      <4>1. CASE What \notin Hash
        BY <3>1, <4>1 DEF HashStatus
      <4>2. CASE What \in Hash
        <5>1. What \in Reported \cup {"proxySecret"}
          BY <3>1, <4>2, Strings DEF Copied
        <5>2. st[What] = Desired(What)
          BY <2>3, <5>1 DEF DoneInv
        <5> QED
          BY <1>1, <3>1, <4>2, <5>2 DEF HashStatus, RolloutTypeOK
      <4> QED
        BY <4>1, <4>2
    <3> QED
      BY <2>1, <3>1, <3>4, <3>5
  <2>6. CASE Generate
    <3>1. object[What].there
      BY <2>3, <2>6 DEF DoneInv, Generate
    <3> QED
      BY <2>1, <2>6, <3>1 DEF Generate
  <2>7. CASE Rotate
    <3>1. object[What].there /\ What \notin outdated
      BY <2>3, <2>7, Strings DEF DoneInv, Rotate
    <3> QED
      BY <2>1, <2>7, <3>1 DEF Rotate, IsOutdated
  <2>8. CASE SkipObject \/ Deploy
    BY <2>1, <2>8 DEF SkipObject, Deploy
  <2> QED
    BY <1>3, <2>5, <2>6, <2>7, <2>8 DEF Works
<1>4. CASE WriteStatus
  BY <1>4 DEF WriteStatus
<1>5. CASE Crash
  BY <1>5 DEF Crash
<1>6. CASE \E w \in Workload : StartPods(w)
  BY <1>6 DEF StartPods
<1>7. CASE Meddles
  BY <1>7, MeddlingDisturbs
<1>8. CASE UNCHANGED rolloutVars
  BY <1>8 DEF rolloutVars
<1> QED
  BY <1>2, <1>3, <1>4, <1>5, <1>6, <1>7, <1>8, StepKinds

LEMMA TemplateFixed ==
    ASSUME UNCHANGED <<spec, object, st, dk, value>>
    PROVE  \A w \in Workload : TemplateOf(w)' = TemplateOf(w)
<1>1. \A ss : From(ss)' = From(ss)
  BY DEF From, Read
<1>2. LogConfigHash' = LogConfigHash
  BY <1>1 DEF LogConfigHash, With
<1>3. \A o : There(o)' = There(o) /\ ContentOf(o)' = ContentOf(o)
  BY DEF There, ContentOf
<1>9. Read("properties")' = Read("properties")
  BY DEF Read
<1>4. \A w, o : HashOf(w, o)' = HashOf(w, o)
  BY <1>1, <1>2, <1>3, <1>9 DEF HashOf, NoData
<1>5. \A w : Hashed(w)' = Hashed(w) /\ \A h : Volumes(w, h)' = Volumes(w, h) /\ Mounts(w, h)' = Mounts(w, h)
  BY SpecFixed
<1> QED
  BY <1>4, <1>5 DEF TemplateOf

LEMMA DeployedStep == ASSUME TypeInv, ControlInv, DoneInv, DeployedInv, [RolloutNext]_rolloutVars PROVE DeployedInv'
<1> SUFFICES ASSUME NEW w \in Workload, Deployed(w)', ~Blocked(w)' PROVE template'[w] = TemplateOf(w)'
  BY DEF DeployedInv
<1>1. TypeInv' /\ spec' = spec /\ quiet \in 0..2 /\ quiet' \in 0..2 /\ position \in 0..28 /\ position' \in 0..28
  BY TypesStep, ValueSteps, StepTable DEF TypeInv, RolloutTypeOK, MaxQuiet
<1>2. PICK i \in 1..28 : Enabled(i) /\ Made(i) = w /\ (quiet' = 2 \/ (quiet' # 0 /\ i < position'))
  BY <1>1, SpecFixed, StepTable DEF Deployed, MaxQuiet
<1>3. quiet # 0
  <2>1. UNCHANGED quiet \/ quiet' = 0 \/ WriteStatus
    BY StepKinds, MeddlingDisturbs DEF StartReconcile, Works, SkipObject, CopyObject, Generate, Rotate, Deploy, Goes, Succeeds, Fails, Disturb, NoFault,
       Crash, StartPods, rolloutVars
  <2>2. CASE WriteStatus /\ quiet = 0
    <3>1. position' = 0 /\ quiet' \in {0, 1}
      BY <2>2 DEF WriteStatus, MaxQuiet
    <3> QED
      BY <1>2, <3>1
  <2> QED
    BY <1>2, <2>1, <2>2
<1>4. UNCHANGED <<spec, object, outdated, st, dk, value>>
  BY <1>2, <1>3, QuietStep
<1>5. TemplateOf(w)' = TemplateOf(w) /\ ~Blocked(w)
  BY <1>4, TemplateFixed, SkippedFixed DEF Blocked
<1>6. CASE Deployed(w)
  <2>1. template[w] = TemplateOf(w)
    BY <1>5, <1>6 DEF DeployedInv
  <2>2. template'[w] = template[w] \/ template'[w] = TemplateOf(w)
    BY TemplateSteps
  <2> QED
    BY <1>5, <2>1, <2>2
<1>7. CASE ~Deployed(w)
  <2>1. quiet # 2 /\ ~(i < position)
    BY <1>2, <1>3, <1>7, StepTable DEF Deployed, MaxQuiet
  <2>2. CASE WriteStatus
    <3>1. position = 28
      BY <2>2, WriteIsLast
    <3>2. i = 28
      BY <2>1, <3>1
    <3> QED
      BY <1>2, <3>2, StepTable DEF Workload
  <2>3. CASE ~WriteStatus
    <3>1. UNCHANGED quiet \/ quiet' = 0
      BY <2>3, StepKinds, MeddlingDisturbs DEF StartReconcile, Works, SkipObject, CopyObject, Generate, Rotate, Deploy, Goes, Succeeds, Fails, Disturb, NoFault,
         Crash, StartPods, rolloutVars
    <3>2. i < position' /\ quiet' # 0
      BY <1>2, <2>1, <3>1
    <3>3. CASE StartReconcile
      <4>1. i <= position
        BY <1>2, <3>2, <3>3, NextStepFacts DEF StartReconcile, TypeInv, RolloutTypeOK
      <4> QED
        BY <3>3, <4>1 DEF StartReconcile
    <3>4. CASE Works
      <4>1. position \in 1..28 /\ position < position' /\ Made(position) = What /\ (Succeeds \/ Skips)
        BY <3>2, <3>4, WorkMoves DEF Fails, Disturb
      <4>2. ~Skips
        <5>1. SUFFICES ASSUME Skips PROVE FALSE
          OBVIOUS
        <5>2. Enabled(position)
          BY <4>1 DEF ControlInv, PositionInv
        <5>3. CASE What \in Workload /\ Unreadable(What)
          BY <1>3, <4>1, <5>2, <5>3, AllReadable
        <5>4. CASE Refuses(What)
          <6>1. Made(position) = "kmProperties" /\ position = 12 /\ NoProperties
            BY <4>1, <5>2, <5>4, Positions DEF Refuses, NoProperties, Enabled, Applies, Read, SpecSource
          <6>2. i <= 13
            BY <1>2, <3>2, <4>1, <5>1, <6>1, NextComponentFacts DEF Skips
          <6>3. i = 13
            BY <1>2, <2>1, <6>1, <6>2 DEF Workload
          <6> QED
            BY <1>2, <1>5, <6>1, <6>3, Positions DEF Blocked
        <5> QED
          BY <5>1, <5>3, <5>4 DEF Skips, Deploy
      <4>3. i <= position
        BY <1>2, <3>2, <4>1, <4>2, NextStepFacts DEF Succeeds, TypeInv, RolloutTypeOK
      <4>4. i = position /\ w = What
        BY <1>2, <2>1, <4>1, <4>3
      <4>5. Deploy
        BY <3>4, <4>4, Strings DEF Works, SkipObject, Leaves, Refuses, CopyObject, Generate, Rotate, Workload
      <4>6. ~Unreadable(What)
        BY <1>2, <1>3, <4>4, AllReadable
      <4>7. template' = [template EXCEPT ![What] = TemplateOf(What)]
        BY <3>2, <4>5, <4>6, <4>1, <4>2 DEF Deploy, Fails, Disturb
      <4> QED
        BY <1>5, <4>4, <4>7 DEF TypeInv, ShapeInv
    <3>5. CASE Crash \/ Meddles
      BY <3>2, <3>5, MeddlingDisturbs DEF Crash
    <3>6. CASE (\E v \in Workload : StartPods(v)) \/ UNCHANGED rolloutVars
      BY <2>1, <3>2, <3>6 DEF StartPods, rolloutVars
    <3> QED
      BY <2>3, <3>3, <3>4, <3>5, <3>6, StepKinds
  <2> QED
    BY <2>2, <2>3
<1> QED
  BY <1>6, <1>7

-----------------------------------------------------------------------------
(* Properties *)

LEMMA ThereStays ==
    ASSUME TypeInv, [RolloutNext]_rolloutVars, NEW o \in Copied, object[o].there
    PROVE  object'[o].there
<1>1. RolloutTypeOK /\ o \in Object /\ o \notin Generated
  BY Strings DEF TypeInv, Copied
<1>2. ASSUME NEW x \in Object, NEW c \in Content, Write(x, c) PROVE object'[o].there
  BY <1>1, <1>2, WriteIs
<1>3. CASE UNCHANGED object
  BY <1>3
<1>4. CASE Works
  <2>1. CASE CopyObject
    <3>1. What \in Copied /\ What \in Object
      BY <2>1, Strings DEF CopyObject, Copied
    <3> QED
      BY <1>1, <1>2, <1>3, <2>1, <3>1, DesiredType DEF CopyObject, CreateOrUpdate
  <2>2. CASE Generate \/ Rotate
    <3>1. What \in Generated /\ What \in Object /\ What # o
      BY <1>1, <2>2, Strings DEF Generate, Rotate
    <3>2. CASE Write(What, NextGeneration(What))
      BY <1>1, <1>2, <3>1, <3>2, NextGenerationIs
    <3>3. CASE object' = [object EXCEPT ![What].there = FALSE]
      BY <1>1, <3>1, <3>3 DEF RolloutTypeOK
    <3> QED
      BY <1>3, <2>2, <3>2, <3>3 DEF Generate, Rotate
  <2> QED
    BY <1>3, <1>4, <2>1, <2>2 DEF Works, SkipObject, Deploy
<1>5. CASE Meddles
  <2>1. ASSUME NEW x \in Generated, DeleteSecret(x) PROVE object'[o].there
    BY <1>1, <2>1, Strings DEF DeleteSecret, RolloutTypeOK
  <2> QED
    BY <1>3, <1>5, <2>1 DEF Meddles, ChangeValue, IntervalPasses
<1> QED
  BY <1>3, <1>4, <1>5, StepKinds DEF StartReconcile, WriteStatus, Crash, StartPods, rolloutVars

LEMMA PropertiesInit == ASSUME RolloutInit PROVE PropertiesInv
<1>1. position = 0 /\ template["kubemon"] = NoTemplate /\ template["activeGate"] = NoTemplate /\ pod["activeGate"] = NoPod
  BY DEF RolloutInit, Workload
<1> QED
  BY <1>1 DEF PropertiesInv, What, NoTemplate, NoPod

\* Who comes to the StatefulSet of the kubemon operand copied the properties, of which there are some.
LEMMA KubemonReached ==
    ASSUME TypeInv, ControlInv, PropertiesInv, [RolloutNext]_rolloutVars, What' = "kubemon", With("properties")
    PROVE  object'["kmProperties"].there /\ (Undisturbed' => ~NoData(value'["properties"]))
<1>1. "kmProperties" \in Copied
  BY DEF Copied, Object, Generated, Rotated
<1>2. position \in 0..Len(Steps) /\ position' # 0 /\ Made(position') = "kubemon"
  BY WhatNext DEF TypeInv, RolloutTypeOK, What
<1>3. CASE StartReconcile
  <2>1. position = 0 /\ position' \in NextStep
    BY <1>3 DEF StartReconcile
  <2> QED
    BY <1>2, <2>1, NextStepFacts
<1>4. CASE Works
  <2>1. position \in 1..28 /\ UNCHANGED <<value>> /\ Made(position) = What
    BY <1>4, WorkMoves
  <2>2. position' \notin NextComponent
    BY <1>2, <2>1, NextComponentFacts
  <2>3. Succeeds /\ ~Fails /\ ~Skips
    BY <1>4, <2>2, WorkMoves DEF Fails, Skips
  <2>4. position = 12
    BY <1>2, <2>3, NextStepFacts DEF Succeeds
  <2>5. What = "kmProperties"
    BY <2>1, <2>4, StepTable
  <2>6. CopyObject
    BY <1>4, <2>2, <2>5, Strings, <1>1 DEF Works, SkipObject, Leaves, Refuses, Generate, Rotate, Deploy, Copied
  <2>7. object'["kmProperties"].there
    BY <1>1, <2>1, <2>3, <2>5, <2>6, CopyDone
  <2>8. ~NoData(value["properties"])
    BY <2>5, <2>6 DEF CopyObject, Refuses, Read, SpecSource
  <2> QED
    BY <2>1, <2>7, <2>8
<1>5. CASE WriteStatus \/ Crash
  BY <1>2, <1>5 DEF WriteStatus, Crash
<1>6. ASSUME What = "kubemon", UNCHANGED <<position, quiet, spoiled, value>>
      PROVE  object'["kmProperties"].there /\ (Undisturbed' => ~NoData(value'["properties"]))
  <2>1. object["kmProperties"].there /\ (Undisturbed => ~NoData(value["properties"]))
    BY <1>6 DEF PropertiesInv
  <2>2. Undisturbed' <=> Undisturbed
    BY <1>6 DEF Undisturbed
  <2> QED
    BY <1>1, <1>6, <2>1, <2>2, ThereStays
<1>7. CASE (\E w \in Workload : StartPods(w)) \/ UNCHANGED rolloutVars
  <2>1. UNCHANGED <<position, quiet, spoiled, value>>
    BY <1>7 DEF StartPods, rolloutVars
  <2> QED
    BY <1>6, <2>1, WhatNext
<1>8. CASE Meddles
  <2>1. position' = position /\ quiet' = 0 /\ spoiled'
    BY <1>2, <1>8, MeddlingDisturbs
  <2>2. What = "kubemon"
    BY <2>1, WhatNext
  <2>3. object["kmProperties"].there
    BY <2>2 DEF PropertiesInv
  <2> QED
    BY <1>1, <2>1, <2>3, ThereStays DEF Undisturbed
<1> QED
  BY <1>3, <1>4, <1>5, <1>7, <1>8, StepKinds

LEMMA PropertiesStep == ASSUME TypeInv, ControlInv, PropertiesInv, [RolloutNext]_rolloutVars PROVE PropertiesInv'
<1>1. spec' = spec /\ (With("properties")' <=> With("properties")) /\ KubemonVolumes' = KubemonVolumes
  <2>1. spec' = spec
    BY ValueSteps
  <2> QED
    BY <2>1, SpecFixed DEF KubemonVolumes, When, On, With
<1>2. {"kmProperties", "agProperties"} \subseteq Copied /\ {"kubemon", "activeGate"} \subseteq Workload
  BY DEF Copied, Object, Generated, Rotated, Workload
<1>3. (What = "kubemon" /\ With("properties") => object["kmProperties"].there /\ (Undisturbed => ~NoData(value["properties"])))'
  BY <1>1, KubemonReached
<1>4. ASSUME template'["kubemon"].there
      PROVE  /\ template'["kubemon"].volumes = KubemonVolumes /\ template'["kubemon"].mounts = KubemonVolumes
             /\ With("properties") => object'["kmProperties"].there
  <2>1. CASE template'["kubemon"] = template["kubemon"]
    BY <1>2, <1>4, <2>1, ThereStays DEF PropertiesInv
  <2>2. CASE template'["kubemon"] # template["kubemon"]
    <3>1. What = "kubemon" /\ template'["kubemon"] = TemplateOf("kubemon") /\ UNCHANGED object
      BY <1>2, <2>2, TemplateSteps
    <3>2. template'["kubemon"].volumes = KubemonVolumes /\ template'["kubemon"].mounts = KubemonVolumes
      BY <3>1, TemplateIs DEF Volumes, Mounts, KubemonMounts
    <3> QED
      BY <3>1, <3>2 DEF PropertiesInv
  <2> QED
    BY <2>1, <2>2
<1>5. ASSUME template'["activeGate"].there, With("properties") PROVE "agProperties" \in template'["activeGate"].volumes
  <2>1. CASE template'["activeGate"] = template["activeGate"]
    BY <1>5, <2>1 DEF PropertiesInv
  <2>2. CASE template'["activeGate"] # template["activeGate"]
    <3>1. template'["activeGate"] = TemplateOf("activeGate")
      BY <1>2, <2>2, TemplateSteps
    <3>2. template'["activeGate"].volumes = ActiveGateVolumes
      BY <3>1, TemplateIs DEF Volumes
    <3> QED
      BY <1>5, <3>2 DEF ActiveGateVolumes, CustomPropertiesVolumes, When
  <2> QED
    BY <2>1, <2>2
<1>6. ASSUME pod'["activeGate"].there, With("properties") PROVE object'["agProperties"].there
  <2>1. CASE pod["activeGate"].there
    BY <1>2, <1>6, <2>1, ThereStays DEF PropertiesInv
  <2>2. CASE ~pod["activeGate"].there
    <3>1. StartPods("activeGate")
      <4>1. PICK w \in Workload : StartPods(w)
        BY <1>6, <2>2, StepKinds, WorkMoves, MeddlingDisturbs DEF StartReconcile, WriteStatus, Crash, rolloutVars
      <4>2. CASE w # "activeGate"
        BY <1>2, <1>6, <2>2, <4>1, <4>2, StartPodsIs
      <4> QED
        BY <4>1, <4>2
    <3>2. Startable("activeGate") /\ UNCHANGED object
      BY <3>1 DEF StartPods
    <3>3. "agProperties" \in Needs("activeGate")
      BY <1>2, <1>6, <3>2, Strings DEF Startable, Needs, PropertiesInv
    <3>4. "agProperties" \in Object /\ "agProperties" \notin UserSecret
      BY <1>2, Strings
    <3> QED
      BY <3>2, <3>3, <3>4 DEF Startable, There
  <2> QED
    BY <2>1, <2>2
<1> QED
  BY <1>1, <1>3, <1>4, <1>5, <1>6 DEF PropertiesInv

-----------------------------------------------------------------------------
(* The inductive invariant *)

RolloutInv == GrowInv /\ ControlInv /\ LostInv /\ ProgressInv /\ TemplateInv /\ PodInv /\ PropertiesInv /\ DoneInv /\ DeployedInv

LEMMA RolloutInvInit == ASSUME RolloutInit PROVE RolloutInv
BY GrowInit, ControlInit, LostInit, ProgressInit, TemplateInit, PropertiesInit, DoneInit DEF RolloutInv

LEMMA RolloutInvStep == ASSUME RolloutInv, [RolloutNext]_rolloutVars PROVE RolloutInv'
<1>1. TypeInv
  BY DEF RolloutInv, GrowInv
<1> QED
  BY <1>1, GrowStep, ControlStep, LostStep, ProgressStep, TemplateStep, PodStep, PropertiesStep, DoneStep, DeployedStep DEF RolloutInv

\* All of the above holds in every state that the reconciles of the workloads and their disturbances reach.
THEOREM RolloutInvHolds == RolloutSpec => []RolloutInv
<1>1. RolloutInit => RolloutInv
  BY RolloutInvInit
<1>2. RolloutInv /\ [RolloutNext]_rolloutVars => RolloutInv'
  BY RolloutInvStep
<1> QED
  BY <1>1, <1>2, PTL DEF RolloutSpec

\* Every variable of the rollouts keeps its type: the hashes of a template are contents that were
\* read or reported, and the position is one of the steps of Reconcile.
THEOREM RolloutTypeCorrect == RolloutSpec => []RolloutTypeOK
<1>1. RolloutInv => RolloutTypeOK
  BY DEF RolloutInv, GrowInv, TypeInv
<1> QED
  BY <1>1, RolloutInvHolds, PTL

-----------------------------------------------------------------------------
(* Two undisturbed reconciles later *)

\* A template that the DynaKube wants is there, and is the one its reconciler builds now.
LEMMA SettledTemplate ==
    ASSUME RolloutInv, Settled, NEW i \in 1..28, Enabled(i), NEW w \in Workload, Made(i) = w, ~Blocked(w)
    PROVE  /\ template[w] = TemplateOf(w) /\ template[w].there /\ template[w].mounts \subseteq template[w].volumes
           /\ Needs(w) \subseteq Volumes(w, TRUE) \cup Envs(w)
           /\ ~NeverStarted(w) => Startable(w)
<1>1. TypeInv /\ DoneInv /\ quiet = MaxQuiet /\ quiet # 0
  BY DEF RolloutInv, GrowInv, Settled, MaxQuiet
<1>2. Deployed(w)
  BY <1>1, StepTable DEF Deployed
<1>3. template[w] = TemplateOf(w)
  BY <1>2 DEF RolloutInv, DeployedInv
<1> DEFINE h == object["pgcConfig"].there
<1>4. template[w].there /\ template[w].volumes = Volumes(w, h) /\ template[w].mounts = Mounts(w, h)
  BY <1>1, <1>3, TemplateIs
<1> HIDE DEF h
<1>5. Volumes(w, h) \subseteq Volumes(w, TRUE) /\ Mounts(w, h) \subseteq Volumes(w, h)
  BY HashedIs, SameMounts, Zenon
<1>6. Needs(w) \subseteq (Volumes(w, TRUE) \cup Envs(w)) \cap (Object \cup UserSecret)
  BY <1>4, <1>5 DEF Needs
<1>7. ASSUME ~NeverStarted(w), NEW o \in Needs(w) PROVE There(o)
  <2>3. o \in Volumes(w, TRUE) \cup Envs(w)
    BY <1>6, <1>7
  <2>4. o = "kmProperties" => w = "kubemon"
    BY <2>3, PropertiesOf, Zenon
  <2>5. o = "agProperties" => w = "activeGate"
    BY <2>3, PropertiesOf, Zenon
  <2>1. Skipped(o) => object[o].there
    BY <1>7, <2>4, <2>5 DEF Skipped, NeverStarted, Blocked
  <2> QED
    BY <1>1, <1>6, <1>7, <2>1, AllThere
<1> QED
  BY <1>3, <1>4, <1>5, <1>6, <1>7 DEF Startable

\* The kubemon operand without properties keeps a template that it got when there were some.
LEMMA BlockedTemplate ==
    ASSUME RolloutInv, Settled, NEW i \in 1..28, Enabled(i), NEW w \in Workload, Made(i) = w, Blocked(w), ~NeverStarted(w)
    PROVE  Startable(w) /\ template[w].mounts \subseteq template[w].volumes
<1>1. TypeInv /\ DoneInv /\ quiet # 0 /\ w = "kubemon" /\ With("properties") /\ template[w].there
  BY DEF RolloutInv, GrowInv, Settled, MaxQuiet, Blocked, NeverStarted, NoProperties
<1>2. template[w].volumes = KubemonVolumes /\ template[w].mounts = KubemonVolumes /\ object["kmProperties"].there
  BY <1>1 DEF RolloutInv, PropertiesInv
<1>3. KubemonVolumes = Volumes(w, TRUE)
  BY <1>1 DEF Volumes
<1>4. ASSUME NEW o \in Needs(w) PROVE There(o)
  <2>1. o \in Volumes(w, TRUE) \cup Envs(w) /\ o \in Object \cup UserSecret
    BY <1>2, <1>3, <1>4 DEF Needs
  <2>3. o # "agProperties"
    BY <1>1, <2>1, PropertiesOf
  <2>2. Skipped(o) => object[o].there
    BY <1>2, <2>3 DEF Skipped
  <2> QED
    BY <1>1, <2>1, <2>2, AllThere
<1> QED
  BY <1>1, <1>2, <1>4 DEF Startable

\* Two undisturbed reconciles of Reconcile (dynakube_controller.go) after the last disturbance each
\* workload that the DynaKube asks for is deployed, every secret and config map that its pods refer
\* to exists, and every mount has its volume: the conditions in the volume modifiers and those in
\* the reconcilers that make the objects agree for every combination of features, unless the
\* user's secret of custom properties was empty from the start.
THEOREM PodsStart == RolloutSpec => []PodsCanStart
<1>1. RolloutInv => PodsCanStart
  <2> SUFFICES ASSUME RolloutInv, Settled, NEW i \in 1..28, Enabled(i), Made(i) \in Workload, ~NeverStarted(Made(i))
               PROVE  Startable(Made(i)) /\ template[Made(i)].mounts \subseteq template[Made(i)].volumes
    BY StepTable DEF PodsCanStart
  <2> QED
    BY SettledTemplate, BlockedTemplate
<1> QED
  BY <1>1, RolloutInvHolds, PTL

\* What the hash of an object says is what the object holds, and what it should hold.
LEMMA HashIsExpected ==
    ASSUME RolloutInv, Settled, NEW i \in 1..28, Enabled(i), NEW w \in Workload, Made(i) = w,
           NEW o \in Hashed(w) \cap (Object \cup UserSecret), o \in Volumes(w, TRUE) \cup Envs(w),
           NEW s \in Source, ~Unseen(o, s), ~Outlived(w, o)
    PROVE  ContentOf(o)[s] = Expected(o)[s] /\ HashOf(w, o)[s] = Expected(o)[s]
<1>1. TypeInv /\ RolloutTypeOK /\ ValuesAre /\ DoneInv /\ quiet # 0 /\ position = 0
  BY Values DEF RolloutInv, GrowInv, TypeInv, Settled, MaxQuiet
<1>2. \A x : Produced(x) => Done(x)
  BY <1>1, StepTable DEF Produced, Done
<1>12. ~Skipped(o)
  <2>1. o = "kmProperties" => w = "kubemon"
    BY PropertiesOf, Zenon
  <2> QED
    BY <2>1 DEF Skipped, Outlived
<1>3. There(o)
  BY <1>1, <1>12, AllThere
<1>4. ASSUME o \in Object PROVE Done(o)
  BY <1>2, <1>4, NeedsAreProduced
<1>5. ContentOf(o) = Expected(o)
  <2>1. CASE o \in Generated \cup UserSecret
    BY <2>1 DEF Expected
  <2>2. CASE o \notin Generated \cup UserSecret
    <3>1. o \in Copied /\ o \in Object
      BY <2>2 DEF Copied
    <3> QED
      BY <1>1, <1>4, <1>12, <2>2, <3>1 DEF Expected, DoneInv, ValuesAre
  <2> QED
    BY <2>1, <2>2
<1>6. CASE o \in {"agTenant", "oaTenant"}
  <2>1. o \in Object /\ o \in Reported /\ o \notin Generated \cup UserSecret
    BY <1>6 DEF Object, Reported, Generated, Rotated, UserSecret
  <2> QED
    BY <1>1, <1>4, <1>5, <1>6, <2>1 DEF DoneInv, Expected, HashOf
<1>7. CASE o = "kspmToken"
  <2>1. ~lost /\ o \in Hash /\ o \in Object
    BY <1>7 DEF Unseen, Hash, Object
  <2>2. st[o] = object[o].content
    BY <1>1, <1>7, <2>1 DEF RolloutInv, LostInv, ControlInv, CopyInv
  <2>3. ContentOf(o) = object[o].content /\ HashOf(w, o) = st[o]
    BY <1>1, <1>7, <2>1 DEF ValuesAre, HashOf
  <2> QED
    BY <1>5, <2>2, <2>3
<1>8. CASE o = "agProperties"
  <2>1. With("properties") /\ s # "noProxy" /\ o \in Copied
    BY <1>8, HashedIs DEF Unseen, Copied, Object, Generated, Rotated
  <2>2. s \in Feeds(o) <=> s = "properties"
    BY <1>8, <2>1 DEF Feeds, When
  <2>6. ~NoData(Read("properties"))
    BY <1>8, <2>1 DEF Outlived, NoProperties, Read, SpecSource
  <2>3. HashOf(w, o)[s] = IF s = "properties" THEN Read(s) ELSE 0
    BY <1>1, <1>8, <2>6, FromIs DEF HashOf
  <2>4. Desired(o)[s] = IF s = "properties" THEN Read(s) ELSE 0
    BY <1>1, <1>8, <2>1, <2>2 DEF ValuesAre
  <2>5. Expected(o) = Desired(o)
    BY <1>8 DEF Expected, Generated, Rotated, UserSecret
  <2> QED
    BY <1>5, <2>3, <2>4, <2>5
<1>9. CASE o = "attributesConfig"
  <2>1. o \in Copied /\ Expected(o) = Desired(o)
    BY <1>9 DEF Expected, Copied, Object, Generated, Rotated, UserSecret
  <2>2. HashOf(w, o)[s] = IF s = "attributes" THEN Read(s) ELSE 0
    BY <1>1, <1>9, FromIs DEF HashOf
  <2>3. Desired(o)[s] = IF s = "attributes" THEN Read(s) ELSE 0
    BY <1>1, <1>9, <2>1 DEF ValuesAre, Feeds
  <2> QED
    BY <1>5, <2>1, <2>2, <2>3
<1>10. CASE o = "logConfig"
  <2>1. o \in Copied /\ Expected(o) = Desired(o) /\ o \in Object /\ HashOf(w, o) = LogConfigHash
    BY <1>10 DEF Expected, Copied, Object, Generated, Rotated, UserSecret, HashOf
  <2>2. Done("oaTenant")
    BY <1>1, <1>4, <1>10, <2>1, LogConfigAfterTenant
  <2>3. st["oaTenant"] = object["oaTenant"].content
    <3>1. "oaTenant" \in Reported /\ "oaTenant" \in Copied
      BY DEF Reported, Copied, Object, Generated, Rotated
    <3>2. ~Skipped("oaTenant")
      BY Strings DEF Skipped
    <3>3. object["oaTenant"].content = Desired("oaTenant")
      BY <1>1, <2>2, <3>1, <3>2 DEF DoneInv
    <3>4. st["oaTenant"] = Desired("oaTenant")
      BY <1>1, <2>2, <3>1 DEF DoneInv
    <3> QED
      BY <3>3, <3>4
  <2>4. CASE s = "tenantToken"
    BY <1>1, <1>5, <1>10, <2>1, <2>3, <2>4 DEF ValuesAre
  <2>5. CASE s = "proxy"
    <3>1. Wanted("proxy")
      BY <1>10, <2>5 DEF Unseen
    <3>2. Done("proxySecret")
      BY <1>2, <3>1, EnabledIs DEF Wanted
    <3>3. st["proxySecret"] = Desired("proxySecret") /\ "proxySecret" \in Copied
      BY <1>1, <3>2, Strings DEF DoneInv
    <3>4. Desired("proxySecret")["proxy"] = Read("proxy")
      BY <1>1, <2>5, <3>3 DEF ValuesAre, Feeds
    <3>5. Desired(o)["proxy"] = IF With("proxy") THEN Read("proxy") ELSE 0
      BY <1>1, <1>10, <2>1, <2>5 DEF ValuesAre, Feeds, With
    <3>6. LogConfigHash["proxy"] = IF With("proxy") THEN Read("proxy") ELSE 0
      BY <1>1, <2>5, <3>3, <3>4 DEF ValuesAre
    <3> QED
      BY <1>5, <2>1, <2>5, <3>5, <3>6
  <2>6. CASE s \notin {"tenantToken", "proxy"}
    <3>1. Desired(o)[s] = IF s \in {"noProxy", "networkZone"} /\ With(s) THEN Read(s) ELSE 0
      <4>1. s # "endpoints"
        BY <1>10 DEF Unseen
      <4> QED
        BY <1>1, <1>10, <2>1, <2>6, <4>1 DEF ValuesAre, Feeds, With
    <3>2. LogConfigHash[s] = IF s \in {"noProxy", "networkZone"} /\ With(s) THEN Read(s) ELSE 0
      BY <1>1, <2>6 DEF ValuesAre, Read, SpecSource
    <3> QED
      BY <1>5, <2>1, <3>1, <3>2
  <2> QED
    BY <2>4, <2>5, <2>6
<1>11. CASE o \notin {"agTenant", "oaTenant", "kspmToken", "agProperties", "attributesConfig", "logConfig"}
  BY <1>3, <1>5, <1>11 DEF HashOf
<1> QED
  BY <1>5, <1>6, <1>7, <1>8, <1>9, <1>10, <1>11

\* At the same point in time every pod runs with the current values in the objects that it mounts or
\* takes its environment from and whose hashes its template carries: an object never lags behind a
\* hash that was put into a template, so that a pod with the current hash has the current contents.
THEOREM PodsKeepUp == RolloutSpec => []PodsAreCurrent
<1>1. RolloutInv => PodsAreCurrent
  <2> SUFFICES ASSUME RolloutInv, Settled, NEW w \in Workload, pod[w].there,
                      NEW o \in Hashed(w) \cap Needs(w), NEW s \in Source, ~Unseen(o, s), ~Outlived(w, o)
               PROVE  pod[w].content[o][s] = Expected(o)[s]
    BY DEF PodsAreCurrent
  <2>1. TypeInv /\ RolloutTypeOK /\ ValuesAre
    BY Values DEF RolloutInv, GrowInv, TypeInv
  <2>2. PICK i \in 1..28 : Enabled(i) /\ Made(i) = w
    BY StepTable DEF RolloutInv, PodInv, TemplateInv
  <2>9. ~Blocked(w) /\ ~NeverStarted(w)
    BY DEF Outlived, Blocked, NeverStarted, NoProperties, RolloutInv, PropertiesInv
  <2>3. template[w] = TemplateOf(w) /\ Startable(w) /\ Needs(w) \subseteq Volumes(w, TRUE) \cup Envs(w)
    BY <2>2, <2>9, SettledTemplate
  <2>4. o \in Object \cup UserSecret /\ o \in Volumes(w, TRUE) \cup Envs(w) /\ o \in Mountable(w)
    BY <2>3 DEF Needs, Mountable
  <2>5. ContentOf(o)[s] = Expected(o)[s] /\ HashOf(w, o)[s] = Expected(o)[s]
    BY <2>2, <2>4, HashIsExpected
  <2>6. pod[w].hash[o] = HashOf(w, o)
    <3>1. pod[w].hash = template[w].hash
      BY <2>3 DEF Settled, IsCurrent
    <3> QED
      BY <2>1, <2>3, <2>4, <3>1, TemplateIs
  <2>7. CASE Exempt(o)
    BY <2>7 DEF Exempt, Unseen
  <2>8. CASE ~Exempt(o)
    <3>1. HashOf(w, o)[s] <= pod[w].content[o][s] /\ pod[w].content[o][s] <= ContentOf(o)[s]
      BY <2>4, <2>6, <2>8 DEF RolloutInv, PodInv, Below
    <3>2. pod[w].content[o] \in Content /\ ContentOf(o) \in Content
      BY <2>1, <2>4 DEF RolloutTypeOK, ValuesAre
    <3>3. pod[w].content[o][s] \in Nat /\ ContentOf(o)[s] \in Nat
      BY <3>2 DEF Content
    <3> QED
      BY <2>5, <3>1, <3>3
  <2> QED
    BY <2>7, <2>8
<1> QED
  BY <1>1, RolloutInvHolds, PTL

\* A third undisturbed reconcile and all after it leave every template as it is, so that no pod is
\* restarted without a reason: the templates depend on nothing but what undisturbed reconciles leave
\* alone.
THEOREM TemplatesStay == RolloutSpec => RolloutsStop
<1>1. RolloutInv /\ [RolloutNext]_rolloutVars => [quiet = MaxQuiet => template' = template]_rolloutVars
  <2> SUFFICES ASSUME RolloutInv, [RolloutNext]_rolloutVars, quiet = MaxQuiet, ~UNCHANGED template PROVE FALSE
    OBVIOUS
  <2>1. TypeInv
    BY DEF RolloutInv, GrowInv
  <2>2. Works /\ What \in Workload /\ template' = [template EXCEPT ![What] = TemplateOf(What)]
    BY <2>1, TemplateSteps
  <2>3. position \in 1..28 /\ Made(position) = What
    BY <2>1, <2>2, WorkMoves
  <2>4. Enabled(position)
    BY <2>3 DEF RolloutInv, ControlInv, PositionInv
  <2>5. Deployed(What)
    BY <2>3, <2>4, StepTable DEF Deployed
  <2>7. ~Blocked(What)
    BY DEF Blocked, NoProperties, RolloutInv, PropertiesInv, Undisturbed, MaxQuiet
  <2>6. template[What] = TemplateOf(What)
    BY <2>2, <2>5, <2>7 DEF RolloutInv, DeployedInv
  <2> QED
    BY <2>1, <2>2, <2>6 DEF TypeInv, ShapeInv
<1> QED
  BY <1>1, RolloutInvHolds, PTL DEF RolloutsStop, RolloutSpec
=============================================================================
