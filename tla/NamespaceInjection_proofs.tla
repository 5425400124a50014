--------------------- MODULE NamespaceInjection_proofs ----------------------
(***************************************************************************)
(* Once every DynaKube was reconciled without error, the namespaces carry  *)
(* the labels that the selectors ask for (LabelsAgree) and the secrets of  *)
(* their DynaKubes (SecretsAgree), those without a DynaKube hold none      *)
(* (NothingIsLeft) and the secrets of the operator's namespace are those   *)
(* that the features ask for (SourcesAgree), for any namespaces, DynaKubes *)
(* and selectors and any number of changes, failing calls and crashes.     *)
(* The argument follows one reconcile that nothing disturbed: it says for  *)
(* each step what is already true of the labels, the source secrets, the   *)
(* copies and the conditions.                                              *)
(***************************************************************************)
EXTENDS NamespaceInjection, FiniteSetTheorems, TLAPS

-----------------------------------------------------------------------------
(* Types of what the steps are built from.                                  *)

LEMMA KindFacts ==
    /\ \A k \in Kind : k = <<k[1], k[2]>> /\ k[1] \in Feature /\ k[2] \in {"config", "certs"}
    /\ \A f \in Feature, what \in {"config", "certs"} : <<f, what>> \in Kind
    /\ FirstKind \in Kind
BY DEF Kind, Feature, FirstKind

LEMMA ConstantTypes ==
    /\ NoSecret \in Secret
    /\ NoPod \in [ns : Namespace, kind : Kind, held : Secret]
    /\ \A d \in DynaKube : NewDynaKube(d) \in Spec
    /\ \A d \in DynaKube, s \in Spec : Content(d, s) \in Secret
<1>1. 1 \in Token
  BY BoundAssumption DEF Token
<1>2. (CHOOSE n \in Namespace : TRUE) \in Namespace
  BY NamespaceAssumption
<1> QED
  BY <1>1, <1>2, KindFacts DEF NoSecret, Secret, NoPod, NewDynaKube, Spec, Content, Kind, Feature

LEMMA IdleType == Idle \in Reconciliation
<1>1. 1 \in Token
  BY BoundAssumption DEF Token
<1>2. <<"bootstrap", "config">> \in Kind
  BY KindFacts DEF FirstKind
<1>3. [exists |-> FALSE, on |-> {}, selects |-> {}, certs |-> FALSE, token |-> 1, groups |-> FALSE] \in Spec
  BY <1>1 DEF Spec
<1> QED
  BY <1>2, <1>3 DEF Idle, Reconciliation, PC

LEMMA WithoutType ==
    ASSUME NEW s \in [Kind -> Secret], NEW ks
    PROVE  Without(s, ks) \in [Kind -> Secret]
BY ConstantTypes DEF Without

LEMMA UpdatedType ==
    ASSUME NEW list, NEW n \in Namespace, label \in [Namespace -> DynaKube \cup {NoDynaKube}]
    PROVE  Updated(list, n) \in DynaKube \cup {NoDynaKube}
<1>1. ASSUME Matching(list, n) # {} PROVE (CHOOSE d \in Matching(list, n) : TRUE) \in DynaKube
  BY <1>1 DEF Matching
<1> QED
  BY <1>1 DEF Updated

-----------------------------------------------------------------------------
(* What the operators on a reconcile change of it.                          *)

LEMMA GenerateFields ==
    ASSUME NEW r \in Reconciliation, NEW targets \in [Feature -> SUBSET Namespace]
    PROVE  /\ Generate(r, targets) \in Reconciliation
           /\ Generate(r, targets).pc = "source" /\ Generate(r, targets).kind = FirstKind
           /\ Generate(r, targets).dk = r.dk /\ Generate(r, targets).copy = r.copy
           /\ Generate(r, targets).conds = r.conds /\ Generate(r, targets).failed = r.failed
           /\ Generate(r, targets).disturbed = r.disturbed /\ Generate(r, targets).gone = r.gone
<1>1. Idle.new \in [Namespace -> DynaKube \cup {NoDynaKube}]
  BY DEF Idle
<1> QED
  BY <1>1, KindFacts DEF Generate, Reconciliation, PC

\* what a reconcile knows of the namespaces stays
SameMapping(r, s) ==
    /\ s.removed = r.removed /\ s.targets = r.targets /\ s.flags = r.flags
    /\ s.owned = r.owned /\ s.new = r.new /\ s.todo = r.todo

LEMMA DisturbFields ==
    ASSUME op \in Reconciliation
    PROVE  /\ Disturb(op) \in Reconciliation
           /\ Disturb(op).pc = op.pc /\ Disturb(op).kind = op.kind /\ Disturb(op).dk = op.dk
           /\ Disturb(op).copy = op.copy /\ Disturb(op).conds = op.conds /\ Disturb(op).failed = op.failed
           /\ Disturb(op).gone = op.gone /\ SameMapping(op, Disturb(op))
           /\ Busy => Disturb(op).disturbed
BY DEF Disturb, Reconciliation, Busy, SameMapping

LEMMA UnmapFailsFields ==
    ASSUME NEW r \in Reconciliation
    PROVE  /\ UnmapFails(r) \in Reconciliation
           /\ UnmapFails(r).pc = "finish" /\ UnmapFails(r).failed
           /\ UnmapFails(r).kind = r.kind /\ UnmapFails(r).dk = r.dk /\ UnmapFails(r).copy = r.copy
           /\ UnmapFails(r).conds = r.conds /\ UnmapFails(r).disturbed = r.disturbed
           /\ UnmapFails(r).gone = r.gone /\ SameMapping(r, UnmapFails(r))
BY DEF UnmapFails, Reconciliation, PC, SameMapping

\* a reconcile goes on with the next secret: what stays
Kept(r, s) ==
    /\ s \in Reconciliation
    /\ s.dk = r.dk /\ s.copy = r.copy /\ s.disturbed = r.disturbed /\ s.gone = r.gone
    /\ SameMapping(r, s)

\* and to where
GoesOn(r, s, k) ==
    /\ k = <<"bootstrap", "config">> => s.pc = "source" /\ s.kind = <<"bootstrap", "certs">>
    /\ k = <<"bootstrap", "certs">> => s.pc = "source" /\ s.kind = <<"otlp", "config">>
    /\ k = <<"otlp", "config">> => s.pc = "source" /\ s.kind = <<"otlp", "certs">>
    /\ k = <<"otlp", "certs">> => s.pc \in {"unmap", "finish"} /\ (s.pc = "unmap" <=> r.copy.on = {})

LEMMA AfterKindFields ==
    ASSUME NEW r \in Reconciliation, NEW k \in Kind
    PROVE  /\ Kept(r, AfterKind(r, k)) /\ GoesOn(r, AfterKind(r, k), k)
           /\ AfterKind(r, k).conds = r.conds /\ AfterKind(r, k).failed = r.failed
<1>1. CASE k = <<"otlp", "certs">>
  BY <1>1 DEF AfterKind, Reconciliation, PC, Kept, GoesOn, SameMapping
<1>2. CASE k # <<"otlp", "certs">>
  <2>1. (IF k[2] = "config" THEN <<k[1], "certs">> ELSE <<"otlp", "config">>) \in Kind
    BY KindFacts DEF Feature
  <2>2. AfterKind(r, k) = [r EXCEPT !.pc = "source", !.existing = {},
                                    !.kind = IF k[2] = "config" THEN <<k[1], "certs">> ELSE <<"otlp", "config">>]
    BY <1>2 DEF AfterKind
  <2>3. Kept(r, AfterKind(r, k))
    BY <2>1, <2>2 DEF Reconciliation, PC, Kept, SameMapping
  <2>4. AfterKind(r, k).pc = "source" /\ AfterKind(r, k).conds = r.conds /\ AfterKind(r, k).failed = r.failed
        /\ AfterKind(r, k).kind = IF k[2] = "config" THEN <<k[1], "certs">> ELSE <<"otlp", "config">>
    BY <2>2 DEF Reconciliation
  <2>5. GoesOn(r, AfterKind(r, k), k)
    BY <1>2, <2>4 DEF GoesOn
  <2> QED
    BY <2>3, <2>4, <2>5
<1> QED
  BY <1>1, <1>2

LEMMA AfterErrorFields ==
    ASSUME NEW r \in Reconciliation, NEW k \in Kind, NEW told \in SUBSET Telling(k)
    PROVE  /\ Kept(r, AfterError(r, k, told)) /\ AfterError(r, k, told).failed
           /\ AfterError(r, k, told).conds = r.conds \cup told
           /\ GoesOn(r, AfterError(r, k, told), IF k = <<"otlp", "config">> THEN <<"otlp", "certs">> ELSE k)
<1> DEFINE s == [r EXCEPT !.failed = TRUE, !.conds = @ \cup told]
           j == IF k = <<"otlp", "config">> THEN <<"otlp", "certs">> ELSE k
<1>1. told \subseteq Condition
  BY KindFacts DEF Telling, Condition, Kind, Feature
<1>2. /\ s \in Reconciliation /\ s.failed /\ s.conds = r.conds \cup told
      /\ s.dk = r.dk /\ s.copy = r.copy /\ s.disturbed = r.disturbed /\ s.gone = r.gone /\ SameMapping(r, s)
  BY <1>1 DEF Reconciliation, SameMapping
<1>3. j \in Kind
  BY KindFacts DEF Feature
<1>4. AfterError(r, k, told) = AfterKind(s, j)
  BY DEF AfterError
<1> HIDE DEF s, j
<1>5. /\ Kept(s, AfterKind(s, j)) /\ GoesOn(s, AfterKind(s, j), j)
      /\ AfterKind(s, j).conds = s.conds /\ AfterKind(s, j).failed = s.failed
  BY <1>2, <1>3, AfterKindFields
<1>6. Kept(r, AfterKind(s, j)) /\ GoesOn(r, AfterKind(s, j), j)
  BY <1>2, <1>5 DEF Kept, GoesOn, SameMapping
<1> QED
  BY <1>2, <1>4, <1>5, <1>6 DEF j

-----------------------------------------------------------------------------
(* Type correctness.                                                        *)

TypeInv == TypeOK /\ (Busy => op.dk \in DynaKube)

LEMMA FaultFacts ==
    ASSUME TypeInv, Busy, NEW fails \in MayFail, Fault(fails)
    PROVE  /\ fails \in BOOLEAN /\ faults' \in 0..MaxFaults
           /\ tainted' \subseteq DynaKube /\ tainted \subseteq tainted' /\ (fails => op.dk \in tainted')
<1>1. MaxFaults \in Nat
  BY BoundAssumption
<1>2. op.dk \in DynaKube /\ tainted \subseteq DynaKube /\ faults \in 0..MaxFaults
  BY DEF TypeInv, TypeOK
<1>3. fails \in BOOLEAN
  BY DEF MayFail
<1>4. CASE fails = FALSE
  <2>1. faults' = faults + 0 /\ tainted' = tainted
    BY <1>4 DEF Fault
  <2> QED
    BY <1>1, <1>2, <1>3, <1>4, <2>1
<1>5. CASE fails = TRUE
  <2>1. faults < MaxFaults
    BY <1>5 DEF MayFail
  <2>2. faults' = faults + 1 /\ tainted' = tainted \cup {op.dk}
    BY <1>5 DEF Fault
  <2> QED
    BY <1>1, <1>2, <1>5, <2>1, <2>2
<1> QED
  BY <1>3, <1>4, <1>5

\* the variables that a step of the operator leaves alone keep their types with the rest
LEMMA OperatorTypes ==
    ASSUME TypeInv,
           UNCHANGED <<dks, cache, pod, edits>>,
           label' \in [Namespace -> DynaKube \cup {NoDynaKube}],
           source' \in [DynaKube -> [Kind -> Secret]],
           secret' \in [Namespace -> [Kind -> Secret]],
           conditions' \in [DynaKube -> SUBSET Condition],
           op' \in Reconciliation, op'.pc = "idle" \/ op'.dk \in DynaKube,
           touched' \subseteq Namespace, orphans' \subseteq Namespace,
           clean' \subseteq DynaKube, tainted' \subseteq DynaKube,
           faults' \in 0..MaxFaults
    PROVE  TypeInv'
BY DEF TypeInv, TypeOK, Busy

LEMMA TypeInit == Init => TypeInv
<1> SUFFICES ASSUME Init PROVE TypeInv
  OBVIOUS
<1>1. source \in [DynaKube -> [Kind -> Secret]] /\ secret \in [Namespace -> [Kind -> Secret]]
  BY ConstantTypes DEF Init
<1>2. op \in Reconciliation /\ pod \in [ns : Namespace, kind : Kind, held : Secret]
  BY ConstantTypes, IdleType DEF Init
<1>3. dks \in [DynaKube -> Spec]
  BY ConstantTypes DEF Init
<1>4. op.pc = "idle"
  BY DEF Init, Idle
<1> QED
  BY <1>1, <1>2, <1>3, <1>4, BoundAssumption DEF Init, TypeInv, TypeOK, Busy

LEMMA BeginFields ==
    ASSUME TypeInv, NEW d \in DynaKube, Begin(d)
    PROVE  /\ op' \in Reconciliation
           /\ op'.pc = IF dks[d].exists THEN "map" ELSE "unmap"
           /\ op'.dk = d /\ op'.copy = dks[d] /\ ~op'.failed /\ ~op'.disturbed /\ ~op'.gone
           /\ conditions[d] \subseteq op'.conds
           /\ ~dks[d].exists => op'.conds = conditions[d]
<1> DEFINE conds == conditions[d] \cup
                      IF dks[d].exists /\ "bootstrap" \in dks[d].on THEN {<<"bootstrap", "feature">>} ELSE {}
<1>1. conds \subseteq Condition
  BY DEF TypeInv, TypeOK, Condition, Feature
<1>2. ~dks[d].exists => conds = conditions[d]
  OBVIOUS
<1>3. conditions[d] \subseteq conds
  OBVIOUS
<1>4. dks[d] \in Spec
  BY DEF TypeInv, TypeOK
<1>5. op' = [Idle EXCEPT !.dk = d, !.copy = dks[d], !.pc = IF dks[d].exists THEN "map" ELSE "unmap", !.conds = conds]
  BY DEF Begin
<1> HIDE DEF conds
<1>6. ~Idle.failed /\ ~Idle.disturbed /\ ~Idle.gone
  BY DEF Idle
<1> QED
  BY <1>1, <1>2, <1>3, <1>4, <1>5, <1>6, IdleType DEF Reconciliation, PC

LEMMA MapFailedFields ==
    ASSUME TypeInv, Busy, MapFailed(op)
    PROVE  /\ op' \in Reconciliation
           /\ op'.pc = "source" /\ op'.kind = FirstKind /\ op'.failed
           /\ op'.dk = op.dk /\ op'.copy = op.copy /\ op'.conds = op.conds
           /\ op'.disturbed = op.disturbed /\ op'.gone = op.gone
           /\ orphans' \subseteq Namespace
<1> DEFINE r == [op EXCEPT !.failed = TRUE]
           targets == [f \in Feature |-> Labelled(op.dk)]
<1>1. /\ r \in Reconciliation /\ r.failed
      /\ r.dk = op.dk /\ r.copy = op.copy /\ r.conds = op.conds /\ r.disturbed = op.disturbed /\ r.gone = op.gone
  BY DEF TypeInv, TypeOK, Reconciliation
<1>2. targets \in [Feature -> SUBSET Namespace]
  BY DEF Labelled
<1>3. op' = Generate(r, targets)
  BY <1>1 DEF MapFailed
<1>4. orphans' \subseteq Namespace
  BY DEF MapFailed, TypeInv, TypeOK, Reconciliation
<1> HIDE DEF r, targets
<1> QED
  BY <1>1, <1>2, <1>3, <1>4, GenerateFields

-----------------------------------------------------------------------------
(* What the steps of the mapping change.                                    *)

SameReconcile ==
    /\ op' \in Reconciliation
    /\ op'.dk = op.dk /\ op'.copy = op.copy /\ op'.disturbed = op.disturbed /\ op'.gone = op.gone

\* the secrets are generated next
ToSecrets == op'.pc = "source" /\ op'.kind = FirstKind

LEMMA MapFields ==
    ASSUME TypeInv, Map
    PROVE  /\ op.pc = "map" /\ Busy
           /\ SameReconcile /\ op'.conds = op.conds
           /\ touched' \subseteq Namespace /\ orphans' \subseteq Namespace
           /\ faults' \in 0..MaxFaults /\ tainted \subseteq tainted' /\ tainted' \subseteq DynaKube
           /\ \/ op.copy.on = {} /\ op'.pc = "unmap" /\ op'.failed /\ op.dk \in tainted'
              \/ op.copy.on = {} /\ ToSecrets /\ op'.failed = op.failed
              \/ ToSecrets /\ op'.failed
              \/ /\ op.copy.on # {} /\ op'.pc = "labels" /\ op'.failed = op.failed
                 /\ \A n \in Namespace :
                      /\ op'.new[n] = Updated([dks EXCEPT ![op.dk] = op.copy], n)
                      /\ n \in op'.todo <=> op'.new[n] # label[n]
<1> DEFINE list == [dks EXCEPT ![op.dk] = op.copy]
           flags == Flags(op.copy)
           targets == [f \in Feature |-> Labelled(op.dk)]
           owned == Labelled(op.dk) \cup {m[2] : m \in flags}
           new == [n \in Namespace |-> Updated(list, n)]
           todo == {n \in Namespace : Updated(list, n) # label[n]}
<1>1. op.pc = "map" /\ Busy
  BY DEF Map, Busy
<1>2. PICK fails \in MayFail :
        /\ Fault(fails)
        /\ IF op.copy.on = {}
           THEN /\ op' = IF fails THEN [op EXCEPT !.pc = "unmap", !.failed = TRUE] ELSE Generate(op, targets)
                /\ UNCHANGED <<touched, orphans>>
           ELSE IF fails \/ \E n \in Namespace : Conflict(list, n)
           THEN MapFailed(op) /\ UNCHANGED touched
           ELSE /\ op' = [op EXCEPT !.pc = "labels", !.flags = flags, !.owned = owned, !.new = new, !.todo = todo]
                /\ touched' = {}
                /\ UNCHANGED orphans
  BY DEF Map
<1>3. /\ fails \in BOOLEAN /\ faults' \in 0..MaxFaults /\ tainted \subseteq tainted' /\ tainted' \subseteq DynaKube
      /\ fails => op.dk \in tainted'
  BY <1>1, <1>2, FaultFacts
<1>4. op \in Reconciliation /\ touched \subseteq Namespace /\ orphans \subseteq Namespace /\ op.copy \in Spec
  BY DEF TypeInv, TypeOK, Reconciliation
<1>5. CASE op.copy.on = {} /\ fails
  <2>1. op' = [op EXCEPT !.pc = "unmap", !.failed = TRUE] /\ UNCHANGED <<touched, orphans>>
    BY <1>2, <1>5
  <2> QED
    BY <1>1, <1>3, <1>4, <1>5, <2>1 DEF SameReconcile, Reconciliation, PC
<1>6. CASE op.copy.on = {} /\ ~fails
  <2>1. op' = Generate(op, targets) /\ UNCHANGED <<touched, orphans>>
    BY <1>2, <1>6
  <2>2. targets \in [Feature -> SUBSET Namespace]
    BY DEF Labelled
  <2> QED
    BY <1>1, <1>3, <1>4, <1>6, <2>1, <2>2, GenerateFields DEF SameReconcile, ToSecrets
<1>7. CASE op.copy.on # {} /\ (fails \/ \E n \in Namespace : Conflict(list, n))
  <2>1. MapFailed(op) /\ UNCHANGED touched
    BY <1>2, <1>7
  <2> QED
    BY <1>1, <1>3, <1>4, <2>1, MapFailedFields DEF SameReconcile, ToSecrets
<1>8. CASE op.copy.on # {} /\ ~(fails \/ \E n \in Namespace : Conflict(list, n))
  <2>1. /\ op' = [op EXCEPT !.pc = "labels", !.flags = flags, !.owned = owned, !.new = new, !.todo = todo]
        /\ touched' = {} /\ UNCHANGED orphans
    BY <1>2, <1>8
  <2>2. flags \subseteq Feature \X Namespace /\ owned \subseteq Namespace
    BY <1>4 DEF Flags, Labelled, Spec
  <2>3. new \in [Namespace -> DynaKube \cup {NoDynaKube}]
    BY UpdatedType DEF TypeInv, TypeOK
  <2>4. todo \subseteq Namespace
    OBVIOUS
  <2>5. \A n \in Namespace : new[n] = Updated(list, n) /\ (n \in todo <=> new[n] # label[n])
    OBVIOUS
  <2> HIDE DEF flags, owned, new, todo
  <2>6. /\ SameReconcile /\ op'.conds = op.conds /\ op'.pc = "labels" /\ op'.new = new /\ op'.todo = todo
        /\ op'.failed = op.failed
    BY <1>4, <2>1, <2>2, <2>3, <2>4 DEF SameReconcile, Reconciliation, PC
  <2> QED
    BY <1>1, <1>3, <1>4, <1>8, <2>1, <2>5, <2>6
<1> QED
  BY <1>5, <1>6, <1>7, <1>8

\* a step that may fail, and then leaves the labels to be used as they are
MappingFails == ToSecrets /\ op'.failed /\ UNCHANGED <<label, secret, clean>>

LEMMA UpdateLabelFields ==
    ASSUME TypeInv, NEW n \in Namespace, UpdateLabel(n)
    PROVE  /\ op.pc = "labels" /\ Busy /\ n \in op.todo
           /\ SameReconcile /\ op'.conds = op.conds /\ orphans' \subseteq Namespace
           /\ faults' \in 0..MaxFaults /\ tainted \subseteq tainted' /\ tainted' \subseteq DynaKube
           /\ \/ MappingFails
              \/ /\ op'.pc = "labels" /\ op'.new = op.new /\ op'.todo = op.todo \ {n} /\ op'.failed = op.failed
                 /\ label' = [label EXCEPT ![n] = op.new[n]]
                 /\ clean' = clean \cap {op.dk}
<1>1. op.pc = "labels" /\ Busy /\ n \in op.todo
  BY DEF UpdateLabel, Busy
<1> DEFINE removed == IF label[n] = op.dk THEN op.removed \cup {n} ELSE op.removed
<1>2. PICK fails \in MayFail :
        /\ Fault(fails)
        /\ IF fails \/ n \in touched
           THEN MapFailed(op) /\ UNCHANGED <<label, clean>>
           ELSE /\ label' = [label EXCEPT ![n] = op.new[n]]
                /\ op' = [op EXCEPT !.todo = op.todo \ {n}, !.removed = removed]
                /\ orphans' = IF label[n] \in {op.dk, NoDynaKube} THEN orphans ELSE orphans \cup {n}
                /\ Changed(DynaKube \ {op.dk})
  BY DEF UpdateLabel
<1>3. faults' \in 0..MaxFaults /\ tainted \subseteq tainted' /\ tainted' \subseteq DynaKube
  BY <1>1, <1>2, FaultFacts
<1>4. op \in Reconciliation /\ orphans \subseteq Namespace /\ clean \subseteq DynaKube /\ op.dk \in DynaKube
  BY <1>1 DEF TypeInv, TypeOK
<1>5. CASE fails \/ n \in touched
  <2>1. MapFailed(op) /\ UNCHANGED <<label, clean, secret>>
    BY <1>2, <1>5 DEF UpdateLabel
  <2> QED
    BY <1>1, <1>3, <2>1, MapFailedFields DEF SameReconcile, ToSecrets, MappingFails
<1>6. CASE ~(fails \/ n \in touched)
  <2>1. removed \subseteq Namespace
    BY <1>4 DEF Reconciliation
  <2> HIDE DEF removed
  <2>2. op' = [op EXCEPT !.todo = op.todo \ {n}, !.removed = removed]
    BY <1>2, <1>6
  <2>3. /\ SameReconcile /\ op'.conds = op.conds
        /\ op'.pc = "labels" /\ op'.new = op.new /\ op'.todo = op.todo \ {n} /\ op'.failed = op.failed
    BY <1>1, <1>4, <2>1, <2>2 DEF SameReconcile, Reconciliation
  <2>4. label' = [label EXCEPT ![n] = op.new[n]] /\ clean' = clean \cap {op.dk} /\ orphans' \subseteq Namespace
    BY <1>2, <1>4, <1>6 DEF Changed
  <2> QED
    BY <1>1, <1>3, <2>3, <2>4
<1> QED
  BY <1>5, <1>6

LEMMA RelabelledFields ==
    ASSUME TypeInv, Relabelled
    PROVE  /\ op.pc = "labels" /\ op.todo = {} /\ Busy
           /\ SameReconcile /\ op'.conds = op.conds /\ op'.failed = op.failed /\ op'.pc = "unmatched"
BY DEF Relabelled, Busy, SameReconcile, Reconciliation, PC, TypeInv, TypeOK

LEMMA DeleteUnmatchedFields ==
    ASSUME TypeInv, NEW n \in Namespace, DeleteUnmatched(n)
    PROVE  /\ op.pc = "unmatched" /\ Busy
           /\ SameReconcile /\ op'.conds = op.conds
           /\ orphans' \subseteq Namespace /\ secret' \in [Namespace -> [Kind -> Secret]]
           /\ faults' \in 0..MaxFaults /\ tainted \subseteq tainted' /\ tainted' \subseteq DynaKube
           /\ \/ MappingFails
              \/ op'.pc = "unmatched" /\ op'.failed = op.failed
<1>1. op.pc = "unmatched" /\ Busy
  BY DEF DeleteUnmatched, Busy
<1> DEFINE todo == op.todo \ {n}
           removed == op.removed \ {n}
           kept == Without(secret[n], UnmatchedKinds(n))
<1>2. PICK fails \in MayFail :
        /\ Fault(fails)
        /\ IF fails
           THEN MapFailed(op) /\ UNCHANGED secret
           ELSE /\ secret' = [secret EXCEPT ![n] = kept]
                /\ op' = [op EXCEPT !.todo = todo, !.removed = removed]
                /\ orphans' = IF UnmatchedKinds(n) = Kind THEN orphans \ {n} ELSE orphans
  BY DEF DeleteUnmatched
<1>3. faults' \in 0..MaxFaults /\ tainted \subseteq tainted' /\ tainted' \subseteq DynaKube
  BY <1>1, <1>2, FaultFacts
<1>4. op \in Reconciliation /\ orphans \subseteq Namespace /\ secret \in [Namespace -> [Kind -> Secret]]
  BY DEF TypeInv, TypeOK
<1>5. CASE fails
  <2>1. MapFailed(op) /\ UNCHANGED <<label, clean, secret>>
    BY <1>2, <1>5 DEF DeleteUnmatched
  <2> QED
    BY <1>1, <1>3, <1>4, <2>1, MapFailedFields DEF SameReconcile, ToSecrets, MappingFails
<1>6. CASE ~fails
  <2>1. todo \subseteq Namespace /\ removed \subseteq Namespace
    BY <1>4 DEF Reconciliation
  <2>2. kept \in [Kind -> Secret]
    BY <1>4, WithoutType
  <2> HIDE DEF todo, removed, kept
  <2>3. op' = [op EXCEPT !.todo = todo, !.removed = removed]
    BY <1>2, <1>6
  <2>4. SameReconcile /\ op'.conds = op.conds /\ op'.pc = "unmatched" /\ op'.failed = op.failed
    BY <1>1, <1>4, <2>1, <2>3 DEF SameReconcile, Reconciliation
  <2>5. secret' \in [Namespace -> [Kind -> Secret]] /\ orphans' \subseteq Namespace
    BY <1>2, <1>4, <1>6, <2>2
  <2> QED
    BY <1>1, <1>3, <2>4, <2>5
<1> QED
  BY <1>5, <1>6

LEMMA MappedFields ==
    ASSUME TypeInv, Mapped
    PROVE  op.pc = "unmatched" /\ Busy /\ SameReconcile /\ op'.conds = op.conds /\ op'.failed = op.failed /\ ToSecrets
<1> DEFINE targets == [f \in Feature |-> {n \in Namespace : <<f, n>> \in op.flags}]
<1>1. targets \in [Feature -> SUBSET Namespace]
  OBVIOUS
<1>2. op.pc = "unmatched" /\ op' = Generate(op, targets) /\ op \in Reconciliation
  BY DEF Mapped, TypeInv, TypeOK
<1> HIDE DEF targets
<1> QED
  BY <1>1, <1>2, GenerateFields DEF Busy, SameReconcile, ToSecrets

-----------------------------------------------------------------------------
(* What the steps of the secrets change.                                    *)

\* nobody else's sources, and none is written
SourceShrinks ==
    /\ source' \in [DynaKube -> [Kind -> Secret]]
    /\ \A d \in DynaKube : d # op.dk => source'[d] = source[d]
    /\ \A k \in Kind : source'[op.dk][k] \in {source[op.dk][k], NoSecret}

LEMMA Shrinks ==
    ASSUME TypeInv, Busy, NEW ks, source' = [source EXCEPT ![op.dk] = Without(@, ks)]
    PROVE  /\ SourceShrinks
           /\ \A k \in Kind : k \in ks => source'[op.dk][k] = NoSecret
<1>1. op.dk \in DynaKube /\ source \in [DynaKube -> [Kind -> Secret]]
  BY DEF TypeInv, TypeOK
<1>2. Without(source[op.dk], ks) \in [Kind -> Secret]
  BY <1>1, WithoutType
<1>3. \A k \in Kind : Without(source[op.dk], ks)[k] = IF k \in ks THEN NoSecret ELSE source[op.dk][k]
  BY DEF Without
<1> QED
  BY <1>1, <1>2, <1>3 DEF SourceShrinks

LEMMA DeletedType ==
    ASSUME TypeInv, NEW ks, NEW ns, DeleteSecrets(ks, ns)
    PROVE  secret' \in [Namespace -> [Kind -> Secret]]
<1>1. \A n \in Namespace : Without(secret[n], ks) \in [Kind -> Secret] /\ secret[n] \in [Kind -> Secret]
  BY WithoutType DEF TypeInv, TypeOK
<1> QED
  BY <1>1 DEF DeleteSecrets

LEMMA CleanupOrphans ==
    ASSUME TypeInv, NEW f \in Feature, Cleanup(f) \/ CleanupCerts(f)
    PROVE  orphans \subseteq orphans' /\ orphans' \subseteq Namespace
BY DEF Cleanup, CleanupCerts, LateCopies, Labelled, TypeInv, TypeOK

LEMMA CleanupFields ==
    ASSUME TypeInv, NEW f \in Feature, Cleanup(f)
    PROVE  /\ op.pc = "source" /\ op.kind = <<f, "config">> /\ Busy /\ ~Needed(f)
           /\ Kept(op, op') /\ GoesOn(op, op', <<f, "certs">>) /\ op'.failed = op.failed
           /\ secret' \in [Namespace -> [Kind -> Secret]] /\ SourceShrinks
           /\ faults' \in 0..MaxFaults /\ tainted \subseteq tainted' /\ tainted' \subseteq DynaKube
           /\ \/ ~CleanupDue(f) /\ op'.conds = op.conds /\ source' = source
              \/ op.dk \in tainted'
              \/ /\ op'.conds = op.conds \ FeatureConditions(f)
                 /\ \A k \in Kind : source'[op.dk][k] = IF k[1] = f THEN NoSecret ELSE source[op.dk][k]
<1>1. op.pc = "source" /\ op.kind = <<f, "config">> /\ Busy /\ ~Needed(f)
  BY DEF Cleanup, At, Busy
<1>2. /\ op \in Reconciliation /\ op.dk \in DynaKube /\ op.conds \subseteq Condition /\ <<f, "certs">> \in Kind
      /\ source \in [DynaKube -> [Kind -> Secret]] /\ secret \in [Namespace -> [Kind -> Secret]]
  BY <1>1, KindFacts DEF TypeInv, TypeOK, Reconciliation
<1>3. CASE ~CleanupDue(f)
  <2>1. op' = AfterKind(op, <<f, "certs">>) /\ UNCHANGED <<source, secret, faults, tainted>>
    BY <1>3 DEF Cleanup
  <2>2. SourceShrinks
    BY <1>2, <2>1 DEF SourceShrinks
  <2>3. faults' \in 0..MaxFaults /\ tainted' \subseteq DynaKube
    BY <2>1 DEF TypeInv, TypeOK
  <2> QED
    BY <1>1, <1>2, <1>3, <2>1, <2>2, <2>3, AfterKindFields
<1>4. CASE CleanupDue(f)
  <2> DEFINE Gone(fails) == FeatureConditions(f) \ IF fails THEN {<<f, "certs">>} ELSE {}
             Deleted(fails) == KindsOf({f}) \ IF fails THEN {<<f, "certs">>} ELSE {}
  <2>1. PICK fails \in MayFail :
          /\ Fault(fails)
          /\ source' = [source EXCEPT ![op.dk] = Without(@, Deleted(fails))]
          /\ IF fails THEN UNCHANGED secret ELSE DeleteSecrets(KindsOf({f}), op.targets[f])
          /\ op' = AfterKind([op EXCEPT !.conds = op.conds \ Gone(fails)], <<f, "certs">>)
    BY <1>4 DEF Cleanup
  <2> DEFINE r == [op EXCEPT !.conds = op.conds \ Gone(fails)]
  <2>2. /\ fails \in BOOLEAN /\ faults' \in 0..MaxFaults /\ tainted \subseteq tainted' /\ tainted' \subseteq DynaKube
        /\ fails => op.dk \in tainted'
    BY <1>1, <2>1, FaultFacts
  <2>3. /\ SourceShrinks
        /\ \A k \in Kind : k \in Deleted(fails) => source'[op.dk][k] = NoSecret
    BY <1>1, <2>1, Shrinks
  <2>4. op.conds \ Gone(fails) \subseteq Condition
    BY <1>2
  <2>5. /\ r \in Reconciliation /\ r.conds = op.conds \ Gone(fails) /\ r.failed = op.failed
        /\ r.dk = op.dk /\ r.copy = op.copy /\ r.disturbed = op.disturbed /\ r.gone = op.gone /\ SameMapping(op, r)
    BY <1>2, <2>4 DEF Reconciliation, SameMapping
  <2>6. secret' \in [Namespace -> [Kind -> Secret]]
    BY <1>2, <2>1, DeletedType
  <2>7. Kept(op, op') /\ GoesOn(op, op', <<f, "certs">>) /\ op'.failed = op.failed /\ op'.conds = op.conds \ Gone(fails)
    <3> HIDE DEF r
    <3>1. op' = AfterKind(r, <<f, "certs">>)
      BY <2>1 DEF r
    <3>2. Kept(r, op') /\ GoesOn(r, op', <<f, "certs">>) /\ op'.failed = r.failed /\ op'.conds = r.conds
      BY <1>2, <2>5, <3>1, AfterKindFields
    <3> QED
      BY <2>5, <3>2 DEF Kept, GoesOn, SameMapping
  <2>8. CASE fails
    BY <1>1, <2>2, <2>3, <2>6, <2>7, <2>8
  <2>9. CASE ~fails
    <3>1. Gone(fails) = FeatureConditions(f) /\ Deleted(fails) = KindsOf({f})
      BY <2>9
    <3>2. \A k \in Kind : source'[op.dk][k] = IF k[1] = f THEN NoSecret ELSE source[op.dk][k]
      <4>1. source'[op.dk] = Without(source[op.dk], KindsOf({f}))
        BY <1>2, <2>1, <3>1
      <4> QED
        BY <4>1 DEF Without, KindsOf
    <3> QED
      BY <1>1, <2>2, <2>3, <2>6, <2>7, <3>1, <3>2
  <2> QED
    BY <2>8, <2>9
<1> QED
  BY <1>3, <1>4

LEMMA CleanupCertsFields ==
    ASSUME TypeInv, NEW f \in Feature, CleanupCerts(f)
    PROVE  /\ op.pc = "source" /\ op.kind = <<f, "certs">> /\ Busy /\ ~op.copy.certs
           /\ Kept(op, op') /\ GoesOn(op, op', <<f, "certs">>) /\ (op.failed => op'.failed)
           /\ secret' \in [Namespace -> [Kind -> Secret]] /\ SourceShrinks
           /\ faults' \in 0..MaxFaults /\ tainted \subseteq tainted' /\ tainted' \subseteq DynaKube
           /\ \/ <<f, "certs">> \notin op.conds /\ op'.conds = op.conds /\ source' = source
              \/ op.dk \in tainted'
              \/ /\ op'.conds = op.conds \ {<<f, "certs">>}
                 /\ \A k \in Kind : source'[op.dk][k] = IF k = <<f, "certs">> THEN NoSecret ELSE source[op.dk][k]
<1> DEFINE k == <<f, "certs">>
<1>1. op.pc = "source" /\ op.kind = k /\ Busy /\ ~op.copy.certs
  BY DEF CleanupCerts, At, Busy
<1>2. /\ op \in Reconciliation /\ op.dk \in DynaKube /\ op.conds \subseteq Condition /\ k \in Kind /\ k # <<"otlp", "config">>
      /\ source \in [DynaKube -> [Kind -> Secret]] /\ secret \in [Namespace -> [Kind -> Secret]]
  BY <1>1, KindFacts DEF TypeInv, TypeOK, Reconciliation
<1>3. CASE k \notin op.conds
  <2>1. op' = AfterKind(op, k) /\ UNCHANGED <<source, secret, faults, tainted>>
    BY <1>3 DEF CleanupCerts
  <2>2. SourceShrinks
    BY <1>2, <2>1 DEF SourceShrinks
  <2>3. faults' \in 0..MaxFaults /\ tainted' \subseteq DynaKube
    BY <2>1 DEF TypeInv, TypeOK
  <2> QED
    BY <1>1, <1>2, <1>3, <2>1, <2>2, <2>3, AfterKindFields
<1>4. CASE k \in op.conds
  <2>1. PICK fails \in MayFail :
          /\ Fault(fails)
          /\ source' = [source EXCEPT ![op.dk] = Without(@, {k})]
          /\ IF fails THEN UNCHANGED secret ELSE DeleteSecrets({k}, op.targets[f])
          /\ \E told \in SUBSET Telling(k) :
               op' = IF fails THEN [AfterError(op, k, told) EXCEPT !.conds = @ \ {k}]
                     ELSE AfterKind([op EXCEPT !.conds = op.conds \ {k}], k)
    BY <1>4 DEF CleanupCerts
  <2> DEFINE Ends(told) == IF fails THEN [AfterError(op, k, told) EXCEPT !.conds = @ \ {k}]
                           ELSE AfterKind([op EXCEPT !.conds = op.conds \ {k}], k)
  <2>0. PICK told \in SUBSET Telling(k) : op' = Ends(told)
    BY <2>1
  <2>2. /\ fails \in BOOLEAN /\ faults' \in 0..MaxFaults /\ tainted \subseteq tainted' /\ tainted' \subseteq DynaKube
        /\ fails => op.dk \in tainted'
    BY <1>1, <2>1, FaultFacts
  <2>3. SourceShrinks
    BY <1>1, <2>1, Shrinks
  <2>4. secret' \in [Namespace -> [Kind -> Secret]]
    BY <1>2, <2>1, DeletedType
  <2>5. CASE fails
    <3> DEFINE r == AfterError(op, k, told)
    <3>1. op' = [r EXCEPT !.conds = r.conds \ {k}]
      BY <2>0, <2>5
    <3>2. Kept(op, r) /\ r.failed /\ GoesOn(op, r, k)
      BY <1>2, AfterErrorFields
    <3> HIDE DEF r
    <3>3. r \in Reconciliation /\ r.conds \ {k} \subseteq Condition
      BY <3>2 DEF Kept, Reconciliation
    <3>4. /\ op' \in Reconciliation /\ op'.failed /\ op'.pc = r.pc /\ op'.kind = r.kind
          /\ op'.dk = r.dk /\ op'.copy = r.copy /\ op'.disturbed = r.disturbed /\ op'.gone = r.gone /\ SameMapping(r, op')
      BY <3>1, <3>2, <3>3 DEF Reconciliation, SameMapping
    <3>5. Kept(op, op') /\ GoesOn(op, op', k)
      BY <3>2, <3>4 DEF Kept, GoesOn, SameMapping
    <3> QED
      BY <1>1, <2>2, <2>3, <2>4, <2>5, <3>4, <3>5
  <2>6. CASE ~fails
    <3> DEFINE r == [op EXCEPT !.conds = op.conds \ {k}]
    <3>1. op' = AfterKind(r, k)
      BY <2>0, <2>6
    <3>2. op.conds \ {k} \subseteq Condition
      BY <1>2
    <3>3. /\ r \in Reconciliation /\ r.conds = op.conds \ {k} /\ r.failed = op.failed
          /\ r.dk = op.dk /\ r.copy = op.copy /\ r.disturbed = op.disturbed /\ r.gone = op.gone /\ SameMapping(op, r)
      BY <1>2, <3>2 DEF Reconciliation, SameMapping
    <3> HIDE DEF r
    <3>4. Kept(r, op') /\ GoesOn(r, op', k) /\ op'.failed = r.failed /\ op'.conds = r.conds
      BY <1>2, <3>1, <3>3, AfterKindFields
    <3>5. Kept(op, op') /\ GoesOn(op, op', k)
      BY <3>3, <3>4 DEF Kept, GoesOn, SameMapping
    <3>6. \A j \in Kind : source'[op.dk][j] = IF j = k THEN NoSecret ELSE source[op.dk][j]
      BY <1>2, <2>1 DEF Without
    <3> QED
      BY <1>1, <2>2, <2>3, <2>4, <3>3, <3>4, <3>5, <3>6
  <2> QED
    BY <2>5, <2>6
<1> QED
  BY <1>3, <1>4

\* an error of the configuration of the exporter keeps its certificates from being generated
ErrorEnds(k) == IF k = <<"otlp", "config">> THEN <<"otlp", "certs">> ELSE k

LEMMA WriteSourceFields ==
    ASSUME TypeInv, NEW k \in Kind, WriteSource(k)
    PROVE  /\ op.pc = "source" /\ op.kind = k /\ Busy
           /\ IF k[2] = "config" THEN Needed(k[1]) ELSE op.copy.certs
           /\ Kept(op, op')
           /\ source' \in [DynaKube -> [Kind -> Secret]] /\ \A d \in DynaKube : d # op.dk => source'[d] = source[d]
           /\ faults' \in 0..MaxFaults /\ tainted \subseteq tainted' /\ tainted' \subseteq DynaKube
           /\ \/ op.dk \in tainted' /\ GoesOn(op, op', ErrorEnds(k)) /\ op'.failed /\ source' = source
                 /\ op.conds \subseteq op'.conds
              \/ ~HasData(k) /\ GoesOn(op, op', k) /\ op'.conds = op.conds /\ op'.failed = op.failed /\ source' = source
              \/ /\ op'.pc = "list" /\ op'.kind = k /\ op'.conds = op.conds /\ op'.failed = op.failed
                 /\ op.gone => source' = source
                 /\ ~op.gone => \A j \in Kind : source'[op.dk][j] = IF j = k THEN Content(op.dk, op.copy)
                                                                    ELSE source[op.dk][j]
<1>1. op.pc = "source" /\ op.kind = k /\ Busy /\ IF k[2] = "config" THEN Needed(k[1]) ELSE op.copy.certs
  BY DEF WriteSource, At, Busy
<1>2. PICK fails \in MayFail :
        /\ Fault(fails)
        /\ IF fails
           THEN (\E told \in SUBSET Telling(k) : op' = AfterError(op, k, told)) /\ UNCHANGED source
           ELSE IF ~HasData(k)
           THEN op' = AfterKind(op, k) /\ UNCHANGED source
           ELSE /\ source' = IF op.gone THEN source ELSE [source EXCEPT ![op.dk][k] = Content(op.dk, op.copy)]
                /\ op' = [op EXCEPT !.pc = "list"]
  BY DEF WriteSource
<1>3. /\ fails \in BOOLEAN /\ faults' \in 0..MaxFaults /\ tainted \subseteq tainted' /\ tainted' \subseteq DynaKube
      /\ fails => op.dk \in tainted'
  BY <1>1, <1>2, FaultFacts
<1>4. op \in Reconciliation /\ op.dk \in DynaKube /\ op.copy \in Spec /\ source \in [DynaKube -> [Kind -> Secret]]
  BY <1>1 DEF TypeInv, TypeOK, Reconciliation
<1>5. CASE fails
  <2>1. PICK told \in SUBSET Telling(k) : op' = AfterError(op, k, told)
    BY <1>2, <1>5
  <2>2. source' = source
    BY <1>2, <1>5
  <2>3. Kept(op, op') /\ GoesOn(op, op', ErrorEnds(k)) /\ op'.failed /\ op'.conds = op.conds \cup told
    BY <1>4, <2>1, AfterErrorFields DEF ErrorEnds
  <2> QED
    BY <1>1, <1>3, <1>4, <1>5, <2>2, <2>3
<1>6. CASE ~fails /\ HasData(k)
  <2>1. op' = [op EXCEPT !.pc = "list"]
    BY <1>2, <1>6
  <2>2. Kept(op, op') /\ op'.pc = "list" /\ op'.kind = k /\ op'.conds = op.conds /\ op'.failed = op.failed
    BY <1>1, <1>4, <2>1 DEF Kept, Reconciliation, PC, SameMapping
  <2>3. CASE op.gone
    BY <1>1, <1>2, <1>3, <1>4, <1>6, <2>2, <2>3
  <2>4. CASE ~op.gone
    <3>1. Content(op.dk, op.copy) \in Secret
      BY <1>4, ConstantTypes
    <3>2. source' = [source EXCEPT ![op.dk][k] = Content(op.dk, op.copy)]
      BY <1>2, <1>6, <2>4
    <3> QED
      BY <1>1, <1>3, <1>4, <2>2, <2>4, <3>1, <3>2
  <2> QED
    BY <2>3, <2>4
<1>7. CASE ~fails /\ ~HasData(k)
  <2>1. op' = AfterKind(op, k) /\ source' = source
    BY <1>2, <1>7
  <2>2. Kept(op, op') /\ GoesOn(op, op', k) /\ op'.conds = op.conds /\ op'.failed = op.failed
    BY <1>4, <2>1, AfterKindFields
  <2> QED
    BY <1>1, <1>3, <1>4, <1>7, <2>1, <2>2
<1> QED
  BY <1>5, <1>6, <1>7

LEMMA ListSecretsFields ==
    ASSUME TypeInv, NEW k \in Kind, ListSecrets(k)
    PROVE  /\ op.pc = "list" /\ op.kind = k /\ Busy
           /\ Kept(op, op') /\ op'.pc = "write" /\ op'.kind = k /\ op'.conds = op.conds /\ op'.failed = op.failed
<1> DEFINE existing == {n \in Namespace : secret[n][k] # NoSecret}
<1>1. existing \subseteq Namespace
  OBVIOUS
<1>2. op.pc = "list" /\ op.kind = k /\ op' = [op EXCEPT !.pc = "write", !.existing = existing] /\ op \in Reconciliation
  BY DEF ListSecrets, At, TypeInv, TypeOK
<1> HIDE DEF existing
<1> QED
  BY <1>1, <1>2 DEF Kept, Reconciliation, PC, Busy, SameMapping

LEMMA WriteSecretsFields ==
    ASSUME TypeInv, NEW k \in Kind, WriteSecrets(k)
    PROVE  /\ op.pc = "write" /\ op.kind = k /\ Busy
           /\ Kept(op, op') /\ secret' \in [Namespace -> [Kind -> Secret]]
           /\ faults' \in 0..MaxFaults /\ tainted \subseteq tainted' /\ tainted' \subseteq DynaKube
           /\ \/ GoesOn(op, op', ErrorEnds(k)) /\ op'.failed /\ op.conds \cup {k} \subseteq op'.conds
                 /\ (<<k[1], "feature">> \in op'.conds \/ op.dk \in tainted')
              \/ /\ GoesOn(op, op', k) /\ op'.failed = op.failed
                 /\ op'.conds = op.conds \cup {k} \cup IF k[1] = "otlp" THEN {<<"otlp", "feature">>} ELSE {}
<1>1. op.pc = "write" /\ op.kind = k /\ Busy
  BY DEF WriteSecrets, At, Busy
<1> DEFINE ns == op.targets[k[1]]
           conds == op.conds \cup {k} \cup IF k[1] = "otlp" THEN {<<"otlp", "feature">>} ELSE {}
           r == [op EXCEPT !.conds = conds]
<1>2. PICK lost \in SUBSET ns :
        /\ lost # {} => faults < MaxFaults
        /\ LET refused == {n \in ns : n \notin op.existing /\ secret[n][k] # NoSecret} \cup lost
           IN /\ Fault(lost # {})
              /\ secret' = [n \in Namespace |-> IF n \in ns \ refused THEN [secret[n] EXCEPT ![k] = Content(op.dk, op.copy)] ELSE secret[n]]
              /\ \E told \in IF lost = {} THEN {Telling(k)} ELSE {{k}, Telling(k)} :
                   op' = IF refused # {} THEN AfterError(op, k, told) ELSE AfterKind(r, k)
  BY DEF WriteSecrets
<1> DEFINE refused == {n \in ns : n \notin op.existing /\ secret[n][k] # NoSecret} \cup lost
<1>3. (lost # {}) \in MayFail
  BY <1>2 DEF MayFail
<1>4. Fault(lost # {})
  BY <1>2
<1>5. faults' \in 0..MaxFaults /\ tainted \subseteq tainted' /\ tainted' \subseteq DynaKube
  BY <1>1, <1>3, <1>4, FaultFacts
<1>6. op \in Reconciliation /\ op.dk \in DynaKube /\ op.copy \in Spec /\ secret \in [Namespace -> [Kind -> Secret]]
  BY <1>1 DEF TypeInv, TypeOK, Reconciliation
<1>7. secret' \in [Namespace -> [Kind -> Secret]]
  <2>1. Content(op.dk, op.copy) \in Secret
    BY <1>6, ConstantTypes
  <2>2. secret' = [n \in Namespace |-> IF n \in ns \ refused THEN [secret[n] EXCEPT ![k] = Content(op.dk, op.copy)] ELSE secret[n]]
    BY <1>2
  <2> HIDE DEF refused, ns
  <2>3. \A n \in Namespace : [secret[n] EXCEPT ![k] = Content(op.dk, op.copy)] \in [Kind -> Secret]
    BY <1>6, <2>1
  <2> QED
    BY <1>6, <2>2, <2>3
<1>8. CASE refused # {}
  <2>1. PICK told \in (IF lost = {} THEN {Telling(k)} ELSE {{k}, Telling(k)}) : op' = AfterError(op, k, told)
    BY <1>2, <1>8
  <2>2. told \in SUBSET Telling(k) /\ k \in told /\ (lost = {} => <<k[1], "feature">> \in told)
    BY <2>1 DEF Telling
  <2>3. lost # {} => op.dk \in tainted'
    BY <1>1, <1>3, <1>4, FaultFacts
  <2>4. Kept(op, op') /\ GoesOn(op, op', ErrorEnds(k)) /\ op'.failed /\ op'.conds = op.conds \cup told
    BY <1>6, <2>1, <2>2, AfterErrorFields DEF ErrorEnds
  <2>5. op.conds \cup {k} \subseteq op'.conds /\ (<<k[1], "feature">> \in op'.conds \/ op.dk \in tainted')
    BY <2>2, <2>3, <2>4
  <2> QED
    BY <1>1, <1>5, <1>7, <2>4, <2>5
<1>9. CASE refused = {}
  <2>1. op' = AfterKind(r, k)
    BY <1>2, <1>9
  <2>2. conds \subseteq Condition
    BY <1>6, KindFacts DEF Reconciliation, Condition, Kind, Feature
  <2> HIDE DEF conds
  <2>3. /\ r \in Reconciliation /\ r.conds = conds /\ r.failed = op.failed
        /\ r.dk = op.dk /\ r.copy = op.copy /\ r.disturbed = op.disturbed /\ r.gone = op.gone /\ SameMapping(op, r)
    BY <1>6, <2>2 DEF Reconciliation, SameMapping
  <2> HIDE DEF r
  <2>4. Kept(r, op') /\ GoesOn(r, op', k) /\ op'.failed = r.failed /\ op'.conds = r.conds
    BY <2>1, <2>3, AfterKindFields
  <2>5. Kept(op, op') /\ GoesOn(op, op', k)
    BY <2>3, <2>4 DEF Kept, GoesOn, SameMapping
  <2> QED
    BY <1>1, <1>5, <1>7, <2>3, <2>4, <2>5 DEF conds
<1> QED
  BY <1>8, <1>9

-----------------------------------------------------------------------------
(* What the steps of the unmapping change.                                  *)

UnmappingFails == op'.pc = "finish" /\ op'.failed /\ UNCHANGED <<label, secret, clean>>

LEMMA UnmapFields ==
    ASSUME TypeInv, Unmap
    PROVE  /\ op.pc = "unmap" /\ Busy
           /\ SameReconcile /\ op'.conds = op.conds
           /\ faults' \in 0..MaxFaults /\ tainted \subseteq tainted' /\ tainted' \subseteq DynaKube
           /\ UnmappingFails \/ (op'.pc = "unmapLabels" /\ op'.failed = op.failed /\ op'.todo = Labelled(op.dk))
<1>1. op.pc = "unmap" /\ Busy
  BY DEF Unmap, Busy
<1>2. PICK fails \in MayFail :
        /\ Fault(fails)
        /\ op' = IF fails THEN UnmapFails(op) ELSE [op EXCEPT !.pc = "unmapLabels", !.todo = Labelled(op.dk)]
  BY DEF Unmap
<1>3. faults' \in 0..MaxFaults /\ tainted \subseteq tainted' /\ tainted' \subseteq DynaKube
  BY <1>1, <1>2, FaultFacts
<1>4. op \in Reconciliation /\ Labelled(op.dk) \subseteq Namespace /\ UNCHANGED <<label, secret, clean>>
  BY DEF TypeInv, TypeOK, Labelled, Unmap, objects
<1>5. CASE fails
  BY <1>1, <1>2, <1>3, <1>4, <1>5, UnmapFailsFields DEF SameReconcile, UnmappingFails
<1>6. CASE ~fails
  <2>1. op' = [op EXCEPT !.pc = "unmapLabels", !.todo = Labelled(op.dk)]
    BY <1>2, <1>6
  <2> QED
    BY <1>1, <1>3, <1>4, <2>1 DEF SameReconcile, Reconciliation, PC
<1> QED
  BY <1>5, <1>6

LEMMA UnmapLabelFields ==
    ASSUME TypeInv, NEW n \in Namespace, UnmapLabel(n)
    PROVE  /\ op.pc = "unmapLabels" /\ Busy /\ n \in op.todo
           /\ SameReconcile /\ op'.conds = op.conds
           /\ faults' \in 0..MaxFaults /\ tainted \subseteq tainted' /\ tainted' \subseteq DynaKube
           /\ \/ UnmappingFails
              \/ /\ op'.pc = "unmapSecrets" /\ op'.todo = op.todo \ {n} /\ op'.failed = op.failed
                 /\ label' = [label EXCEPT ![n] = NoDynaKube]
                 /\ clean' = clean \cap {op.dk}
<1>1. op.pc = "unmapLabels" /\ Busy /\ n \in op.todo
  BY DEF UnmapLabel, Busy
<1> DEFINE todo == op.todo \ {n}
<1>2. PICK fails \in MayFail :
        /\ Fault(fails)
        /\ IF fails \/ n \in touched
           THEN op' = UnmapFails(op) /\ UNCHANGED <<label, clean>>
           ELSE /\ label' = [label EXCEPT ![n] = NoDynaKube]
                /\ op' = [op EXCEPT !.pc = "unmapSecrets", !.todo = todo, !.removed = {n}]
                /\ Changed(DynaKube \ {op.dk})
  BY DEF UnmapLabel
<1>3. faults' \in 0..MaxFaults /\ tainted \subseteq tainted' /\ tainted' \subseteq DynaKube
  BY <1>1, <1>2, FaultFacts
<1>4. op \in Reconciliation /\ clean \subseteq DynaKube /\ todo \subseteq Namespace
  BY DEF TypeInv, TypeOK, Reconciliation
<1>5. CASE fails \/ n \in touched
  <2>1. op' = UnmapFails(op) /\ UNCHANGED <<label, secret, clean>>
    BY <1>2, <1>5 DEF UnmapLabel
  <2> QED
    BY <1>1, <1>3, <1>4, <2>1, UnmapFailsFields DEF SameReconcile, UnmappingFails
<1>6. CASE ~(fails \/ n \in touched)
  <2>1. /\ label' = [label EXCEPT ![n] = NoDynaKube]
        /\ op' = [op EXCEPT !.pc = "unmapSecrets", !.todo = todo, !.removed = {n}]
        /\ clean' = clean \cap {op.dk}
    BY <1>2, <1>4, <1>6 DEF Changed
  <2> HIDE DEF todo
  <2>2. /\ SameReconcile /\ op'.conds = op.conds
        /\ op'.pc = "unmapSecrets" /\ op'.todo = todo /\ op'.failed = op.failed
    BY <1>4, <2>1 DEF SameReconcile, Reconciliation, PC
  <2> QED
    BY <1>1, <1>3, <2>1, <2>2 DEF todo
<1> QED
  BY <1>5, <1>6

LEMMA UnmapSecretsFields ==
    ASSUME TypeInv, UnmapSecrets
    PROVE  /\ op.pc = "unmapSecrets" /\ Busy
           /\ SameReconcile /\ op'.conds = op.conds /\ orphans' \subseteq Namespace
           /\ secret' \in [Namespace -> [Kind -> Secret]]
           /\ faults' \in 0..MaxFaults /\ tainted \subseteq tainted' /\ tainted' \subseteq DynaKube
           /\ UnmappingFails \/ (op'.pc = "unmapLabels" /\ op'.todo = op.todo /\ op'.failed = op.failed)
<1>1. op.pc = "unmapSecrets" /\ Busy
  BY DEF UnmapSecrets, Busy
<1>2. PICK fails \in MayFail :
        /\ Fault(fails)
        /\ IF fails
           THEN op' = UnmapFails(op) /\ orphans' = orphans \cup op.removed /\ UNCHANGED secret
           ELSE /\ DeleteSecrets(Kind, op.removed)
                /\ op' = [op EXCEPT !.pc = "unmapLabels", !.removed = {}]
                /\ orphans' = orphans \ op.removed
  BY DEF UnmapSecrets
<1>3. faults' \in 0..MaxFaults /\ tainted \subseteq tainted' /\ tainted' \subseteq DynaKube
  BY <1>1, <1>2, FaultFacts
<1>4. /\ op \in Reconciliation /\ secret \in [Namespace -> [Kind -> Secret]]
      /\ orphans \subseteq Namespace /\ op.removed \subseteq Namespace
  BY DEF TypeInv, TypeOK, Reconciliation
<1>5. CASE fails
  <2>1. op' = UnmapFails(op) /\ orphans' = orphans \cup op.removed /\ UNCHANGED <<label, secret, clean>>
    BY <1>2, <1>5 DEF UnmapSecrets
  <2> QED
    BY <1>1, <1>3, <1>4, <2>1, UnmapFailsFields DEF SameReconcile, UnmappingFails
<1>6. CASE ~fails
  <2>1. DeleteSecrets(Kind, op.removed) /\ op' = [op EXCEPT !.pc = "unmapLabels", !.removed = {}]
        /\ orphans' = orphans \ op.removed
    BY <1>2, <1>6
  <2>2. secret' \in [Namespace -> [Kind -> Secret]]
    BY <2>1, DeletedType
  <2>3. /\ SameReconcile /\ op'.conds = op.conds
        /\ op'.pc = "unmapLabels" /\ op'.todo = op.todo /\ op'.failed = op.failed
    BY <1>4, <2>1 DEF SameReconcile, Reconciliation, PC
  <2> QED
    BY <1>1, <1>3, <1>4, <2>1, <2>2, <2>3
<1> QED
  BY <1>5, <1>6

LEMMA UnmappedFields ==
    ASSUME TypeInv, Unmapped
    PROVE  /\ op.pc = "unmapLabels" /\ op.todo = {} /\ Busy
           /\ SameReconcile /\ op'.conds = op.conds /\ op'.pc = "finish" /\ op'.failed = op.failed
BY DEF Unmapped, Busy, SameReconcile, Reconciliation, PC, TypeInv, TypeOK

LEMMA FinishFields ==
    ASSUME TypeInv, Finish
    PROVE  /\ op.pc = "finish" /\ Busy /\ op' = Idle
           /\ faults' \in 0..MaxFaults /\ tainted \subseteq tainted' /\ tainted' \subseteq DynaKube
           /\ conditions' \in [DynaKube -> SUBSET Condition] /\ clean' \subseteq DynaKube
           /\ \A d \in DynaKube : d # op.dk => conditions'[d] = conditions[d]
           /\ clean' \subseteq clean \cup {op.dk}
           /\ op.dk \in clean' => ~op.failed /\ ~op.disturbed
           /\ \/ op.dk \in tainted'
              \/ conditions'[op.dk] = IF op.copy.exists THEN op.conds ELSE conditions[op.dk]
<1>1. op.pc = "finish" /\ Busy /\ op' = Idle
  BY DEF Finish, Busy
<1>2. PICK fails \in MayFail :
        /\ Fault(fails)
        /\ conditions' = IF fails \/ ~op.copy.exists THEN conditions ELSE [conditions EXCEPT ![op.dk] = op.conds]
        /\ clean' = IF fails \/ op.failed \/ op.disturbed THEN clean \ {op.dk} ELSE clean \cup {op.dk}
  BY DEF Finish
<1>3. /\ fails \in BOOLEAN /\ faults' \in 0..MaxFaults /\ tainted \subseteq tainted' /\ tainted' \subseteq DynaKube
      /\ fails => op.dk \in tainted'
  BY <1>1, <1>2, FaultFacts
<1>4. /\ op \in Reconciliation /\ op.dk \in DynaKube /\ op.conds \subseteq Condition
      /\ conditions \in [DynaKube -> SUBSET Condition] /\ clean \subseteq DynaKube
  BY <1>1 DEF TypeInv, TypeOK, Reconciliation
<1>5. conditions' \in [DynaKube -> SUBSET Condition] /\ \A d \in DynaKube : d # op.dk => conditions'[d] = conditions[d]
  BY <1>2, <1>4
<1>6. clean' \subseteq DynaKube /\ clean' \subseteq clean \cup {op.dk} /\ (op.dk \in clean' => ~op.failed /\ ~op.disturbed)
  BY <1>2, <1>4
<1>7. op.dk \in tainted' \/ conditions'[op.dk] = IF op.copy.exists THEN op.conds ELSE conditions[op.dk]
  BY <1>2, <1>3, <1>4
<1> QED
  BY <1>1, <1>3, <1>5, <1>6, <1>7

-----------------------------------------------------------------------------
(* What users and webhooks change.                                          *)

\* whatever the operator read before, it does not count as undisturbed after this
Disturbed ==
    /\ op' \in Reconciliation
    /\ op'.pc = op.pc /\ op'.kind = op.kind /\ op'.dk = op.dk /\ op'.copy = op.copy /\ op'.conds = op.conds
    /\ op'.failed = op.failed /\ SameMapping(op, op')
    /\ Busy => op'.disturbed
    /\ clean' = {}

LEMMA SpecChange ==
    ASSUME NEW s \in Spec
    PROVE  /\ \A on \in SUBSET Feature :
                [s EXCEPT !.on = on] \in Spec /\ [s EXCEPT !.on = on].exists = s.exists
           /\ \A selects \in SUBSET (Feature \X Namespace) :
                [s EXCEPT !.selects = selects] \in Spec /\ [s EXCEPT !.selects = selects].exists = s.exists
           /\ \A certs \in BOOLEAN :
                [s EXCEPT !.certs = certs] \in Spec /\ [s EXCEPT !.certs = certs].exists = s.exists
           /\ \A token \in Token :
                [s EXCEPT !.token = token] \in Spec /\ [s EXCEPT !.token = token].exists = s.exists
           /\ \A groups \in BOOLEAN :
                [s EXCEPT !.groups = groups] \in Spec /\ [s EXCEPT !.groups = groups].exists = s.exists
<1> DEFINE Matches == SUBSET (Feature \X Namespace)
<1>1. Spec = [exists : BOOLEAN, on : SUBSET Feature, selects : Matches, certs : BOOLEAN, token : Token, groups : BOOLEAN]
  BY DEF Spec
<1> HIDE DEF Matches
<1>2. \A selects \in Matches :
        [s EXCEPT !.selects = selects] \in Spec /\ [s EXCEPT !.selects = selects].exists = s.exists
  BY <1>1
<1>3. \A on \in SUBSET Feature :
        [s EXCEPT !.on = on] \in Spec /\ [s EXCEPT !.on = on].exists = s.exists
  BY <1>1
<1>4. \A certs \in BOOLEAN :
        [s EXCEPT !.certs = certs] \in Spec /\ [s EXCEPT !.certs = certs].exists = s.exists
  BY <1>1
<1>5. \A token \in Token :
        [s EXCEPT !.token = token] \in Spec /\ [s EXCEPT !.token = token].exists = s.exists
  BY <1>1
<1>6. \A groups \in BOOLEAN :
        [s EXCEPT !.groups = groups] \in Spec /\ [s EXCEPT !.groups = groups].exists = s.exists
  BY <1>1
<1> QED
  BY <1>2, <1>3, <1>4, <1>5, <1>6 DEF Matches

LEMMA EditNamespaceFields ==
    ASSUME TypeInv, NEW n \in Namespace, EditNamespace(n)
    PROVE  /\ Disturbed /\ op'.gone = op.gone
           /\ dks' \in [DynaKube -> Spec] /\ cache' \in [DynaKube -> Spec]
           /\ \A d \in DynaKube : dks'[d].exists = dks[d].exists
           /\ label' \in [Namespace -> DynaKube \cup {NoDynaKube}]
           /\ orphans' \subseteq Namespace /\ touched' \subseteq Namespace
<1> DEFINE at(list, matches) == [d \in DynaKube |-> [list[d] EXCEPT !.selects =
                {m \in @ : m[2] # n} \cup {<<f, n>> : f \in {g \in Feature : <<d, g>> \in matches}}]]
<1>1. PICK matches \in SUBSET (DynaKube \X Feature) :
        /\ dks' = at(dks, matches) /\ cache' = at(cache, matches)
        /\ label' = [label EXCEPT ![n] = Updated(at(cache, matches), n)]
  BY DEF EditNamespace
<1>2. ASSUME NEW list \in [DynaKube -> Spec]
      PROVE  at(list, matches) \in [DynaKube -> Spec] /\ \A d \in DynaKube : at(list, matches)[d].exists = list[d].exists
  <2>1. ASSUME NEW d \in DynaKube
        PROVE  /\ [list[d] EXCEPT !.selects =
                      {m \in @ : m[2] # n} \cup {<<f, n>> : f \in {g \in Feature : <<d, g>> \in matches}}] \in Spec
               /\ at(list, matches)[d].exists = list[d].exists
    <3> DEFINE selects == {m \in list[d].selects : m[2] # n} \cup {<<f, n>> : f \in {g \in Feature : <<d, g>> \in matches}}
    <3>1. list[d] \in Spec
      OBVIOUS
    <3>2. selects \subseteq Feature \X Namespace
      <4>1. list[d].selects \subseteq Feature \X Namespace
        BY <3>1 DEF Spec
      <4>2. \A f \in Feature : <<f, n>> \in Feature \X Namespace
        OBVIOUS
      <4>3. {m \in list[d].selects : m[2] # n} \subseteq Feature \X Namespace
        BY <4>1
      <4>4. {<<f, n>> : f \in {g \in Feature : <<d, g>> \in matches}} \subseteq Feature \X Namespace
        BY <4>2
      <4> QED
        BY <4>3, <4>4
    <3>3. at(list, matches)[d] = [list[d] EXCEPT !.selects = selects]
      OBVIOUS
    <3> HIDE DEF selects
    <3>4. [list[d] EXCEPT !.selects = selects] \in Spec /\ [list[d] EXCEPT !.selects = selects].exists = list[d].exists
      BY <3>1, <3>2, SpecChange
    <3> QED
      BY <3>3, <3>4 DEF selects
  <2> QED
    BY <2>1
<1> HIDE DEF at
<1>3. dks \in [DynaKube -> Spec] /\ cache \in [DynaKube -> Spec] /\ label \in [Namespace -> DynaKube \cup {NoDynaKube}]
      /\ touched \subseteq Namespace /\ orphans \subseteq Namespace /\ op \in Reconciliation /\ clean \subseteq DynaKube
  BY DEF TypeInv, TypeOK
<1>4. Updated(at(cache, matches), n) \in DynaKube \cup {NoDynaKube}
  BY <1>3, UpdatedType
<1>5. label' \in [Namespace -> DynaKube \cup {NoDynaKube}]
  BY <1>1, <1>3, <1>4
<1>6. orphans' \subseteq Namespace /\ touched' \subseteq Namespace
  BY <1>3 DEF EditNamespace
<1>7. op' = Disturb(op) /\ clean' = {}
  BY <1>3 DEF EditNamespace, Changed
<1>8. Disturbed /\ op'.gone = op.gone
  BY <1>3, <1>7, DisturbFields DEF Disturbed
<1> QED
  BY <1>1, <1>2, <1>3, <1>5, <1>6, <1>8

LEMMA CreateReplicatedFields ==
    ASSUME TypeInv, CreateReplicated
    PROVE  /\ pod' = NoPod
           /\ secret' \in [Namespace -> [Kind -> Secret]] /\ orphans' \subseteq Namespace
           /\ \/ Disturbed /\ op'.gone = op.gone
              \/ UNCHANGED <<op, clean>>
<1>1. /\ secret \in [Namespace -> [Kind -> Secret]] /\ pod \in [ns : Namespace, kind : Kind, held : Secret]
      /\ orphans \subseteq Namespace /\ op \in Reconciliation /\ clean \subseteq DynaKube
  BY DEF TypeInv, TypeOK
<1>2. CASE secret[pod.ns][pod.kind] = NoSecret
  <2>1. /\ secret' = [secret EXCEPT ![pod.ns][pod.kind] = pod.held]
        /\ op' = Disturb(op) /\ clean' = {} /\ orphans' \in {orphans \cup {pod.ns}, orphans}
        /\ pod' = NoPod
    BY <1>1, <1>2 DEF CreateReplicated, Changed
  <2>2. Disturbed /\ op'.gone = op.gone
    BY <1>1, <2>1, DisturbFields DEF Disturbed
  <2> QED
    BY <1>1, <2>1, <2>2
<1>3. CASE secret[pod.ns][pod.kind] # NoSecret
  BY <1>1, <1>3 DEF CreateReplicated
<1> QED
  BY <1>2, <1>3

\* a DynaKube is edited, deleted or created again
LEMMA EditDynaKubeFields ==
    ASSUME TypeInv, NEW d \in DynaKube, EditDynaKube(d)
    PROVE  /\ Disturbed /\ dks' \in [DynaKube -> Spec]
           /\ source' \in [DynaKube -> [Kind -> Secret]] /\ conditions' \in [DynaKube -> SUBSET Condition]
           /\ orphans' \subseteq Namespace
           /\ \A e \in DynaKube : e # d => dks'[e] = dks[e] /\ source'[e] = source[e] /\ conditions'[e] = conditions[e]
           /\ \/ /\ dks[d].exists /\ dks'[d].exists /\ UNCHANGED <<source, conditions>> /\ op'.gone = op.gone
              \/ /\ ~dks'[d].exists /\ UNCHANGED conditions
                 /\ \A k \in Kind : source'[d][k] = NoSecret
                 /\ op'.gone = (op.gone \/ op.dk = d)
              \/ /\ ~dks[d].exists /\ dks'[d].exists /\ UNCHANGED source
                 /\ conditions'[d] = {} /\ op'.gone = op.gone
<1>1. /\ dks \in [DynaKube -> Spec] /\ source \in [DynaKube -> [Kind -> Secret]]
      /\ conditions \in [DynaKube -> SUBSET Condition]
      /\ orphans \subseteq Namespace /\ op \in Reconciliation /\ clean \subseteq DynaKube
  BY DEF TypeInv, TypeOK
<1>2. clean' = {}
  BY <1>1 DEF EditDynaKube, Changed
<1>3. CASE /\ dks[d].exists
           /\ \/ \E f \in Feature : dks' = [dks EXCEPT ![d].on = (@ \ {f}) \cup ({f} \ @)]
              \/ \E m \in Feature \X Namespace : dks' = [dks EXCEPT ![d].selects = (@ \ {m}) \cup ({m} \ @)]
              \/ dks' = [dks EXCEPT ![d].certs = ~@]
              \/ dks[d].token < MaxToken /\ dks' = [dks EXCEPT ![d].token = @ + 1]
              \/ d \in HostMonitoring /\ dks' = [dks EXCEPT ![d].groups = ~@]
           /\ op' = Disturb(op)
           /\ UNCHANGED <<source, conditions, orphans>>
  <2>1. Disturbed /\ op'.gone = op.gone
    BY <1>1, <1>2, <1>3, DisturbFields DEF Disturbed
  <2>2. dks' \in [DynaKube -> Spec] /\ dks'[d].exists /\ \A e \in DynaKube : e # d => dks'[e] = dks[e]
    <3>1. dks[d] \in Spec
      BY <1>1
    <3>2. dks[d].on \in SUBSET Feature /\ dks[d].selects \in SUBSET (Feature \X Namespace) /\ dks[d].certs \in BOOLEAN
          /\ dks[d].token \in Token /\ dks[d].groups \in BOOLEAN
      BY <1>1 DEF Spec
    <3>3. \E s \in Spec : s.exists /\ dks' = [dks EXCEPT ![d] = s]
      <4>1. CASE \E f \in Feature : dks' = [dks EXCEPT ![d].on = (@ \ {f}) \cup ({f} \ @)]
        <5>1. PICK f \in Feature : dks' = [dks EXCEPT ![d].on = (@ \ {f}) \cup ({f} \ @)]
          BY <4>1
        <5> DEFINE value == (dks[d].on \ {f}) \cup ({f} \ dks[d].on)
                   s == [dks[d] EXCEPT !.on = value]
        <5>2. value \in SUBSET Feature
          BY <3>2
        <5>3. dks' = [dks EXCEPT ![d] = s]
          BY <1>1, <5>1
        <5> HIDE DEF value
        <5>4. s \in Spec /\ s.exists = dks[d].exists
          BY <3>1, <5>2, SpecChange
        <5> QED
          BY <1>3, <5>3, <5>4
      <4>2. CASE \E m \in Feature \X Namespace : dks' = [dks EXCEPT ![d].selects = (@ \ {m}) \cup ({m} \ @)]
        <5>1. PICK m \in Feature \X Namespace : dks' = [dks EXCEPT ![d].selects = (@ \ {m}) \cup ({m} \ @)]
          BY <4>2
        <5> DEFINE value == (dks[d].selects \ {m}) \cup ({m} \ dks[d].selects)
                   s == [dks[d] EXCEPT !.selects = value]
        <5>2. value \in SUBSET (Feature \X Namespace)
          BY <3>2
        <5>3. dks' = [dks EXCEPT ![d] = s]
          BY <1>1, <5>1
        <5> HIDE DEF value
        <5>4. s \in Spec /\ s.exists = dks[d].exists
          BY <3>1, <5>2, SpecChange
        <5> QED
          BY <1>3, <5>3, <5>4
      <4>3. CASE dks' = [dks EXCEPT ![d].certs = ~@]
        <5> DEFINE value == ~dks[d].certs
                   s == [dks[d] EXCEPT !.certs = value]
        <5>2. value \in BOOLEAN
          BY <3>2
        <5>3. dks' = [dks EXCEPT ![d] = s]
          BY <1>1, <4>3
        <5> HIDE DEF value
        <5>4. s \in Spec /\ s.exists = dks[d].exists
          BY <3>1, <5>2, SpecChange
        <5> QED
          BY <1>3, <5>3, <5>4
      <4>4. CASE dks[d].token < MaxToken /\ dks' = [dks EXCEPT ![d].token = @ + 1]
        <5> DEFINE value == dks[d].token + 1
                   s == [dks[d] EXCEPT !.token = value]
        <5>2. value \in Token
          BY <3>2, <4>4, BoundAssumption DEF Token
        <5>3. dks' = [dks EXCEPT ![d] = s]
          BY <1>1, <4>4
        <5> HIDE DEF value
        <5>4. s \in Spec /\ s.exists = dks[d].exists
          BY <3>1, <5>2, SpecChange
        <5> QED
          BY <1>3, <5>3, <5>4
      <4>5. CASE dks' = [dks EXCEPT ![d].groups = ~@]
        <5> DEFINE value == ~dks[d].groups
                   s == [dks[d] EXCEPT !.groups = value]
        <5>2. value \in BOOLEAN
          BY <3>2
        <5>3. dks' = [dks EXCEPT ![d] = s]
          BY <1>1, <4>5
        <5> HIDE DEF value
        <5>4. s \in Spec /\ s.exists = dks[d].exists
          BY <3>1, <5>2, SpecChange
        <5> QED
          BY <1>3, <5>3, <5>4
      <4> QED
        BY <1>3, <4>1, <4>2, <4>3, <4>4, <4>5
    <3> QED
      BY <1>1, <3>3
  <2> QED
    BY <1>1, <1>3, <2>1, <2>2
<1>4. CASE /\ dks[d].exists
           /\ dks' = [dks EXCEPT ![d].exists = FALSE]
           /\ source' = [source EXCEPT ![d] = [k \in Kind |-> NoSecret]]
           /\ op' = [Disturb(op) EXCEPT !.gone = @ \/ op.dk = d]
           /\ UNCHANGED <<conditions, orphans>>
  <2>1. dks' \in [DynaKube -> Spec] /\ ~dks'[d].exists /\ \A e \in DynaKube : e # d => dks'[e] = dks[e]
    BY <1>1, <1>4 DEF Spec
  <2>2. /\ source' \in [DynaKube -> [Kind -> Secret]] /\ \A k \in Kind : source'[d][k] = NoSecret
        /\ \A e \in DynaKube : e # d => source'[e] = source[e]
    BY <1>1, <1>4, ConstantTypes
  <2> DEFINE r == Disturb(op)
             gone == r.gone \/ op.dk = d
  <2>3. /\ r \in Reconciliation /\ r.pc = op.pc /\ r.kind = op.kind /\ r.dk = op.dk /\ r.copy = op.copy
        /\ r.conds = op.conds /\ r.failed = op.failed /\ r.gone = op.gone /\ (Busy => r.disturbed)
        /\ SameMapping(op, r)
    BY <1>1, DisturbFields
  <2>4. op' = [r EXCEPT !.gone = gone]
    BY <1>4
  <2>5. gone \in BOOLEAN /\ gone = (op.gone \/ op.dk = d)
    BY <2>3
  <2> HIDE DEF r, gone
  <2>6. /\ op' \in Reconciliation /\ op'.pc = r.pc /\ op'.kind = r.kind /\ op'.dk = r.dk /\ op'.copy = r.copy
        /\ op'.conds = r.conds /\ op'.failed = r.failed /\ op'.disturbed = r.disturbed /\ op'.gone = gone
        /\ SameMapping(r, op')
    BY <2>3, <2>4, <2>5 DEF Reconciliation, SameMapping
  <2>7. Disturbed
    BY <1>2, <2>3, <2>6 DEF Disturbed, SameMapping
  <2> QED
    BY <1>1, <1>4, <2>1, <2>2, <2>5, <2>6, <2>7
<1>5. CASE /\ ~dks[d].exists
           /\ dks' = [dks EXCEPT ![d].exists = TRUE]
           /\ conditions' = [conditions EXCEPT ![d] = {}]
           /\ op' = Disturb(op)
           /\ orphans' = orphans \cup Labelled(d)
           /\ UNCHANGED source
  <2>1. Disturbed /\ op'.gone = op.gone
    BY <1>1, <1>2, <1>5, DisturbFields DEF Disturbed
  <2>2. dks' \in [DynaKube -> Spec] /\ dks'[d].exists /\ \A e \in DynaKube : e # d => dks'[e] = dks[e]
    BY <1>1, <1>5 DEF Spec
  <2>3. orphans' \subseteq Namespace
    BY <1>1, <1>5 DEF Labelled
  <2> QED
    BY <1>1, <1>5, <2>1, <2>2, <2>3
<1> QED
  BY <1>3, <1>4, <1>5 DEF EditDynaKube

LEMMA CrashFields ==
    ASSUME TypeInv, Crash
    PROVE  /\ Busy /\ op' = Idle /\ clean' = clean \ {op.dk} /\ op.dk \in tainted'
           /\ orphans' \subseteq Namespace
           /\ faults' \in 0..MaxFaults /\ tainted \subseteq tainted' /\ tainted' \subseteq DynaKube
<1>1. Busy /\ op' = Idle /\ clean' = clean \ {op.dk} /\ orphans' = orphans \cup op.removed
  BY DEF Crash, Changed
<1>2. TRUE \in MayFail /\ Fault(TRUE)
  BY DEF Crash, MayFail
<1>3. faults' \in 0..MaxFaults /\ tainted \subseteq tainted' /\ tainted' \subseteq DynaKube /\ op.dk \in tainted'
  BY <1>1, <1>2, FaultFacts
<1>4. orphans' \subseteq Namespace
  BY <1>1 DEF TypeInv, TypeOK, Reconciliation
<1> QED
  BY <1>1, <1>3, <1>4

LEMMA SubReconcilersFailFields ==
    ASSUME TypeInv, NEW d \in DynaKube, SubReconcilersFail(d)
    PROVE  /\ ~Busy /\ faults' \in 0..MaxFaults /\ clean' = clean \ {d}
           /\ conditions' \in [DynaKube -> SUBSET Condition]
           /\ \A e \in DynaKube : conditions[e] \subseteq conditions'[e]
<1>1. ~Busy /\ clean' = clean \ {d}
  BY DEF SubReconcilersFail, Changed
<1>2. faults' \in 0..MaxFaults
  BY BoundAssumption DEF SubReconcilersFail, TypeInv, TypeOK
<1>3. PICK set \in SUBSET (IF "bootstrap" \in dks[d].on THEN {<<"bootstrap", "feature">>} ELSE {}) :
        conditions' = [conditions EXCEPT ![d] = @ \cup set]
  BY DEF SubReconcilersFail
<1>4. set \subseteq Condition
  BY <1>3 DEF Condition, Feature
<1> QED
  BY <1>1, <1>2, <1>3, <1>4 DEF TypeInv, TypeOK

LEMMA TypeNext == TypeInv /\ [Next]_vars => TypeInv'
<1> SUFFICES ASSUME TypeInv, [Next]_vars PROVE TypeInv'
  OBVIOUS
<1> USE DEF objects
<1>0. /\ dks \in [DynaKube -> Spec] /\ label \in [Namespace -> DynaKube \cup {NoDynaKube}]
      /\ source \in [DynaKube -> [Kind -> Secret]] /\ secret \in [Namespace -> [Kind -> Secret]]
      /\ conditions \in [DynaKube -> SUBSET Condition] /\ op \in Reconciliation
      /\ touched \subseteq Namespace /\ orphans \subseteq Namespace /\ clean \subseteq DynaKube /\ tainted \subseteq DynaKube
      /\ faults \in 0..MaxFaults /\ (Busy => op.dk \in DynaKube)
      /\ Idle \in Reconciliation /\ Idle.pc = "idle"
  BY IdleType DEF TypeInv, TypeOK, Idle
<1>1. ASSUME NEW d \in DynaKube, Begin(d) PROVE TypeInv'
  BY <1>0, <1>1, BeginFields, OperatorTypes DEF Begin
<1>2. ASSUME NEW d \in DynaKube, SubReconcilersFail(d) PROVE TypeInv'
  <2>1. UNCHANGED <<dks, cache, label, source, secret, op, touched, pod, orphans, tainted, edits>>
    BY <1>2 DEF SubReconcilersFail
  <2> QED
    BY <1>0, <1>2, <2>1, SubReconcilersFailFields, OperatorTypes DEF Busy
<1>3. CASE Map
  BY <1>0, <1>3, MapFields, OperatorTypes DEF Map, SameReconcile
<1>4. ASSUME NEW n \in Namespace, UpdateLabel(n) PROVE TypeInv'
  <2>1. UNCHANGED <<dks, cache, source, secret, conditions, touched, pod, edits>>
    BY <1>4 DEF UpdateLabel
  <2>2. label' \in [Namespace -> DynaKube \cup {NoDynaKube}] /\ clean' \subseteq DynaKube
    <3>1. op.new[n] \in DynaKube \cup {NoDynaKube}
      <4>1. op.new \in [Namespace -> DynaKube \cup {NoDynaKube}]
        BY <1>0 DEF Reconciliation
      <4> QED
        BY <4>1
    <3>2. MappingFails \/ (label' = [label EXCEPT ![n] = op.new[n]] /\ clean' = clean \cap {op.dk})
      BY <1>4, UpdateLabelFields
    <3> QED
      BY <1>0, <3>1, <3>2 DEF MappingFails
  <2> QED
    BY <1>0, <1>4, <2>1, <2>2, UpdateLabelFields, OperatorTypes DEF SameReconcile
<1>5. CASE Relabelled
  BY <1>0, <1>5, RelabelledFields, OperatorTypes DEF Relabelled, SameReconcile
<1>6. ASSUME NEW n \in Namespace, DeleteUnmatched(n) PROVE TypeInv'
  <2>1. UNCHANGED <<dks, cache, label, source, conditions, touched, pod, clean, edits>>
    BY <1>6 DEF DeleteUnmatched
  <2> QED
    BY <1>0, <1>6, <2>1, DeleteUnmatchedFields, OperatorTypes DEF SameReconcile
<1>7. CASE Mapped
  BY <1>0, <1>7, MappedFields, OperatorTypes DEF Mapped, SameReconcile
<1>8. ASSUME NEW f \in Feature, Cleanup(f) PROVE TypeInv'
  <2>1. UNCHANGED <<dks, cache, label, conditions, touched, pod, clean, edits>>
    BY <1>8 DEF Cleanup
  <2> QED
    BY <1>0, <1>8, <2>1, CleanupOrphans, CleanupFields, OperatorTypes DEF Kept, SourceShrinks
<1>9. ASSUME NEW f \in Feature, CleanupCerts(f) PROVE TypeInv'
  <2>1. UNCHANGED <<dks, cache, label, conditions, touched, pod, clean, edits>>
    BY <1>9 DEF CleanupCerts
  <2> QED
    BY <1>0, <1>9, <2>1, CleanupOrphans, CleanupCertsFields, OperatorTypes DEF Kept, SourceShrinks
<1>10. ASSUME NEW k \in Kind, WriteSource(k) PROVE TypeInv'
  <2>1. UNCHANGED <<dks, cache, label, secret, conditions, touched, pod, clean, orphans, edits>>
    BY <1>10 DEF WriteSource
  <2> QED
    BY <1>0, <1>10, <2>1, WriteSourceFields, OperatorTypes DEF Kept
<1>11. ASSUME NEW k \in Kind, ListSecrets(k) PROVE TypeInv'
  <2>1. UNCHANGED <<dks, cache, objects, touched, pod, clean, orphans, tainted, edits, faults>>
    BY <1>11 DEF ListSecrets
  <2> QED
    BY <1>0, <1>11, <2>1, ListSecretsFields, OperatorTypes DEF Kept
<1>12. ASSUME NEW k \in Kind, WriteSecrets(k) PROVE TypeInv'
  <2>1. UNCHANGED <<dks, cache, label, source, conditions, touched, pod, clean, orphans, edits>>
    BY <1>12 DEF WriteSecrets
  <2> QED
    BY <1>0, <1>12, <2>1, WriteSecretsFields, OperatorTypes DEF Kept
<1>13. CASE Unmap
  <2>1. touched' = {} /\ UNCHANGED <<dks, cache, objects, pod, clean, orphans, edits>>
    BY <1>13 DEF Unmap
  <2> QED
    BY <1>0, <1>13, <2>1, UnmapFields, OperatorTypes DEF SameReconcile
<1>14. ASSUME NEW n \in Namespace, UnmapLabel(n) PROVE TypeInv'
  <2>1. UNCHANGED <<dks, cache, source, secret, conditions, touched, pod, orphans, edits>>
    BY <1>14 DEF UnmapLabel
  <2>2. label' \in [Namespace -> DynaKube \cup {NoDynaKube}] /\ clean' \subseteq DynaKube
    BY <1>0, <1>14, UnmapLabelFields DEF UnmappingFails
  <2> QED
    BY <1>0, <1>14, <2>1, <2>2, UnmapLabelFields, OperatorTypes DEF SameReconcile
<1>15. CASE UnmapSecrets
  <2>1. UNCHANGED <<dks, cache, label, source, conditions, touched, pod, clean, edits>>
    BY <1>15 DEF UnmapSecrets
  <2> QED
    BY <1>0, <1>15, <2>1, UnmapSecretsFields, OperatorTypes DEF SameReconcile
<1>16. CASE Unmapped
  BY <1>0, <1>16, UnmappedFields, OperatorTypes DEF Unmapped, SameReconcile
<1>17. CASE Finish
  <2>1. touched' = {} /\ UNCHANGED <<dks, cache, label, source, secret, pod, orphans, edits>>
    BY <1>17 DEF Finish
  <2> QED
    BY <1>0, <1>17, <2>1, FinishFields, OperatorTypes
<1>18. CASE Crash
  <2>1. touched' = {} /\ UNCHANGED <<dks, cache, objects, pod, edits>>
    BY <1>18 DEF Crash
  <2> QED
    BY <1>0, <1>18, <2>1, CrashFields, OperatorTypes
<1>19. ASSUME NEW n \in Namespace, EditNamespace(n) PROVE TypeInv'
  <2>1. UNCHANGED <<source, secret, conditions, pod, tainted, faults>> /\ edits' \in 0..MaxEdits
    BY <1>19, BoundAssumption DEF EditNamespace, TypeInv, TypeOK
  <2> QED
    BY <1>0, <1>19, <2>1, EditNamespaceFields DEF TypeInv, TypeOK, Disturbed, Busy
<1>20. ASSUME NEW n \in Namespace, NEW k \in Kind, Replicate(n, k) PROVE TypeInv'
  <2>1. UNCHANGED <<dks, cache, objects, op, touched, clean, orphans, tainted, edits, faults>>
    BY <1>20 DEF Replicate
  <2>2. label[n] \in DynaKube
    BY <1>0, <1>20 DEF Replicate
  <2>3. source[label[n]][k] \in Secret
    BY <1>0, <2>2
  <2>4. pod' \in [ns : Namespace, kind : Kind, held : Secret]
    BY <1>20, <2>3 DEF Replicate
  <2> QED
    BY <1>0, <2>1, <2>4 DEF TypeInv, TypeOK, Busy
<1>21. CASE CacheSync
  BY <1>0, <1>21 DEF CacheSync, TypeInv, TypeOK, Busy
<1>22. CASE CreateReplicated
  <2>1. UNCHANGED <<dks, cache, label, source, conditions, touched, tainted, edits, faults>>
    BY <1>22 DEF CreateReplicated
  <2> QED
    BY <1>0, <1>22, <2>1, CreateReplicatedFields, ConstantTypes DEF TypeInv, TypeOK, Disturbed, Busy
<1>23. ASSUME NEW d \in DynaKube, EditDynaKube(d) PROVE TypeInv'
  <2>1. UNCHANGED <<cache, label, secret, touched, pod, tainted, faults>> /\ edits' \in 0..MaxEdits
    BY <1>23, BoundAssumption DEF EditDynaKube, TypeInv, TypeOK
  <2> QED
    BY <1>0, <1>23, <2>1, EditDynaKubeFields DEF TypeInv, TypeOK, Disturbed, Busy
<1>24. CASE UNCHANGED vars
  BY <1>24 DEF vars, TypeInv, TypeOK, Busy
<1> QED
  BY <1>1, <1>2, <1>3, <1>4, <1>5, <1>6, <1>7, <1>8, <1>9, <1>10, <1>11, <1>12, <1>13, <1>14, <1>15, <1>16, <1>17,
     <1>18, <1>19, <1>20, <1>21, <1>22, <1>23, <1>24 DEF Next, Reconcile

-----------------------------------------------------------------------------
(* The labels.  Of a DynaKube that was reconciled and not disturbed since,  *)
(* they are those that its selectors ask for: every namespace has the label *)
(* that the list of DynaKubes gives it, or, when it has nothing enabled or  *)
(* is gone, none has its own.                                               *)

AllMapped == \A n \in Namespace : label[n] = Updated(dks, n)

LabelsDone(d) ==
    IF dks[d].exists /\ dks[d].on # {} THEN AllMapped ELSE Labelled(d) = {}

\* a reconcile whose DynaKube, selectors and labels nobody else changed
Undisturbed == Busy /\ ~op.disturbed

Generating == op.pc \in {"source", "list", "write"}
Unmapping == op.pc \in {"unmap", "unmapLabels", "unmapSecrets"}

LabelInv ==
    /\ \A d \in clean : LabelsDone(d)
    /\ Busy /\ op.disturbed => op.dk \notin clean
    /\ Undisturbed => op.copy = dks[op.dk]
    /\ Generating \/ op.pc \in {"map", "labels", "unmatched"} => op.copy.exists
    /\ op.pc \in {"labels", "unmatched"} => op.copy.on # {}
    /\ Unmapping => ~op.copy.exists \/ op.copy.on = {}
    /\ Undisturbed /\ op.pc = "labels" =>
          \A n \in Namespace : op.new[n] = Updated(dks, n) /\ (n \in op.todo <=> label[n] # op.new[n])
    /\ Undisturbed /\ ~op.failed /\ op.copy.on # {} /\ (Generating \/ op.pc = "unmatched") => AllMapped
    /\ Undisturbed /\ op.pc \in {"unmapLabels", "unmapSecrets"} => op.todo = Labelled(op.dk)
    /\ Undisturbed /\ ~op.failed /\ op.pc = "finish" => LabelsDone(op.dk)

-----------------------------------------------------------------------------
\* what the labels depend on
LEMMA LabelsStay ==
    ASSUME UNCHANGED <<dks, label>>
    PROVE  /\ \A n \in Namespace : Updated(dks, n)' = Updated(dks, n)
           /\ AllMapped' <=> AllMapped
           /\ \A d \in DynaKube : Labelled(d)' = Labelled(d) /\ (LabelsDone(d)' <=> LabelsDone(d))
<1>1. \A n \in Namespace : Updated(dks, n)' = Updated(dks, n)
  BY DEF Updated, Matching, Flags
<1>2. AllMapped' <=> AllMapped
  BY <1>1 DEF AllMapped
<1>3. \A d \in DynaKube : Labelled(d)' = Labelled(d)
  BY DEF Labelled
<1> QED
  BY <1>1, <1>2, <1>3 DEF LabelsDone

\* a label that is set as the list says stays so, and the others do not change
LEMMA OneLabel ==
    ASSUME TypeInv, NEW n \in Namespace, dks' = dks, label' = [label EXCEPT ![n] = Updated(dks, n)]
    PROVE  \A m \in Namespace : Updated(dks, m)' = Updated(dks, m)
<1>1. ASSUME NEW m \in Namespace PROVE Matching(dks, m)' = Matching(dks, m)
  BY DEF Matching, Flags
<1>2. label \in [Namespace -> DynaKube \cup {NoDynaKube}]
  BY DEF TypeInv, TypeOK
<1>3. ASSUME NEW m \in Namespace, m # n PROVE Updated(dks, m)' = Updated(dks, m)
  BY <1>1, <1>2, <1>3 DEF Updated
<1>4. Updated(dks, n)' = Updated(dks, n)
  <2>1. label'[n] = Updated(dks, n)
    BY <1>2
  <2>2. CASE Matching(dks, n) # {}
    BY <1>1, <2>2 DEF Updated
  <2>3. CASE Matching(dks, n) = {} /\ label[n] \in DynaKube /\ dks[label[n]].exists
    <3>1. label'[n] = NoDynaKube
      BY <2>1, <2>3 DEF Updated
    <3> QED
      BY <1>1, <2>3, <3>1, NamespaceAssumption DEF Updated
  <2>4. CASE Matching(dks, n) = {} /\ ~(label[n] \in DynaKube /\ dks[label[n]].exists)
    <3>1. label'[n] = label[n]
      BY <2>1, <2>4 DEF Updated
    <3> QED
      BY <1>1, <2>4, <3>1 DEF Updated
  <2> QED
    BY <2>2, <2>3, <2>4
<1> QED
  BY <1>3, <1>4

\* after a change of others nothing is undisturbed and nothing is clean
LEMMA DisturbedLabels ==
    ASSUME LabelInv, Disturbed
    PROVE  LabelInv'
<1>1. Undisturbed' = FALSE
  BY DEF Undisturbed, Disturbed, Busy
<1>2. Generating' <=> Generating
  BY DEF Disturbed, Generating
<1>3. Unmapping' <=> Unmapping
  BY DEF Disturbed, Unmapping
<1>4. clean' = {} /\ op'.pc = op.pc /\ op'.copy = op.copy
  BY DEF Disturbed
<1> QED
  BY <1>1, <1>2, <1>3, <1>4 DEF LabelInv

LEMMA IdleLabels ==
    ASSUME LabelInv, op' = Idle, \A d \in clean' : LabelsDone(d)'
    PROVE  LabelInv'
BY DEF LabelInv, Idle, Undisturbed, Busy, Generating, Unmapping

LEMMA SecretsLabels ==
    ASSUME TypeInv, LabelInv, Generating,
           UNCHANGED <<dks, label, clean>>, Kept(op, op'), op.failed => op'.failed,
           \/ op'.pc \in {"source", "list", "write"}
           \/ op'.pc \in {"unmap", "finish"} /\ (op'.pc = "unmap" <=> op.copy.on = {})
    PROVE  LabelInv'
<1>1. Busy /\ Busy'
  BY DEF Generating, Busy
<1>2. Undisturbed' <=> Undisturbed
  BY <1>1 DEF Undisturbed, Kept
<1>3. op'.dk = op.dk /\ op'.copy = op.copy /\ op'.disturbed = op.disturbed
  BY DEF Kept
<1>4. \A d \in clean' : LabelsDone(d)'
  BY LabelsStay DEF LabelInv, TypeInv, TypeOK
<1>5. op.copy.exists /\ (Undisturbed /\ ~op.failed /\ op.copy.on # {} => AllMapped) /\ (Undisturbed => op.copy = dks[op.dk])
  BY DEF LabelInv
<1>6. AllMapped' <=> AllMapped
  BY LabelsStay
<1>7. Undisturbed' /\ ~op'.failed /\ op'.pc = "finish" => LabelsDone(op.dk)'
  BY <1>2, <1>3, <1>5, <1>6 DEF LabelsDone
<1> QED
  BY <1>1, <1>2, <1>3, <1>4, <1>5, <1>6, <1>7 DEF LabelInv, Generating, Unmapping

\* the mapping fails, and what carries the label is used
LEMMA FailedLabels ==
    ASSUME TypeInv, LabelInv, op.pc \in {"map", "labels", "unmatched"},
           UNCHANGED <<dks, label, clean>>, SameReconcile, ToSecrets, op'.failed
    PROVE  LabelInv'
<1>1. Busy /\ Busy'
  BY DEF ToSecrets, Busy
<1>2. Undisturbed' <=> Undisturbed
  BY <1>1 DEF Undisturbed, SameReconcile
<1>3. \A d \in clean' : LabelsDone(d)'
  BY LabelsStay DEF LabelInv, TypeInv, TypeOK
<1> QED
  BY <1>1, <1>2, <1>3 DEF LabelInv, SameReconcile, ToSecrets, Generating, Unmapping

LEMMA BeginLabels ==
    ASSUME TypeInv, LabelInv, NEW d \in DynaKube, Begin(d)
    PROVE  LabelInv'
<1>1. UNCHANGED <<dks, label, clean>>
  BY DEF Begin, objects
<1>2. /\ op'.pc = IF dks[d].exists THEN "map" ELSE "unmap"
      /\ op'.dk = d /\ op'.copy = dks[d] /\ ~op'.failed /\ ~op'.disturbed
  BY BeginFields
<1>3. \A e \in clean' : LabelsDone(e)'
  BY <1>1, LabelsStay DEF LabelInv, TypeInv, TypeOK
<1>4. CASE dks[d].exists
  BY <1>1, <1>2, <1>3, <1>4 DEF LabelInv, Generating, Unmapping, Undisturbed, Busy
<1>5. CASE ~dks[d].exists
  BY <1>1, <1>2, <1>3, <1>5 DEF LabelInv, Generating, Unmapping, Undisturbed, Busy
<1> QED
  BY <1>4, <1>5

LEMMA MapLabels ==
    ASSUME TypeInv, LabelInv, Map
    PROVE  LabelInv'
<1>1. UNCHANGED <<dks, label, clean>>
  BY DEF Map, objects
<1>2. op.pc = "map" /\ Busy /\ SameReconcile /\ op.dk \in DynaKube
  BY MapFields DEF TypeInv
<1>3. \A d \in clean' : LabelsDone(d)'
  BY <1>1, LabelsStay DEF LabelInv, TypeInv, TypeOK
<1>4. CASE op.copy.on = {} /\ op'.pc = "unmap" /\ op'.failed
  BY <1>1, <1>2, <1>3, <1>4 DEF LabelInv, SameReconcile, Generating, Unmapping, Undisturbed, Busy
<1>5. CASE op.copy.on = {} /\ ToSecrets /\ op'.failed = op.failed
  BY <1>1, <1>2, <1>3, <1>5 DEF LabelInv, SameReconcile, ToSecrets, Generating, Unmapping, Undisturbed, Busy
<1>6. CASE ToSecrets /\ op'.failed
  BY <1>1, <1>2, <1>6, FailedLabels
<1>7. CASE /\ op.copy.on # {} /\ op'.pc = "labels"
           /\ \A n \in Namespace :
                /\ op'.new[n] = Updated([dks EXCEPT ![op.dk] = op.copy], n)
                /\ n \in op'.todo <=> op'.new[n] # label[n]
  <2>1. Undisturbed' => \A n \in Namespace : op'.new[n] = Updated(dks, n)' /\ (n \in op'.todo <=> label'[n] # op'.new[n])
    <3>1. SUFFICES ASSUME Undisturbed'
                   PROVE  \A n \in Namespace : op'.new[n] = Updated(dks, n)' /\ (n \in op'.todo <=> label'[n] # op'.new[n])
      OBVIOUS
    <3>2. Undisturbed
      BY <1>2, <3>1 DEF Undisturbed, SameReconcile
    <3>3. op.copy = dks[op.dk]
      BY <3>2 DEF LabelInv
    <3>4. [dks EXCEPT ![op.dk] = op.copy] = dks
      BY <1>2, <3>3 DEF TypeInv, TypeOK
    <3> QED
      BY <1>1, <1>7, <3>4, LabelsStay
  <2> QED
    BY <1>1, <1>2, <1>3, <1>7, <2>1 DEF LabelInv, SameReconcile, Generating, Unmapping, Undisturbed, Busy
<1> QED
  BY <1>4, <1>5, <1>6, <1>7, MapFields

LEMMA UpdateLabelLabels ==
    ASSUME TypeInv, LabelInv, NEW n \in Namespace, UpdateLabel(n)
    PROVE  LabelInv'
<1>1. dks' = dks
  BY DEF UpdateLabel
<1>2. op.pc = "labels" /\ Busy /\ n \in op.todo /\ SameReconcile /\ op.dk \in DynaKube
  BY UpdateLabelFields DEF TypeInv
<1>3. CASE MappingFails
  BY <1>1, <1>2, <1>3, FailedLabels DEF MappingFails
<1>4. CASE /\ op'.pc = "labels" /\ op'.new = op.new /\ op'.todo = op.todo \ {n}
           /\ label' = [label EXCEPT ![n] = op.new[n]]
           /\ clean' = clean \cap {op.dk}
  <2>1. label \in [Namespace -> DynaKube \cup {NoDynaKube}] /\ clean \subseteq DynaKube
    BY DEF TypeInv, TypeOK
  \* a DynaKube that is clean already has no label to change
  <2>2. op.dk \notin clean
    <3>1. SUFFICES ASSUME op.dk \in clean PROVE FALSE
      OBVIOUS
    <3>2. Undisturbed /\ LabelsDone(op.dk) /\ op.copy = dks[op.dk] /\ op.copy.exists /\ op.copy.on # {}
      BY <1>2, <3>1 DEF LabelInv, Undisturbed
    <3>3. AllMapped
      BY <3>2 DEF LabelsDone
    <3>4. op.new[n] = Updated(dks, n) /\ label[n] # op.new[n]
      BY <1>2, <3>2 DEF LabelInv
    <3> QED
      BY <3>3, <3>4 DEF AllMapped
  <2>3. clean' = {}
    BY <1>4, <2>2
  <2>4. ASSUME Undisturbed', NEW m \in Namespace
        PROVE  op'.new[m] = Updated(dks, m)' /\ (m \in op'.todo <=> label'[m] # op'.new[m])
    <3>1. Undisturbed
      BY <1>2, <2>4 DEF Undisturbed, SameReconcile
    <3>2. \A i \in Namespace : op.new[i] = Updated(dks, i) /\ (i \in op.todo <=> label[i] # op.new[i])
      BY <1>2, <3>1 DEF LabelInv
    <3>3. label' = [label EXCEPT ![n] = Updated(dks, n)]
      BY <1>4, <3>2
    <3>4. Updated(dks, m)' = Updated(dks, m)
      BY <1>1, <3>3, OneLabel
    <3> QED
      BY <1>4, <2>1, <3>2, <3>4
  <2> QED
    BY <1>1, <1>2, <1>4, <2>3, <2>4 DEF LabelInv, SameReconcile, Generating, Unmapping, Undisturbed, Busy
<1> QED
  BY <1>3, <1>4, UpdateLabelFields

LEMMA RelabelledLabels ==
    ASSUME TypeInv, LabelInv, Relabelled
    PROVE  LabelInv'
<1>1. UNCHANGED <<dks, label, clean>>
  BY DEF Relabelled, objects
<1>2. op.pc = "labels" /\ op.todo = {} /\ Busy /\ SameReconcile /\ op'.failed = op.failed /\ op'.pc = "unmatched"
  BY RelabelledFields
<1>3. \A d \in clean' : LabelsDone(d)'
  BY <1>1, LabelsStay DEF LabelInv, TypeInv, TypeOK
<1>4. Undisturbed => AllMapped
  BY <1>2 DEF LabelInv, AllMapped
<1>5. AllMapped' <=> AllMapped
  BY <1>1, LabelsStay
<1> QED
  BY <1>1, <1>2, <1>3, <1>4, <1>5 DEF LabelInv, SameReconcile, Generating, Unmapping, Undisturbed, Busy

LEMMA UnmatchedLabels ==
    ASSUME TypeInv, LabelInv, op.pc = "unmatched", UNCHANGED <<dks, label, clean>>, SameReconcile,
           op'.pc = "unmatched" \/ ToSecrets, op'.failed = op.failed
    PROVE  LabelInv'
<1>1. \A d \in clean' : LabelsDone(d)'
  BY LabelsStay DEF LabelInv, TypeInv, TypeOK
<1>2. AllMapped' <=> AllMapped
  BY LabelsStay
<1> QED
  BY <1>1, <1>2 DEF LabelInv, SameReconcile, ToSecrets, Generating, Unmapping, Undisturbed, Busy

\* the unmapping ends before it is done
LEMMA FailedUnmapping ==
    ASSUME TypeInv, LabelInv, Busy, UnmappingFails, dks' = dks, SameReconcile
    PROVE  LabelInv'
<1>1. UNCHANGED <<dks, label, clean>>
  BY DEF UnmappingFails
<1>2. \A d \in clean' : LabelsDone(d)'
  BY <1>1, LabelsStay DEF LabelInv, TypeInv, TypeOK
<1> QED
  BY <1>1, <1>2 DEF LabelInv, UnmappingFails, SameReconcile, Generating, Unmapping, Undisturbed, Busy

LEMMA UnmapLabels ==
    ASSUME TypeInv, LabelInv, Unmap
    PROVE  LabelInv'
<1>1. UNCHANGED <<dks, label, clean>>
  BY DEF Unmap, objects
<1>2. op.pc = "unmap" /\ Busy /\ SameReconcile /\ op.dk \in DynaKube
  BY UnmapFields DEF TypeInv
<1>3. CASE UnmappingFails
  BY <1>1, <1>2, <1>3, FailedUnmapping
<1>4. CASE op'.pc = "unmapLabels" /\ op'.failed = op.failed /\ op'.todo = Labelled(op.dk)
  <2>1. \A d \in clean' : LabelsDone(d)'
    BY <1>1, LabelsStay DEF LabelInv, TypeInv, TypeOK
  <2>2. Labelled(op.dk)' = Labelled(op.dk)
    BY <1>1, <1>2, LabelsStay DEF SameReconcile
  <2> QED
    BY <1>1, <1>2, <1>4, <2>1, <2>2 DEF LabelInv, SameReconcile, Generating, Unmapping, Undisturbed, Busy
<1> QED
  BY <1>3, <1>4, UnmapFields

LEMMA UnmapLabelLabels ==
    ASSUME TypeInv, LabelInv, NEW n \in Namespace, UnmapLabel(n)
    PROVE  LabelInv'
<1>1. dks' = dks
  BY DEF UnmapLabel
<1>2. op.pc = "unmapLabels" /\ Busy /\ n \in op.todo /\ SameReconcile /\ op.dk \in DynaKube
  BY UnmapLabelFields DEF TypeInv
<1>3. CASE UnmappingFails
  BY <1>1, <1>2, <1>3, FailedUnmapping
<1>4. CASE /\ op'.pc = "unmapSecrets" /\ op'.todo = op.todo \ {n} /\ op'.failed = op.failed
           /\ label' = [label EXCEPT ![n] = NoDynaKube]
           /\ clean' = clean \cap {op.dk}
  <2>1. label \in [Namespace -> DynaKube \cup {NoDynaKube}]
    BY DEF TypeInv, TypeOK
  <2>2. op.dk \notin clean
    <3>1. SUFFICES ASSUME op.dk \in clean PROVE FALSE
      OBVIOUS
    <3>2. Undisturbed /\ LabelsDone(op.dk) /\ op.copy = dks[op.dk] /\ (~op.copy.exists \/ op.copy.on = {})
      BY <1>2, <3>1 DEF LabelInv, Undisturbed, Unmapping
    <3>3. Labelled(op.dk) = {}
      BY <3>2 DEF LabelsDone
    <3>4. op.todo = Labelled(op.dk)
      BY <1>2, <3>2 DEF LabelInv
    <3> QED
      BY <1>2, <3>3, <3>4
  <2>3. clean' = {}
    BY <1>4, <2>2
  <2>4. Undisturbed' => op'.todo = Labelled(op.dk)'
    <3>1. SUFFICES ASSUME Undisturbed' PROVE op'.todo = Labelled(op.dk)'
      OBVIOUS
    <3>2. Undisturbed
      BY <1>2, <3>1 DEF Undisturbed, SameReconcile
    <3>3. op.todo = Labelled(op.dk)
      BY <1>2, <3>2 DEF LabelInv
    <3>4. op'.dk = op.dk /\ op.dk # NoDynaKube
      BY <1>2, NamespaceAssumption DEF SameReconcile
    <3>5. \A m \in Namespace : label'[m] = op.dk <=> label[m] = op.dk /\ m # n
      BY <1>4, <2>1, <3>4
    <3> QED
      BY <1>4, <3>3, <3>4, <3>5 DEF Labelled
  <2> QED
    BY <1>1, <1>2, <1>4, <2>3, <2>4 DEF LabelInv, SameReconcile, Generating, Unmapping, Undisturbed, Busy
<1> QED
  BY <1>3, <1>4, UnmapLabelFields

LEMMA UnmapSecretsLabels ==
    ASSUME TypeInv, LabelInv, UnmapSecrets
    PROVE  LabelInv'
<1>1. UNCHANGED <<dks, label, clean>>
  BY DEF UnmapSecrets
<1>2. op.pc = "unmapSecrets" /\ Busy /\ SameReconcile /\ op.dk \in DynaKube
  BY UnmapSecretsFields DEF TypeInv
<1>3. CASE UnmappingFails
  BY <1>1, <1>2, <1>3, FailedUnmapping
<1>4. CASE op'.pc = "unmapLabels" /\ op'.todo = op.todo /\ op'.failed = op.failed
  <2>1. \A d \in clean' : LabelsDone(d)'
    BY <1>1, LabelsStay DEF LabelInv, TypeInv, TypeOK
  <2>2. Labelled(op.dk)' = Labelled(op.dk)
    BY <1>1, <1>2, LabelsStay DEF SameReconcile
  <2> QED
    BY <1>1, <1>2, <1>4, <2>1, <2>2 DEF LabelInv, SameReconcile, Generating, Unmapping, Undisturbed, Busy
<1> QED
  BY <1>3, <1>4, UnmapSecretsFields

LEMMA UnmappedLabels ==
    ASSUME TypeInv, LabelInv, Unmapped
    PROVE  LabelInv'
<1>1. UNCHANGED <<dks, label, clean>>
  BY DEF Unmapped, objects
<1>2. /\ op.pc = "unmapLabels" /\ op.todo = {} /\ Busy /\ op.dk \in DynaKube
      /\ SameReconcile /\ op'.pc = "finish" /\ op'.failed = op.failed
  BY UnmappedFields DEF TypeInv
<1>3. \A d \in clean' : LabelsDone(d)'
  BY <1>1, LabelsStay DEF LabelInv, TypeInv, TypeOK
<1>4. Undisturbed' => LabelsDone(op.dk)'
  <2>1. SUFFICES ASSUME Undisturbed' PROVE LabelsDone(op.dk)'
    OBVIOUS
  <2>2. Undisturbed
    BY <1>2, <2>1 DEF Undisturbed, SameReconcile
  <2>3. op.copy = dks[op.dk] /\ (~op.copy.exists \/ op.copy.on = {}) /\ op.todo = Labelled(op.dk)
    BY <1>2, <2>2 DEF LabelInv, Unmapping
  <2>4. LabelsDone(op.dk)
    BY <1>2, <2>3 DEF LabelsDone
  <2> QED
    BY <1>1, <1>2, <2>4, LabelsStay DEF SameReconcile
<1> QED
  BY <1>1, <1>2, <1>3, <1>4 DEF LabelInv, SameReconcile, Generating, Unmapping, Undisturbed, Busy

LEMMA FinishLabels ==
    ASSUME TypeInv, LabelInv, Finish
    PROVE  LabelInv'
<1>1. UNCHANGED <<dks, label>>
  BY DEF Finish
<1>2. /\ op.pc = "finish" /\ Busy /\ op' = Idle /\ op.dk \in DynaKube
      /\ clean' \subseteq clean \cup {op.dk} /\ clean' \subseteq DynaKube
      /\ op.dk \in clean' => ~op.failed /\ ~op.disturbed
  BY FinishFields DEF TypeInv
<1>3. ASSUME NEW d \in clean' PROVE LabelsDone(d)'
  <2>1. LabelsDone(d)
    <3>1. CASE d \in clean
      BY <3>1 DEF LabelInv
    <3>2. CASE d = op.dk
      BY <1>2, <1>3, <3>2 DEF LabelInv, Undisturbed
    <3> QED
      BY <1>2, <1>3, <3>1, <3>2
  <2> QED
    BY <1>1, <1>2, <1>3, <2>1, LabelsStay
<1> QED
  BY <1>2, <1>3, IdleLabels

\* steps that neither the labels nor the reconcile know of
LEMMA OtherLabels ==
    ASSUME TypeInv, LabelInv, UNCHANGED <<dks, label, op>>, clean' \subseteq clean
    PROVE  LabelInv'
<1>1. \A d \in clean' : LabelsDone(d)'
  BY LabelsStay DEF LabelInv, TypeInv, TypeOK
<1>2. \A n \in Namespace : Updated(dks, n)' = Updated(dks, n)
  BY LabelsStay
<1>3. AllMapped' <=> AllMapped
  BY LabelsStay
<1>4. Labelled(op.dk)' = Labelled(op.dk)
  BY DEF Labelled
<1>5. Busy => (LabelsDone(op.dk)' <=> LabelsDone(op.dk))
  BY LabelsStay DEF TypeInv
<1>6. (Undisturbed' <=> Undisturbed) /\ (Busy' <=> Busy) /\ (Generating' <=> Generating) /\ (Unmapping' <=> Unmapping)
  BY DEF Undisturbed, Busy, Generating, Unmapping
<1>7. Undisturbed => Busy
  BY DEF Undisturbed
<1> QED
  BY <1>1, <1>2, <1>3, <1>4, <1>5, <1>6, <1>7 DEF LabelInv

LEMMA LabelInit == Init => LabelInv
BY DEF Init, LabelInv, Idle, Undisturbed, Busy, Generating, Unmapping

LEMMA LabelNext == TypeInv /\ LabelInv /\ [Next]_vars => LabelInv'
<1> SUFFICES ASSUME TypeInv, LabelInv, [Next]_vars PROVE LabelInv'
  OBVIOUS
<1> USE DEF objects
<1>1. ASSUME NEW d \in DynaKube, Begin(d) PROVE LabelInv'
  BY <1>1, BeginLabels
<1>2. ASSUME NEW d \in DynaKube, SubReconcilersFail(d) PROVE LabelInv'
  BY <1>2, SubReconcilersFailFields, OtherLabels DEF SubReconcilersFail
<1>3. CASE Map
  BY <1>3, MapLabels
<1>4. ASSUME NEW n \in Namespace, UpdateLabel(n) PROVE LabelInv'
  BY <1>4, UpdateLabelLabels
<1>5. CASE Relabelled
  BY <1>5, RelabelledLabels
<1>6. ASSUME NEW n \in Namespace, DeleteUnmatched(n) PROVE LabelInv'
  <2>1. UNCHANGED <<dks, label, clean>>
    BY <1>6 DEF DeleteUnmatched
  <2> QED
    BY <1>6, <2>1, DeleteUnmatchedFields, FailedLabels, UnmatchedLabels DEF MappingFails
<1>7. CASE Mapped
  <2>1. UNCHANGED <<dks, label, clean>>
    BY <1>7 DEF Mapped
  <2> QED
    BY <1>7, <2>1, MappedFields, UnmatchedLabels
<1>8. ASSUME NEW f \in Feature, Cleanup(f) PROVE LabelInv'
  <2>1. UNCHANGED <<dks, label, clean>>
    BY <1>8 DEF Cleanup
  <2>2. /\ Generating /\ Kept(op, op') /\ (op.failed => op'.failed)
        /\ \/ op'.pc \in {"source", "list", "write"}
           \/ op'.pc \in {"unmap", "finish"} /\ (op'.pc = "unmap" <=> op.copy.on = {})
    BY <1>8, CleanupFields DEF GoesOn, Generating, Feature
  <2> QED
    BY <2>1, <2>2, SecretsLabels
<1>9. ASSUME NEW f \in Feature, CleanupCerts(f) PROVE LabelInv'
  <2>1. UNCHANGED <<dks, label, clean>>
    BY <1>9 DEF CleanupCerts
  <2>2. /\ Generating /\ Kept(op, op') /\ (op.failed => op'.failed)
        /\ \/ op'.pc \in {"source", "list", "write"}
           \/ op'.pc \in {"unmap", "finish"} /\ (op'.pc = "unmap" <=> op.copy.on = {})
    BY <1>9, CleanupCertsFields DEF GoesOn, Generating, Feature
  <2> QED
    BY <2>1, <2>2, SecretsLabels
<1>10. ASSUME NEW k \in Kind, WriteSource(k) PROVE LabelInv'
  <2>1. UNCHANGED <<dks, label, clean>>
    BY <1>10 DEF WriteSource
  <2>2. /\ Generating /\ Kept(op, op') /\ (op.failed => op'.failed)
        /\ \/ op'.pc \in {"source", "list", "write"}
           \/ op'.pc \in {"unmap", "finish"} /\ (op'.pc = "unmap" <=> op.copy.on = {})
    BY <1>10, WriteSourceFields DEF GoesOn, ErrorEnds, Generating, Feature, Kind
  <2> QED
    BY <2>1, <2>2, SecretsLabels
<1>11. ASSUME NEW k \in Kind, ListSecrets(k) PROVE LabelInv'
  <2>1. UNCHANGED <<dks, label, clean>>
    BY <1>11 DEF ListSecrets
  <2>2. Generating /\ Kept(op, op') /\ (op.failed => op'.failed) /\ op'.pc \in {"source", "list", "write"}
    BY <1>11, ListSecretsFields DEF Generating
  <2> QED
    BY <2>1, <2>2, SecretsLabels
<1>12. ASSUME NEW k \in Kind, WriteSecrets(k) PROVE LabelInv'
  <2>1. UNCHANGED <<dks, label, clean>>
    BY <1>12 DEF WriteSecrets
  <2>0. /\ op.pc = "write" /\ Kept(op, op') /\ (op.failed => op'.failed)
        /\ GoesOn(op, op', ErrorEnds(k)) \/ GoesOn(op, op', k)
    BY <1>12, WriteSecretsFields
  <2>2. /\ Generating /\ Kept(op, op') /\ (op.failed => op'.failed)
        /\ \/ op'.pc \in {"source", "list", "write"}
           \/ op'.pc \in {"unmap", "finish"} /\ (op'.pc = "unmap" <=> op.copy.on = {})
    BY <2>0 DEF GoesOn, ErrorEnds, Generating, Feature, Kind
  <2> QED
    BY <2>1, <2>2, SecretsLabels
<1>13. CASE Unmap
  BY <1>13, UnmapLabels
<1>14. ASSUME NEW n \in Namespace, UnmapLabel(n) PROVE LabelInv'
  BY <1>14, UnmapLabelLabels
<1>15. CASE UnmapSecrets
  BY <1>15, UnmapSecretsLabels
<1>16. CASE Unmapped
  BY <1>16, UnmappedLabels
<1>17. CASE Finish
  BY <1>17, FinishLabels
<1>18. CASE Crash
  <2>1. UNCHANGED <<dks, label>> /\ op' = Idle /\ clean' \subseteq clean
    BY <1>18, CrashFields DEF Crash
  <2>2. \A d \in clean' : LabelsDone(d)'
    BY <2>1, LabelsStay DEF LabelInv, TypeInv, TypeOK
  <2> QED
    BY <2>1, <2>2, IdleLabels
<1>19. ASSUME NEW n \in Namespace, EditNamespace(n) PROVE LabelInv'
  BY <1>19, EditNamespaceFields, DisturbedLabels
<1>20. ASSUME NEW n \in Namespace, NEW k \in Kind, Replicate(n, k) PROVE LabelInv'
  BY <1>20, OtherLabels DEF Replicate
<1>21. CASE CacheSync
  BY <1>21, OtherLabels DEF CacheSync
<1>22. CASE CreateReplicated
  <2>1. UNCHANGED <<dks, label>>
    BY <1>22 DEF CreateReplicated
  <2> QED
    BY <1>22, <2>1, CreateReplicatedFields, DisturbedLabels, OtherLabels
<1>23. ASSUME NEW d \in DynaKube, EditDynaKube(d) PROVE LabelInv'
  BY <1>23, EditDynaKubeFields, DisturbedLabels
<1>24. CASE UNCHANGED vars
  BY <1>24, OtherLabels DEF vars
<1> QED
  BY <1>1, <1>2, <1>3, <1>4, <1>5, <1>6, <1>7, <1>8, <1>9, <1>10, <1>11, <1>12, <1>13, <1>14, <1>15, <1>16, <1>17,
     <1>18, <1>19, <1>20, <1>21, <1>22, <1>23, <1>24 DEF Next, Reconcile

LEMMA LabelsFollow == LabelInv /\ TypeInv => LabelsAgree
<1> SUFFICES ASSUME LabelInv, TypeInv, Settled, NEW n \in Namespace PROVE label[n] = Owner(n)
  BY DEF LabelsAgree
<1>1. \A d \in DynaKube : LabelsDone(d)
  BY DEF Settled, LabelInv
<1>2. CASE Matching(dks, n) # {}
  <2>1. PICK d \in DynaKube : dks[d].exists /\ dks[d].on # {}
    BY <1>2 DEF Matching, Flags
  <2>2. label[n] = Updated(dks, n)
    BY <1>1, <2>1 DEF LabelsDone, AllMapped
  <2> QED
    BY <1>2, <2>2 DEF Updated, Owner
<1>3. CASE Matching(dks, n) = {}
  <2>1. SUFFICES ASSUME label[n] # NoDynaKube PROVE FALSE
    BY <1>3 DEF Owner
  <2>2. label[n] \in DynaKube /\ n \in Labelled(label[n])
    BY <2>1 DEF TypeInv, TypeOK, Labelled
  <2>3. dks[label[n]].exists /\ AllMapped
    BY <1>1, <2>2 DEF LabelsDone
  <2>4. Updated(dks, n) = NoDynaKube
    BY <1>3, <2>2, <2>3 DEF Updated
  <2> QED
    BY <2>1, <2>3, <2>4 DEF AllMapped
<1> QED
  BY <1>2, <1>3

-----------------------------------------------------------------------------
(* The secrets in the operator's namespace.  That they are cleaned up needs *)
(* a condition, so where nothing failed a condition tells of each of them.  *)

Wanted(d, k) ==
    IF /\ dks[d].exists
       /\ k[1] \in dks[d].on \/ (k[1] = "bootstrap" /\ d \in HostMonitoring)
       /\ k[2] = "certs" => dks[d].certs
    THEN Content(d, dks[d]) ELSE NoSecret

SourcesDone(d) == \A k \in Kind : source[d][k] = Wanted(d, k) \/ Silent(d, k)
NoSources(d) == \A k \in Kind : source[d][k] = NoSecret

\* the conditions that make a clean-up of a feature due, if there ever will be one
Tells(conds, d, f) ==
    \/ f = "bootstrap" /\ d \in HostMonitoring
    \/ IF f = "bootstrap" THEN {<<f, "feature">>, <<f, "config">>} \cap conds # {} ELSE <<f, "feature">> \in conds

\* there is a secret, and conditions tell of it
ConfigTold(conds, d, f) ==
    source[d][<<f, "config">>] # NoSecret \/ source[d][<<f, "certs">>] # NoSecret => Tells(conds, d, f)
\* as far as no failure keeps them back
Heard(conds, f) == Tells(conds, op.dk, f) \/ op.dk \in tainted
CertsTold(conds, d, f) ==
    source[d][<<f, "certs">>] # NoSecret => <<f, "certs">> \in conds

\* the condition of a secret follows its source, but for the steps in between
Writing(k) == op.pc \in {"list", "write"} /\ op.kind = k

\* the order in which the secrets are generated
Before(k, j) ==
    \/ k[1] = "bootstrap" /\ j[1] = "otlp"
    \/ k[1] = j[1] /\ k[2] = "config" /\ j[2] = "certs"

Reached(k) ==
    \/ op.pc = "finish" \/ Unmapping
    \/ Generating /\ Before(k, op.kind)
    \/ Writing(k)

SourceInv ==
    /\ \A d \in DynaKube : ~dks[d].exists => NoSources(d)
    /\ Busy /\ op.copy.exists /\ ~op.gone => dks[op.dk].exists
    /\ Busy /\ (op.gone \/ ~op.copy.exists) => NoSources(op.dk)
    /\ Undisturbed => ~op.gone
    /\ \A k \in Kind : Writing(k) => (k[2] = "config" => Needed(k[1])) /\ (k[2] = "certs" => op.copy.certs)
    /\ \A f \in Feature : Generating /\ op.kind = <<f, "certs">> => Needed(f) /\ Heard(op.conds, f)
    /\ \A d \in DynaKube \ tainted, f \in Feature :
          ~(Busy /\ op.dk = d) => ConfigTold(conditions[d], d, f) /\ CertsTold(conditions[d], d, f)
    /\ Busy /\ op.dk \notin tainted => \A f \in Feature :
          /\ Writing(<<f, "config">>) \/ ConfigTold(op.conds, op.dk, f)
          /\ Writing(<<f, "certs">>) \/ CertsTold(op.conds, op.dk, f)
    /\ Undisturbed /\ ~op.failed /\ op.dk \notin tainted =>
          \A k \in Kind : Reached(k) => source[op.dk][k] = Wanted(op.dk, k) \/ Silent(op.dk, k)
    /\ \A d \in clean \ tainted : SourcesDone(d)

-----------------------------------------------------------------------------
\* the mapping goes on, hands over to the secrets, or the unmapping goes on
LEMMA QuietSources ==
    ASSUME TypeInv, SourceInv, Busy, UNCHANGED <<dks, source, conditions>>, clean' \subseteq clean, tainted \subseteq tainted',
           SameReconcile, op'.conds = op.conds, op.failed => op'.failed, op.pc \notin {"list", "write"},
           \/ op'.pc \in {"labels", "unmatched"}
           \/ ToSecrets
           \/ op'.pc \in {"unmap", "unmapLabels", "unmapSecrets", "finish"} /\ (Unmapping \/ op'.failed)
    PROVE  SourceInv'
<1>1. Busy' /\ (Undisturbed' <=> Undisturbed) /\ op'.dk = op.dk /\ op'.copy = op.copy /\ op'.gone = op.gone
  BY DEF ToSecrets, SameReconcile, Busy, Undisturbed
<1>2. \A k \in Kind : ~Writing(k) /\ ~Writing(k)'
  BY DEF Writing, ToSecrets
<1>3. \A f \in Feature : ~(Generating' /\ op'.kind = <<f, "certs">>)
  BY DEF Generating, ToSecrets, FirstKind
<1>4. \A k \in Kind : Reached(k)' => Reached(k) \/ op'.failed
  BY <1>2 DEF Reached, Before, Generating, Unmapping, ToSecrets, FirstKind
<1>5. \A d \in DynaKube, k \in Kind : Wanted(d, k)' = Wanted(d, k) /\ (Silent(d, k)' <=> Silent(d, k))
  BY DEF Wanted, Silent
<1>6. \A d \in DynaKube : (NoSources(d)' <=> NoSources(d)) /\ (SourcesDone(d)' <=> SourcesDone(d))
  BY <1>5 DEF NoSources, SourcesDone
<1>7. \A d \in DynaKube : ~dks'[d].exists => NoSources(d)'
  BY <1>6 DEF SourceInv
<1>8. op.dk \in DynaKube
  BY DEF TypeInv
<1>9. \A d \in DynaKube \ tainted', f \in Feature :
        ~(Busy' /\ op'.dk = d) => ConfigTold(conditions[d], d, f)' /\ CertsTold(conditions[d], d, f)'
  BY <1>1 DEF SourceInv, ConfigTold, CertsTold
<1>10. op'.dk \notin tainted' => \A f \in Feature : ConfigTold(op.conds, op.dk, f)' /\ CertsTold(op.conds, op.dk, f)'
  BY <1>1, <1>2, KindFacts DEF SourceInv, ConfigTold, CertsTold
<1>11. \A k \in Kind : Undisturbed' /\ ~op'.failed /\ op'.dk \notin tainted' /\ Reached(k)' => source'[op'.dk][k] = Wanted(op.dk, k)' \/ Silent(op.dk, k)'
  BY <1>1, <1>4, <1>5, <1>8 DEF SourceInv
<1>12. \A d \in clean' \ tainted' : SourcesDone(d)'
  BY <1>6 DEF SourceInv, TypeInv, TypeOK
<1> QED
  BY <1>1, <1>2, <1>3, <1>6, <1>7, <1>8, <1>9, <1>10, <1>11, <1>12 DEF SourceInv

\* steps that neither the sources nor the reconcile know of
LEMMA OtherSources ==
    ASSUME TypeInv, SourceInv, UNCHANGED <<dks, source, op, tainted>>, clean' \subseteq clean,
           conditions' \in [DynaKube -> SUBSET Condition], \A d \in DynaKube : conditions[d] \subseteq conditions'[d]
    PROVE  SourceInv'
<1>1. /\ Busy' <=> Busy
      /\ Undisturbed' <=> Undisturbed
      /\ Generating' <=> Generating
  BY DEF Busy, Undisturbed, Generating
<1>2. \A k \in Kind : (Writing(k)' <=> Writing(k)) /\ (Reached(k)' <=> Reached(k))
  BY DEF Writing, Reached, Generating, Unmapping
<1>3. \A f \in Feature : Needed(f)' <=> Needed(f)
  BY DEF Needed
<1>4. \A d \in DynaKube, k \in Kind : Wanted(d, k)' = Wanted(d, k) /\ (Silent(d, k)' <=> Silent(d, k))
  BY DEF Wanted, Silent
<1>5. \A d \in DynaKube : (NoSources(d)' <=> NoSources(d)) /\ (SourcesDone(d)' <=> SourcesDone(d))
  BY <1>4 DEF NoSources, SourcesDone
<1>6. \A d \in DynaKube \ tainted, f \in Feature :
        ~(Busy' /\ op'.dk = d) => ConfigTold(conditions[d], d, f)' /\ CertsTold(conditions[d], d, f)'
  BY DEF SourceInv, ConfigTold, CertsTold, Tells, Busy
<1>7. \A f \in Feature : /\ ConfigTold(op.conds, op.dk, f)' <=> ConfigTold(op.conds, op.dk, f)
                         /\ CertsTold(op.conds, op.dk, f)' <=> CertsTold(op.conds, op.dk, f)
                         /\ Heard(op.conds, f)' <=> Heard(op.conds, f)
  BY DEF ConfigTold, CertsTold, Tells, Heard
<1>8. Busy => op.dk \in DynaKube
  BY DEF TypeInv
<1>9. clean \subseteq DynaKube
  BY DEF TypeInv, TypeOK
<1>10. Undisturbed => Busy
  BY DEF Undisturbed
<1>11. \A k \in Kind : k[1] \in Feature
  BY KindFacts
<1>12. (NoSources(op.dk)' <=> NoSources(op.dk)) /\ \A k \in Kind : Wanted(op.dk, k)' = Wanted(op.dk, k) /\ (Silent(op.dk, k)' <=> Silent(op.dk, k))
  BY DEF NoSources, Wanted, Silent
<1>13. \A f \in Feature : /\ Writing(<<f, "config">>)' <=> Writing(<<f, "config">>)
                          /\ Writing(<<f, "certs">>)' <=> Writing(<<f, "certs">>)
  BY <1>2, KindFacts
<1>14. \A d \in DynaKube : ~dks'[d].exists => NoSources(d)'
  BY <1>5 DEF SourceInv
<1>15. \A k \in Kind : Writing(k)' => (k[2] = "config" => Needed(k[1])') /\ (k[2] = "certs" => op'.copy.certs)
  BY <1>2, <1>3, <1>11 DEF SourceInv
<1>16. \A f \in Feature : Generating' /\ op'.kind = <<f, "certs">> => Needed(f)' /\ Heard(op.conds, f)'
  BY <1>1, <1>3, <1>7 DEF SourceInv
<1>17. Busy' /\ op'.dk \notin tainted' => \A f \in Feature :
         /\ Writing(<<f, "config">>)' \/ ConfigTold(op.conds, op.dk, f)'
         /\ Writing(<<f, "certs">>)' \/ CertsTold(op.conds, op.dk, f)'
  BY <1>1, <1>7, <1>13 DEF SourceInv
<1>18. Undisturbed' /\ ~op'.failed /\ op'.dk \notin tainted' =>
         \A k \in Kind : Reached(k)' => source'[op'.dk][k] = Wanted(op.dk, k)' \/ Silent(op.dk, k)'
  BY <1>1, <1>2, <1>12 DEF SourceInv
<1>19. \A d \in clean' \ tainted' : SourcesDone(d)'
  BY <1>5, <1>9 DEF SourceInv
<1> QED
  BY <1>1, <1>6, <1>12, <1>14, <1>15, <1>16, <1>17, <1>18, <1>19 DEF SourceInv

\* after a change of others
LEMMA DisturbedSources ==
    ASSUME TypeInv, SourceInv, Disturbed, op'.gone = op.gone, UNCHANGED <<source, conditions, tainted>>,
           \A d \in DynaKube : dks'[d].exists = dks[d].exists
    PROVE  SourceInv'
<1>1. /\ Busy' <=> Busy
      /\ Generating' <=> Generating
      /\ Undisturbed' = FALSE
      /\ clean' = {}
      /\ op'.dk = op.dk /\ op'.copy = op.copy /\ op'.conds = op.conds /\ op'.kind = op.kind
  BY DEF Disturbed, Busy, Generating, Undisturbed
<1>2. \A k \in Kind : Writing(k)' <=> Writing(k)
  BY DEF Disturbed, Writing
<1>3. \A f \in Feature : (Needed(f)' <=> Needed(f)) /\ (Heard(op.conds, f)' <=> Heard(op.conds, f))
  BY <1>1 DEF Needed, Tells, Heard
<1>4. \A d \in DynaKube : NoSources(d)' <=> NoSources(d)
  BY DEF NoSources
<1>5. NoSources(op.dk)' <=> NoSources(op.dk)
  BY <1>1 DEF NoSources
<1>6. \A d \in DynaKube, f \in Feature : /\ ConfigTold(conditions[d], d, f)' <=> ConfigTold(conditions[d], d, f)
                                         /\ CertsTold(conditions[d], d, f)' <=> CertsTold(conditions[d], d, f)
  BY DEF ConfigTold, CertsTold, Tells, Heard
<1>7. \A f \in Feature : /\ ConfigTold(op.conds, op.dk, f)' <=> ConfigTold(op.conds, op.dk, f)
                         /\ CertsTold(op.conds, op.dk, f)' <=> CertsTold(op.conds, op.dk, f)
  BY <1>1 DEF ConfigTold, CertsTold, Tells, Heard
<1>8. \A f \in Feature : /\ Writing(<<f, "config">>)' <=> Writing(<<f, "config">>)
                         /\ Writing(<<f, "certs">>)' <=> Writing(<<f, "certs">>)
  BY <1>2, KindFacts
<1>9. \A k \in Kind : Writing(k)' => (k[2] = "config" => Needed(k[1])') /\ (k[2] = "certs" => op'.copy.certs)
  BY <1>1, <1>2, <1>3, KindFacts DEF SourceInv
<1>10. \A f \in Feature : Generating' /\ op'.kind = <<f, "certs">> => Needed(f)' /\ Heard(op.conds, f)'
  BY <1>1, <1>3 DEF SourceInv
<1>11. Busy' /\ op'.dk \notin tainted' => \A f \in Feature :
         /\ Writing(<<f, "config">>)' \/ ConfigTold(op.conds, op.dk, f)'
         /\ Writing(<<f, "certs">>)' \/ CertsTold(op.conds, op.dk, f)'
  BY <1>1, <1>7, <1>8 DEF SourceInv
<1>12. Busy => op.dk \in DynaKube
  BY DEF TypeInv
<1> QED
  BY <1>1, <1>4, <1>5, <1>6, <1>9, <1>10, <1>11, <1>12 DEF SourceInv

-----------------------------------------------------------------------------
(* The generation of the secrets: one kind after the other.                 *)

LEMMA KindCases ==
    \A k \in Kind : \/ k = <<"bootstrap", "config">> \/ k = <<"bootstrap", "certs">>
                   \/ k = <<"otlp", "config">> \/ k = <<"otlp", "certs">>
BY DEF Kind, Feature

\* where a reconcile gets to from a secret, only that one is done in addition
LEMMA ReachedNext ==
    ASSUME NEW k \in Kind, GoesOn(op, op', k)
    PROVE  /\ op'.pc \in {"source", "unmap", "finish"}
           /\ \A j \in Kind : ~Writing(j)'
           /\ \A j \in Kind : Reached(j)' => j = k \/ Before(j, k)
<1>1. op'.pc \in {"source", "unmap", "finish"}
  BY KindCases DEF GoesOn
<1>2. \A j \in Kind : ~Writing(j)'
  BY <1>1 DEF Writing
<1>3. ASSUME NEW j \in Kind, Reached(j)' PROVE j = k \/ Before(j, k)
  <2>1. CASE k = <<"otlp", "certs">>
    BY <2>1, KindCases DEF Before
  <2>2. CASE k # <<"otlp", "certs">>
    <3>1. op'.pc = "source"
      BY <2>2, KindCases DEF GoesOn
    <3>2. Before(j, op'.kind)
      BY <1>2, <1>3, <3>1 DEF Reached, Unmapping
    <3>3. \/ k = <<"bootstrap", "config">> /\ op'.kind = <<"bootstrap", "certs">>
          \/ k = <<"bootstrap", "certs">> /\ op'.kind = <<"otlp", "config">>
          \/ k = <<"otlp", "config">> /\ op'.kind = <<"otlp", "certs">>
      BY <2>2, KindCases DEF GoesOn
    <3> QED
      BY <3>2, <3>3, KindCases DEF Before
  <2> QED
    BY <2>1, <2>2
<1> QED
  BY <1>1, <1>2, <1>3

\* what an undisturbed reconcile wants follows from its copy of the DynaKube
LEMMA WantedByCopy ==
    ASSUME LabelInv, Undisturbed, Generating, NEW k \in Kind
    PROVE  Wanted(op.dk, k) = IF Needed(k[1]) /\ (k[2] = "certs" => op.copy.certs)
                              THEN Content(op.dk, op.copy) ELSE NoSecret
<1>1. op.copy = dks[op.dk] /\ op.copy.exists
  BY DEF LabelInv
<1> QED
  BY <1>1 DEF Wanted, Needed

LEMMA ToldStays ==
    ASSUME NEW d, NEW f, NEW c, NEW e, c \subseteq e
    PROVE  /\ ConfigTold(c, d, f) => ConfigTold(e, d, f)
           /\ CertsTold(c, d, f) => CertsTold(e, d, f)
           /\ Tells(c, d, f) => Tells(e, d, f)
BY DEF ConfigTold, CertsTold, Tells, Heard

\* nothing is generated
LEMMA IdleSources ==
    ASSUME TypeInv, SourceInv, Busy, dks' = dks, source' = source, op' = Idle,
           \A d \in DynaKube : d # op.dk => conditions'[d] = conditions[d],
           tainted \subseteq tainted', clean' \subseteq clean \cup {op.dk},
           op.dk \notin tainted' => \A f \in Feature : ConfigTold(conditions'[op.dk], op.dk, f)
                                                    /\ CertsTold(conditions'[op.dk], op.dk, f),
           op.dk \in clean' \ tainted' => SourcesDone(op.dk)
    PROVE  SourceInv'
<1>1. ~Busy' /\ ~Undisturbed' /\ ~Generating' /\ \A k \in Kind : ~Writing(k)'
  BY DEF Idle, Busy, Undisturbed, Generating, Writing
<1>2. \A d \in DynaKube : (NoSources(d)' <=> NoSources(d)) /\ (SourcesDone(d)' <=> SourcesDone(d))
  BY DEF NoSources, SourcesDone, Wanted, Silent
<1>3. ASSUME NEW d \in DynaKube \ tainted', NEW f \in Feature
      PROVE  ConfigTold(conditions[d], d, f)' /\ CertsTold(conditions[d], d, f)'
  <2>1. ConfigTold(conditions'[d], d, f) /\ CertsTold(conditions'[d], d, f)
    BY <1>3 DEF SourceInv
  <2> QED
    BY <2>1 DEF ConfigTold, CertsTold, Tells, Heard
<1>4. \A d \in DynaKube : ~dks'[d].exists => NoSources(d)'
  BY <1>2 DEF SourceInv
<1>5. op.dk \in DynaKube /\ clean \subseteq DynaKube
  BY DEF TypeInv, TypeOK
<1>6. ASSUME NEW d \in clean' \ tainted' PROVE SourcesDone(d)'
  <2>1. CASE d = op.dk
    BY <1>2, <1>5, <1>6, <2>1
  <2>2. CASE d # op.dk
    <3>1. d \in clean \ tainted
      BY <1>6, <2>2
    <3> QED
      BY <1>2, <1>5, <3>1 DEF SourceInv
  <2> QED
    BY <2>1, <2>2
<1> QED
  BY <1>1, <1>3, <1>4, <1>6 DEF SourceInv

LEMMA GeneratingSources ==
    ASSUME TypeInv, LabelInv, SourceInv, Generating,
           UNCHANGED <<dks, conditions, clean>>, tainted \subseteq tainted', Kept(op, op'), op'.pc # "idle",
           \A d \in DynaKube : d # op.dk => source'[d] = source[d],
           op.gone /\ NoSources(op.dk) => NoSources(op.dk)',
           \A k \in Kind : Writing(k)' => (k[2] = "config" => Needed(k[1])) /\ (k[2] = "certs" => op.copy.certs),
           \A f \in Feature : Generating' /\ op'.kind = <<f, "certs">> => Needed(f) /\ Heard(op.conds, f)',
           op.dk \notin tainted' => \A f \in Feature :
             /\ Writing(<<f, "config">>)' \/ ConfigTold(op.conds, op.dk, f)'
             /\ Writing(<<f, "certs">>)' \/ CertsTold(op.conds, op.dk, f)',
           Undisturbed /\ op.dk \notin tainted' =>
             \A k \in Kind : source'[op.dk][k] \in {source[op.dk][k], Wanted(op.dk, k)},
           Undisturbed /\ op.dk \notin tainted' /\ ~op'.failed =>
             \A k \in Kind : Reached(k)' => source'[op.dk][k] = Wanted(op.dk, k) \/ Silent(op.dk, k)
    PROVE  SourceInv'
<1>1. /\ Busy /\ Busy' /\ op'.dk = op.dk /\ op'.copy = op.copy /\ op'.gone = op.gone /\ op'.disturbed = op.disturbed
      /\ Undisturbed' <=> Undisturbed
  BY DEF Generating, Busy, Kept, Undisturbed
<1>2. op.dk \in DynaKube /\ clean \subseteq DynaKube /\ op.copy.exists
  BY <1>1 DEF TypeInv, TypeOK, LabelInv
<1>3. \A f \in Feature : Needed(f)' <=> Needed(f)
  BY <1>1 DEF Needed
<1>4. \A d \in DynaKube, k \in Kind : Wanted(d, k)' = Wanted(d, k) /\ (Silent(d, k)' <=> Silent(d, k))
  BY DEF Wanted, Silent
<1>5. \A d \in DynaKube : d # op.dk => (NoSources(d)' <=> NoSources(d)) /\ (SourcesDone(d)' <=> SourcesDone(d))
  BY <1>4 DEF NoSources, SourcesDone
<1>6. op.gone => NoSources(op.dk)'
  BY <1>1 DEF SourceInv
<1>7. ~dks[op.dk].exists => op.gone
  BY <1>1, <1>2 DEF SourceInv
<1>8. ASSUME NEW d \in DynaKube, ~dks'[d].exists PROVE NoSources(d)'
  <2>1. CASE d = op.dk
    <3>1. NoSources(op.dk)'
      BY <1>6, <1>7, <1>8, <2>1
    <3>2. op'.dk = d
      BY <1>1, <2>1
    <3> QED
      BY <3>1, <3>2 DEF NoSources
  <2>2. CASE d # op.dk
    BY <1>5, <1>8, <2>2 DEF SourceInv
  <2> QED
    BY <2>1, <2>2
<1>9. Busy' /\ op'.copy.exists /\ ~op'.gone => dks'[op'.dk].exists
  BY <1>1, <1>7
<1>10. Busy' /\ (op'.gone \/ ~op'.copy.exists) => NoSources(op.dk)'
  BY <1>1, <1>2, <1>6
<1>11. Undisturbed' => ~op'.gone
  BY <1>1 DEF SourceInv
<1>12. \A k \in Kind : Writing(k)' => (k[2] = "config" => Needed(k[1])') /\ (k[2] = "certs" => op'.copy.certs)
  BY <1>1, <1>3, KindFacts
<1>13. \A f \in Feature : Generating' /\ op'.kind = <<f, "certs">> => Needed(f)' /\ Heard(op.conds, f)'
  BY <1>3
<1>14. \A d \in DynaKube \ tainted', f \in Feature :
         ~(Busy' /\ op'.dk = d) => ConfigTold(conditions[d], d, f)' /\ CertsTold(conditions[d], d, f)'
  <2> SUFFICES ASSUME NEW d \in DynaKube \ tainted', NEW f \in Feature, d # op.dk
               PROVE  ConfigTold(conditions[d], d, f)' /\ CertsTold(conditions[d], d, f)'
    BY <1>1
  <2>1. ConfigTold(conditions[d], d, f) /\ CertsTold(conditions[d], d, f)
    BY DEF SourceInv
  <2> QED
    BY <2>1 DEF ConfigTold, CertsTold, Tells, Heard
<1>15. Undisturbed' /\ ~op'.failed /\ op'.dk \notin tainted' =>
         \A k \in Kind : Reached(k)' => source'[op'.dk][k] = Wanted(op.dk, k)' \/ Silent(op.dk, k)'
  BY <1>1, <1>2, <1>4
<1>16. ASSUME NEW d \in clean' \ tainted' PROVE SourcesDone(d)'
  <2>1. d \in clean /\ d \notin tainted /\ d \in DynaKube /\ SourcesDone(d)
    BY <1>2, <1>16 DEF SourceInv
  <2>2. CASE d = op.dk
    <3>1. Undisturbed
      BY <1>1, <2>1, <2>2 DEF LabelInv, Undisturbed
    <3>2. \A k \in Kind : source'[d][k] = Wanted(d, k) \/ Silent(d, k)
      BY <1>16, <2>1, <2>2, <3>1 DEF SourcesDone
    <3> QED
      BY <1>4, <2>1, <3>2 DEF SourcesDone
  <2>3. CASE d # op.dk
    BY <1>5, <2>1, <2>3
  <2> QED
    BY <2>2, <2>3
<1> QED
  BY <1>1, <1>8, <1>9, <1>10, <1>11, <1>12, <1>13, <1>14, <1>15, <1>16 DEF SourceInv

LEMMA CleanupSources ==
    ASSUME TypeInv, LabelInv, SourceInv, NEW f \in Feature, Cleanup(f)
    PROVE  SourceInv'
<1> DEFINE k == <<f, "certs">>
<1>1. /\ UNCHANGED <<dks, conditions, clean>>
      /\ op.pc = "source" /\ op.kind = <<f, "config">> /\ Busy /\ ~Needed(f)
      /\ Kept(op, op') /\ GoesOn(op, op', k) /\ op'.failed = op.failed
      /\ SourceShrinks /\ tainted \subseteq tainted'
      /\ \/ ~CleanupDue(f) /\ op'.conds = op.conds /\ source' = source
         \/ op.dk \in tainted'
         \/ /\ op'.conds = op.conds \ FeatureConditions(f)
            /\ \A j \in Kind : source'[op.dk][j] = IF j[1] = f THEN NoSecret ELSE source[op.dk][j]
  BY CleanupFields DEF Cleanup
<1>2. k \in Kind /\ k[1] = f /\ op.dk \in DynaKube /\ Generating
  BY <1>1, KindFacts DEF TypeInv, Generating
<1>3. /\ op'.pc \in {"source", "unmap", "finish"} /\ \A j \in Kind : ~Writing(j)'
      /\ \A j \in Kind : Reached(j)' => j = k \/ Before(j, k)
  BY <1>1, <1>2, ReachedNext
<1>4. op'.dk = op.dk
  BY <1>1 DEF Kept
<1>5. \A j \in Kind : ~Writing(j)
  BY <1>1 DEF Writing
<1>6. ASSUME op.dk \notin tainted', NEW j \in Kind, j[1] = f PROVE source'[op.dk][j] = NoSecret
  <2>1. CASE ~CleanupDue(f) /\ op'.conds = op.conds /\ source' = source
    <3>1. ~Tells(op.conds, op.dk, f)
      BY <1>1, <2>1 DEF CleanupDue, Tells, Needed
    <3>2. ConfigTold(op.conds, op.dk, f)
      BY <1>1, <1>5, <1>6, KindFacts DEF SourceInv
    <3>3. j = <<f, "config">> \/ j = <<f, "certs">>
      BY <1>6, KindFacts
    <3> QED
      BY <2>1, <3>1, <3>2, <3>3 DEF ConfigTold
  <2>2. CASE \A i \in Kind : source'[op.dk][i] = IF i[1] = f THEN NoSecret ELSE source[op.dk][i]
    BY <1>6, <2>2
  <2> QED
    BY <1>1, <1>6, <2>1, <2>2
<1>7. ASSUME op.dk \notin tainted', NEW g \in Feature
      PROVE  ConfigTold(op.conds, op.dk, g)' /\ CertsTold(op.conds, op.dk, g)'
  <2>1. ConfigTold(op.conds, op.dk, g) /\ CertsTold(op.conds, op.dk, g)
    BY <1>1, <1>5, <1>7, KindFacts DEF SourceInv
  <2>2. <<g, "config">> \in Kind /\ <<g, "certs">> \in Kind /\ <<g, "config">>[1] = g /\ <<g, "certs">>[1] = g
    BY KindFacts
  <2>3. CASE g = f
    <3>1. source'[op.dk][<<g, "config">>] = NoSecret /\ source'[op.dk][<<g, "certs">>] = NoSecret
      BY <1>6, <1>7, <2>2, <2>3
    <3> QED
      BY <1>4, <3>1 DEF ConfigTold, CertsTold
  <2>4. CASE g # f
    <3>1. \A c \in Condition : c[1] = g => (c \in op'.conds <=> c \in op.conds)
      BY <1>1, <1>7, <2>4 DEF FeatureConditions
    <3>2. <<g, "feature">> \in Condition /\ <<g, "config">> \in Condition /\ <<g, "certs">> \in Condition
      BY DEF Condition
    <3>3. /\ <<g, "feature">> \in op'.conds <=> <<g, "feature">> \in op.conds
          /\ <<g, "config">> \in op'.conds <=> <<g, "config">> \in op.conds
          /\ <<g, "certs">> \in op'.conds <=> <<g, "certs">> \in op.conds
      BY <3>1, <3>2
    <3>4. \A j \in Kind : source[op.dk][j] = NoSecret => source'[op.dk][j] = NoSecret
      BY <1>1 DEF SourceShrinks
    <3> QED
      BY <1>4, <2>1, <2>2, <3>3, <3>4 DEF ConfigTold, CertsTold, Tells, Heard
  <2> QED
    BY <2>3, <2>4
<1>8. ASSUME Undisturbed, op.dk \notin tainted', NEW j \in Kind
      PROVE  /\ source'[op.dk][j] \in {source[op.dk][j], Wanted(op.dk, j)}
             /\ j[1] = f => source'[op.dk][j] = Wanted(op.dk, j)
             /\ j[1] # f => source'[op.dk][j] = source[op.dk][j]
  <2>1. j[1] = f => Wanted(op.dk, j) = NoSecret
    BY <1>1, <1>2, <1>8, WantedByCopy
  <2>2. j[1] # f => source'[op.dk][j] = source[op.dk][j]
    BY <1>1, <1>8
  <2> QED
    BY <1>6, <1>8, <2>1, <2>2
<1>9. ASSUME Undisturbed, op.dk \notin tainted', ~op'.failed, NEW j \in Kind, Reached(j)'
      PROVE  source'[op.dk][j] = Wanted(op.dk, j) \/ Silent(op.dk, j)
  <2>1. CASE j[1] = f
    BY <1>8, <1>9, <2>1
  <2>2. CASE j[1] # f
    <3>1. Before(j, op.kind)
      BY <1>1, <1>2, <1>3, <1>9, <2>2 DEF Before
    <3>2. source[op.dk][j] = Wanted(op.dk, j) \/ Silent(op.dk, j)
      BY <1>1, <1>2, <1>9, <3>1 DEF SourceInv, Reached
    <3> QED
      BY <1>8, <1>9, <2>2, <3>2
  <2> QED
    BY <2>1, <2>2
<1>10. \A g \in Feature : ~(Generating' /\ op'.kind = <<g, "certs">>)
  <2>1. CASE f = "bootstrap"
    BY <1>1, <2>1 DEF GoesOn
  <2>2. CASE f = "otlp"
    BY <1>1, <2>2 DEF GoesOn, Generating
  <2> QED
    BY <2>1, <2>2 DEF Feature
<1>11. op.gone /\ NoSources(op.dk) => NoSources(op.dk)'
  BY <1>1, <1>4 DEF NoSources, SourceShrinks
<1>12. \A d \in DynaKube : d # op.dk => source'[d] = source[d]
  BY <1>1 DEF SourceShrinks
<1> HIDE DEF k
<1> QED
  BY <1>1, <1>2, <1>3, <1>7, <1>8, <1>9, <1>10, <1>11, <1>12, GeneratingSources

LEMMA CleanupCertsSources ==
    ASSUME TypeInv, LabelInv, SourceInv, NEW f \in Feature, CleanupCerts(f)
    PROVE  SourceInv'
<1> DEFINE k == <<f, "certs">>
<1>1. /\ UNCHANGED <<dks, conditions, clean>>
      /\ op.pc = "source" /\ op.kind = k /\ Busy /\ ~op.copy.certs
      /\ Kept(op, op') /\ GoesOn(op, op', k) /\ (op.failed => op'.failed)
      /\ SourceShrinks /\ tainted \subseteq tainted'
      /\ \/ k \notin op.conds /\ op'.conds = op.conds /\ source' = source
         \/ op.dk \in tainted'
         \/ /\ op'.conds = op.conds \ {k}
            /\ \A j \in Kind : source'[op.dk][j] = IF j = k THEN NoSecret ELSE source[op.dk][j]
  BY CleanupCertsFields DEF CleanupCerts
<1>2. k \in Kind /\ k[2] = "certs" /\ op.dk \in DynaKube /\ Generating
  BY <1>1, KindFacts DEF TypeInv, Generating
<1>3. /\ op'.pc \in {"source", "unmap", "finish"} /\ \A j \in Kind : ~Writing(j)'
      /\ \A j \in Kind : Reached(j)' => j = k \/ Before(j, k)
  BY <1>1, <1>2, ReachedNext
<1>4. op'.dk = op.dk
  BY <1>1 DEF Kept
<1>5. \A j \in Kind : ~Writing(j)
  BY <1>1 DEF Writing
<1>6. ASSUME op.dk \notin tainted' PROVE source'[op.dk][k] = NoSecret
  <2>1. CASE k \notin op.conds /\ op'.conds = op.conds /\ source' = source
    <3>1. CertsTold(op.conds, op.dk, f)
      BY <1>1, <1>5, <1>6, KindFacts DEF SourceInv
    <3> QED
      BY <2>1, <3>1 DEF CertsTold
  <2> QED
    BY <1>1, <1>2, <1>6, <2>1
<1>7. ASSUME op.dk \notin tainted', NEW j \in Kind, j # k PROVE source'[op.dk][j] = source[op.dk][j]
  BY <1>1, <1>7
<1>8. ASSUME op.dk \notin tainted', NEW g \in Feature
      PROVE  ConfigTold(op.conds, op.dk, g)' /\ CertsTold(op.conds, op.dk, g)'
  <2>1. ConfigTold(op.conds, op.dk, g) /\ CertsTold(op.conds, op.dk, g)
    BY <1>1, <1>5, <1>8, KindFacts DEF SourceInv
  <2>2. <<g, "config">> \in Kind /\ <<g, "certs">> \in Kind /\ <<g, "config">> # k
    BY KindFacts
  <2>3. op'.conds = op.conds \/ op'.conds = op.conds \ {k}
    BY <1>1, <1>8
  <2>4. <<g, "feature">> # k
    OBVIOUS
  <2>5. Tells(op'.conds, op.dk, g) <=> Tells(op.conds, op.dk, g)
    BY <2>2, <2>3, <2>4 DEF Tells
  <2>6. source'[op.dk][<<g, "config">>] = source[op.dk][<<g, "config">>]
    BY <1>7, <1>8, <2>2
  <2>7. source'[op.dk][<<g, "certs">>] \in {source[op.dk][<<g, "certs">>], NoSecret}
    BY <1>1, <2>2 DEF SourceShrinks
  <2>8. source'[op.dk][<<g, "certs">>] = NoSecret \/ (<<g, "certs">> # k /\ source'[op.dk][<<g, "certs">>] = source[op.dk][<<g, "certs">>])
    BY <1>6, <1>8, <2>7
  <2>9. <<g, "certs">> \in op'.conds \/ <<g, "certs">> = k \/ <<g, "certs">> \notin op.conds
    BY <2>3
  <2>10. ConfigTold(op.conds, op.dk, g)'
    BY <1>4, <2>1, <2>5, <2>6, <2>7 DEF ConfigTold, Tells
  <2>11. CertsTold(op.conds, op.dk, g)'
    BY <1>4, <2>1, <2>8, <2>9 DEF CertsTold
  <2> QED
    BY <2>10, <2>11
<1>9. ASSUME Undisturbed, op.dk \notin tainted' PROVE source'[op.dk][k] = Wanted(op.dk, k)
  BY <1>1, <1>2, <1>6, <1>9, WantedByCopy
<1>10. ASSUME Undisturbed, op.dk \notin tainted', NEW j \in Kind
       PROVE  source'[op.dk][j] \in {source[op.dk][j], Wanted(op.dk, j)}
  BY <1>7, <1>9, <1>10
<1>11. ASSUME Undisturbed, op.dk \notin tainted', ~op'.failed, NEW j \in Kind, Reached(j)'
       PROVE  source'[op.dk][j] = Wanted(op.dk, j) \/ Silent(op.dk, j)
  <2>1. CASE j = k
    BY <1>9, <1>11, <2>1
  <2>2. CASE j # k
    <3>1. Before(j, op.kind)
      BY <1>1, <1>3, <1>11, <2>2
    <3>2. source[op.dk][j] = Wanted(op.dk, j) \/ Silent(op.dk, j)
      BY <1>1, <1>2, <1>11, <3>1 DEF SourceInv, Reached
    <3> QED
      BY <1>7, <1>11, <2>2, <3>2
  <2> QED
    BY <2>1, <2>2
<1>12. \A g \in Feature : ~(Generating' /\ op'.kind = <<g, "certs">>)
  <2>1. CASE f = "bootstrap"
    BY <1>1, <2>1 DEF GoesOn
  <2>2. CASE f = "otlp"
    BY <1>1, <2>2 DEF GoesOn, Generating
  <2> QED
    BY <2>1, <2>2 DEF Feature
<1>13. op.gone /\ NoSources(op.dk) => NoSources(op.dk)'
  BY <1>1, <1>4 DEF NoSources, SourceShrinks
<1>14. \A d \in DynaKube : d # op.dk => source'[d] = source[d]
  BY <1>1 DEF SourceShrinks
<1> HIDE DEF k
<1> QED
  BY <1>1, <1>2, <1>3, <1>8, <1>10, <1>11, <1>12, <1>13, <1>14, GeneratingSources

\* the condition that a certificate follows its feature is there before it
LEMMA WriteSourceSources ==
    ASSUME TypeInv, LabelInv, SourceInv, NEW k \in Kind, WriteSource(k)
    PROVE  SourceInv'
<1>1. /\ UNCHANGED <<dks, conditions, clean>>
      /\ op.pc = "source" /\ op.kind = k /\ Busy /\ (IF k[2] = "config" THEN Needed(k[1]) ELSE op.copy.certs)
      /\ Kept(op, op') /\ tainted \subseteq tainted' /\ \A d \in DynaKube : d # op.dk => source'[d] = source[d]
      /\ \/ op.dk \in tainted' /\ GoesOn(op, op', ErrorEnds(k)) /\ op'.failed /\ source' = source
            /\ op.conds \subseteq op'.conds
         \/ ~HasData(k) /\ GoesOn(op, op', k) /\ op'.conds = op.conds /\ op'.failed = op.failed /\ source' = source
         \/ /\ op'.pc = "list" /\ op'.kind = k /\ op'.conds = op.conds /\ op'.failed = op.failed
            /\ op.gone => source' = source
            /\ ~op.gone => \A j \in Kind : source'[op.dk][j] = IF j = k THEN Content(op.dk, op.copy) ELSE source[op.dk][j]
  BY WriteSourceFields DEF WriteSource
<1>2. op.dk \in DynaKube /\ Generating /\ op'.dk = op.dk /\ ErrorEnds(k) \in Kind
  BY <1>1, KindFacts DEF TypeInv, Generating, Kept, ErrorEnds, Feature
<1>3. \A j \in Kind : ~Writing(j)
  BY <1>1 DEF Writing
<1>4. CASE op.dk \in tainted' /\ GoesOn(op, op', ErrorEnds(k)) /\ source' = source
  <2>1. op'.pc \in {"source", "unmap", "finish"} /\ \A j \in Kind : ~Writing(j)'
    BY <1>2, <1>4, ReachedNext
  <2>2. ASSUME NEW g \in Feature, Generating', op'.kind = <<g, "certs">> PROVE Needed(g) /\ Heard(op.conds, g)'
    <3>1. k = <<"bootstrap", "config">> /\ g = "bootstrap"
      BY <1>4, <2>1, <2>2, KindCases DEF GoesOn, ErrorEnds, Generating
    <3> QED
      BY <1>1, <1>2, <1>4, <3>1 DEF Heard
  <2>3. op.gone /\ NoSources(op.dk) => NoSources(op.dk)'
    BY <1>2, <1>4 DEF NoSources
  <2> QED
    BY <1>1, <1>2, <1>4, <2>1, <2>2, <2>3, GeneratingSources
<1>6. CASE ~HasData(k) /\ GoesOn(op, op', k) /\ op'.conds = op.conds /\ op'.failed = op.failed /\ source' = source
  <2>1. /\ op'.pc \in {"source", "unmap", "finish"} /\ \A j \in Kind : ~Writing(j)'
        /\ \A j \in Kind : Reached(j)' => j = k \/ Before(j, k)
    BY <1>6, ReachedNext
  <2>2. k = <<"bootstrap", "config">> /\ "bootstrap" \notin op.copy.on /\ op.dk \in HostMonitoring /\ ~dks[op.dk].groups
    BY <1>1, <1>6 DEF HasData, FirstKind, Needed
  <2>3. ASSUME NEW g \in Feature, Generating', op'.kind = <<g, "certs">> PROVE Needed(g) /\ Heard(op.conds, g)'
    <3>1. g = "bootstrap"
      BY <1>6, <2>2, <2>3 DEF GoesOn
    <3> QED
      BY <1>1, <1>2, <2>2, <3>1 DEF Heard, Tells
  <2>4. op.gone /\ NoSources(op.dk) => NoSources(op.dk)'
    BY <1>2, <1>6 DEF NoSources
  <2>5. ASSUME op.dk \notin tainted', NEW g \in Feature
        PROVE  ConfigTold(op.conds, op.dk, g)' /\ CertsTold(op.conds, op.dk, g)'
    <3>1. ConfigTold(op.conds, op.dk, g) /\ CertsTold(op.conds, op.dk, g)
      BY <1>1, <1>3, <2>5, KindFacts DEF SourceInv
    <3> QED
      BY <1>2, <1>6, <3>1 DEF ConfigTold, CertsTold, Tells
  <2>6. ASSUME Undisturbed, op.dk \notin tainted', ~op'.failed, NEW j \in Kind, Reached(j)'
        PROVE  source'[op.dk][j] = Wanted(op.dk, j) \/ Silent(op.dk, j)
    <3>1. j = k
      BY <2>1, <2>2, <2>6 DEF Before
    <3>2. op.copy = dks[op.dk] /\ op.copy.exists
      BY <1>2, <2>6 DEF LabelInv
    <3> QED
      BY <2>2, <3>1, <3>2 DEF Silent, FirstKind
  <2> QED
    BY <1>1, <1>2, <1>6, <2>1, <2>3, <2>4, <2>5, <2>6, GeneratingSources
<1>5. CASE /\ op'.pc = "list" /\ op'.kind = k /\ op'.conds = op.conds /\ op'.failed = op.failed
           /\ op.gone => source' = source
           /\ ~op.gone => \A j \in Kind : source'[op.dk][j] = IF j = k THEN Content(op.dk, op.copy) ELSE source[op.dk][j]
  <2>1. \A j \in Kind : Writing(j)' <=> j = k
    BY <1>5 DEF Writing
  <2>2. ASSUME NEW g \in Feature, op.kind = <<g, "certs">> PROVE Needed(g) /\ Heard(op.conds, g)
    BY <1>2, <2>2 DEF SourceInv
  <2>3. \A g \in Feature : Generating' /\ op'.kind = <<g, "certs">> => Needed(g) /\ Heard(op.conds, g)'
    BY <1>1, <1>2, <1>5, <2>2 DEF Heard, Tells
  <2>4. k[2] = "certs" => Needed(k[1]) /\ op.copy.certs
    BY <1>1, <2>2, KindFacts
  <2>5. \A j \in Kind : Writing(j)' => (j[2] = "config" => Needed(j[1])) /\ (j[2] = "certs" => op.copy.certs)
    BY <1>1, <2>1
  <2>6. \A j \in Kind : j # k => source'[op.dk][j] = source[op.dk][j]
    BY <1>5
  <2>7. op.gone /\ NoSources(op.dk) => NoSources(op.dk)'
    BY <1>2, <1>5 DEF NoSources
  <2>8. ASSUME op.dk \notin tainted', NEW g \in Feature
        PROVE  /\ Writing(<<g, "config">>)' \/ ConfigTold(op.conds, op.dk, g)'
               /\ Writing(<<g, "certs">>)' \/ CertsTold(op.conds, op.dk, g)'
    <3>1. ConfigTold(op.conds, op.dk, g) /\ CertsTold(op.conds, op.dk, g)
      BY <1>1, <1>3, <2>8, KindFacts DEF SourceInv
    <3>2. <<g, "config">> \in Kind /\ <<g, "certs">> \in Kind
      BY KindFacts
    <3>3. CASE k = <<g, "config">>
      <4>1. source'[op.dk][<<g, "certs">>] = source[op.dk][<<g, "certs">>]
        BY <2>6, <3>2, <3>3
      <4> QED
        BY <1>2, <1>5, <2>1, <3>1, <3>2, <3>3, <4>1 DEF CertsTold
    <3>4. CASE k = <<g, "certs">>
      BY <1>1, <1>2, <1>5, <2>1, <2>2, <2>8, <3>2, <3>4 DEF ConfigTold, Tells, Heard
    <3>5. CASE k # <<g, "config">> /\ k # <<g, "certs">>
      <4>1. source'[op.dk][<<g, "config">>] = source[op.dk][<<g, "config">>]
            /\ source'[op.dk][<<g, "certs">>] = source[op.dk][<<g, "certs">>]
        BY <2>6, <3>2, <3>5
      <4> QED
        BY <1>2, <1>5, <3>1, <4>1 DEF ConfigTold, CertsTold, Tells, Heard
    <3> QED
      BY <3>3, <3>4, <3>5
  <2>9. ASSUME Undisturbed PROVE source'[op.dk][k] = Wanted(op.dk, k)
    <3>1. ~op.gone
      BY <2>9 DEF SourceInv
    <3>2. Needed(k[1]) /\ (k[2] = "certs" => op.copy.certs)
      BY <1>1, <2>4, KindFacts
    <3> QED
      BY <1>2, <1>5, <2>9, <3>1, <3>2, WantedByCopy
  <2>10. ASSUME Undisturbed, NEW j \in Kind PROVE source'[op.dk][j] \in {source[op.dk][j], Wanted(op.dk, j)}
    BY <2>6, <2>9, <2>10
  <2>11. ASSUME Undisturbed, op.dk \notin tainted', ~op'.failed, NEW j \in Kind, Reached(j)'
         PROVE  source'[op.dk][j] = Wanted(op.dk, j) \/ Silent(op.dk, j)
    <3>1. CASE j = k
      BY <2>9, <2>11, <3>1
    <3>2. CASE j # k
      <4>1. Before(j, op.kind)
        BY <1>1, <1>5, <2>1, <2>11, <3>2 DEF Reached, Unmapping
      <4>2. source[op.dk][j] = Wanted(op.dk, j) \/ Silent(op.dk, j)
        BY <1>1, <1>2, <1>5, <2>11, <4>1 DEF SourceInv, Reached
      <4> QED
        BY <2>6, <3>2, <4>2
    <3> QED
      BY <3>1, <3>2
  <2> QED
    BY <1>1, <1>2, <1>5, <2>3, <2>5, <2>7, <2>8, <2>10, <2>11, GeneratingSources
<1> QED
  BY <1>1, <1>4, <1>5, <1>6

LEMMA ListSecretsSources ==
    ASSUME TypeInv, LabelInv, SourceInv, NEW k \in Kind, ListSecrets(k)
    PROVE  SourceInv'
<1>1. /\ UNCHANGED <<dks, source, conditions, clean, tainted>>
      /\ op.pc = "list" /\ op.kind = k /\ Busy /\ Kept(op, op')
      /\ op'.pc = "write" /\ op'.kind = k /\ op'.conds = op.conds /\ op'.failed = op.failed
  BY ListSecretsFields DEF ListSecrets, objects
<1>2. op.dk \in DynaKube /\ Generating /\ op'.dk = op.dk
  BY <1>1 DEF TypeInv, Generating, Kept
<1>3. \A j \in Kind : (Writing(j)' <=> Writing(j)) /\ (Reached(j)' <=> Reached(j))
  BY <1>1 DEF Writing, Reached, Generating, Unmapping
<1>4. \A g \in Feature : /\ ConfigTold(op.conds, op.dk, g)' <=> ConfigTold(op.conds, op.dk, g)
                         /\ CertsTold(op.conds, op.dk, g)' <=> CertsTold(op.conds, op.dk, g)
  BY <1>1, <1>2 DEF ConfigTold, CertsTold, Tells, Heard
<1>5. op.dk \notin tainted' => \A g \in Feature :
        /\ Writing(<<g, "config">>)' \/ ConfigTold(op.conds, op.dk, g)'
        /\ Writing(<<g, "certs">>)' \/ CertsTold(op.conds, op.dk, g)'
  BY <1>1, <1>3, <1>4, KindFacts DEF SourceInv
<1>6. \A j \in Kind : Writing(j)' => (j[2] = "config" => Needed(j[1])) /\ (j[2] = "certs" => op.copy.certs)
  BY <1>3 DEF SourceInv
<1>7. \A g \in Feature : Generating' /\ op'.kind = <<g, "certs">> => Needed(g) /\ Heard(op.conds, g)'
  BY <1>1, <1>2 DEF SourceInv, Heard, Tells
<1>8. Undisturbed /\ op.dk \notin tainted' /\ ~op'.failed =>
        \A j \in Kind : Reached(j)' => source'[op.dk][j] = Wanted(op.dk, j) \/ Silent(op.dk, j)
  BY <1>1, <1>3 DEF SourceInv
<1>9. op.gone /\ NoSources(op.dk) => NoSources(op.dk)'
  BY <1>1, <1>2 DEF NoSources
<1> QED
  BY <1>1, <1>2, <1>5, <1>6, <1>7, <1>8, <1>9, GeneratingSources

LEMMA WriteSecretsSources ==
    ASSUME TypeInv, LabelInv, SourceInv, NEW k \in Kind, WriteSecrets(k)
    PROVE  SourceInv'
<1>1. /\ UNCHANGED <<dks, source, conditions, clean>>
      /\ op.pc = "write" /\ op.kind = k /\ Busy /\ Kept(op, op') /\ tainted \subseteq tainted'
      /\ \/ GoesOn(op, op', ErrorEnds(k)) /\ op'.failed /\ op.conds \cup {k} \subseteq op'.conds
            /\ (<<k[1], "feature">> \in op'.conds \/ op.dk \in tainted')
         \/ /\ GoesOn(op, op', k) /\ op'.failed = op.failed
            /\ op'.conds = op.conds \cup {k} \cup IF k[1] = "otlp" THEN {<<"otlp", "feature">>} ELSE {}
  BY WriteSecretsFields DEF WriteSecrets
<1>2. op.dk \in DynaKube /\ Generating /\ op'.dk = op.dk /\ ErrorEnds(k) \in Kind
  BY <1>1, KindFacts DEF TypeInv, Generating, Kept, ErrorEnds, Feature
<1>3. PICK e \in Kind : GoesOn(op, op', e) /\ (e = k \/ (e = ErrorEnds(k) /\ op'.failed))
  BY <1>1, <1>2
<1>4. /\ op'.pc \in {"source", "unmap", "finish"} /\ \A j \in Kind : ~Writing(j)'
      /\ \A j \in Kind : Reached(j)' => j = e \/ Before(j, e)
  BY <1>3, ReachedNext
<1>5. op.conds \subseteq op'.conds /\ k \in op'.conds /\ Heard(op.conds, k[1])'
  <2>1. op.conds \subseteq op'.conds /\ k \in op'.conds
    BY <1>1
  <2>2. CASE k[2] = "certs"
    <3>1. k = <<k[1], "certs">> /\ k[1] \in Feature
      BY <2>2, KindFacts
    <3>2. Heard(op.conds, k[1])
      BY <1>1, <1>2, <3>1 DEF SourceInv
    <3> QED
      BY <1>1, <1>2, <2>1, <3>2, ToldStays DEF Heard, Tells
  <2>3. CASE k = <<"bootstrap", "config">>
    BY <2>1, <2>3 DEF Heard, Tells
  <2>4. CASE k = <<"otlp", "config">>
    BY <1>1, <1>2, <2>4 DEF Heard, Tells
  <2> QED
    BY <2>1, <2>2, <2>3, <2>4, KindCases
<1>6. \A j \in Kind : Writing(j) <=> j = k
  BY <1>1 DEF Writing
<1>7. ASSUME op.dk \notin tainted', NEW g \in Feature
      PROVE  ConfigTold(op.conds, op.dk, g)' /\ CertsTold(op.conds, op.dk, g)'
  <2>1. <<g, "config">> \in Kind /\ <<g, "certs">> \in Kind
    BY KindFacts
  <2>2. /\ <<g, "config">> = k \/ ConfigTold(op.conds, op.dk, g)
        /\ <<g, "certs">> = k \/ CertsTold(op.conds, op.dk, g)
    BY <1>1, <1>6, <1>7, <2>1 DEF SourceInv
  <2>3. Tells(op'.conds, op.dk, g) \/ ConfigTold(op.conds, op.dk, g)
    BY <1>2, <1>5, <1>7, <2>2 DEF Heard, Tells
  <2>4. ConfigTold(op'.conds, op.dk, g)
    BY <1>5, <2>3, ToldStays DEF ConfigTold
  <2>5. CertsTold(op'.conds, op.dk, g)
    BY <1>5, <2>2 DEF CertsTold
  <2> QED
    BY <1>1, <1>2, <2>4, <2>5 DEF ConfigTold, CertsTold, Tells, Heard
<1>8. ASSUME NEW g \in Feature, Generating', op'.kind = <<g, "certs">> PROVE Needed(g) /\ Heard(op.conds, g)'
  <2>1. k = <<g, "config">>
    BY <1>3, <1>4, <1>8, KindCases DEF GoesOn, ErrorEnds, Generating
  <2>2. Needed(g)
    BY <1>6, <2>1 DEF SourceInv
  <2> QED
    BY <1>5, <2>1, <2>2
<1>9. ASSUME Undisturbed, op.dk \notin tainted', ~op'.failed, NEW j \in Kind, Reached(j)'
      PROVE  source'[op.dk][j] = Wanted(op.dk, j) \/ Silent(op.dk, j)
  <2>1. j = k \/ Before(j, k)
    BY <1>3, <1>4, <1>9
  <2>2. Reached(j)
    BY <1>1, <1>2, <1>6, <2>1 DEF Reached
  <2>3. ~op.failed
    BY <1>1, <1>9
  <2> QED
    BY <1>1, <1>9, <2>2, <2>3 DEF SourceInv
<1>10. op.gone /\ NoSources(op.dk) => NoSources(op.dk)'
  BY <1>1, <1>2 DEF NoSources
<1> QED
  BY <1>1, <1>2, <1>4, <1>7, <1>8, <1>9, <1>10, GeneratingSources

-----------------------------------------------------------------------------
(* The other steps that the sources depend on.                              *)

\* what there is of a DynaKube that is gone was collected with it
LEMMA BeginSources ==
    ASSUME TypeInv, SourceInv, NEW d \in DynaKube, Begin(d)
    PROVE  SourceInv'
<1>1. /\ UNCHANGED <<dks, source, conditions, clean, tainted>> /\ ~Busy
      /\ op'.pc = (IF dks[d].exists THEN "map" ELSE "unmap")
      /\ op'.dk = d /\ op'.copy = dks[d] /\ ~op'.gone /\ conditions[d] \subseteq op'.conds
  BY BeginFields DEF Begin, objects
<1>2. Busy' /\ ~Generating' /\ \A k \in Kind : ~Writing(k)'
  BY <1>1 DEF Busy, Generating, Writing
<1>3. \A e \in DynaKube : (NoSources(e)' <=> NoSources(e)) /\ (SourcesDone(e)' <=> SourcesDone(e))
  BY <1>1 DEF NoSources, SourcesDone, Wanted, Silent
<1>4. ~dks[d].exists => NoSources(d)
  BY DEF SourceInv
<1>5. ASSUME NEW e \in DynaKube \ tainted', NEW f \in Feature
      PROVE  ConfigTold(conditions[e], e, f)' /\ CertsTold(conditions[e], e, f)'
  <2>1. ConfigTold(conditions[e], e, f) /\ CertsTold(conditions[e], e, f)
    BY <1>1, <1>5 DEF SourceInv
  <2> QED
    BY <1>1, <2>1 DEF ConfigTold, CertsTold, Tells, Heard
<1>6. ASSUME d \notin tainted', NEW f \in Feature
      PROVE  ConfigTold(op.conds, op.dk, f)' /\ CertsTold(op.conds, op.dk, f)'
  <2>1. ConfigTold(conditions[d], d, f) /\ CertsTold(conditions[d], d, f)
    BY <1>1, <1>6 DEF SourceInv
  <2>2. ConfigTold(op'.conds, d, f) /\ CertsTold(op'.conds, d, f)
    BY <1>1, <2>1, ToldStays
  <2> QED
    BY <1>1, <2>2 DEF ConfigTold, CertsTold, Tells, Heard
<1>7. ASSUME NEW k \in Kind, Reached(k)' PROVE source'[d][k] = Wanted(op.dk, k)' \/ Silent(op.dk, k)'
  <2>1. ~dks[d].exists
    BY <1>1, <1>2, <1>7 DEF Reached, Unmapping
  <2> QED
    BY <1>1, <1>4, <2>1 DEF NoSources, Wanted
<1>8. \A e \in DynaKube : ~dks'[e].exists => NoSources(e)'
  BY <1>1, <1>3 DEF SourceInv
<1>9. ~dks[d].exists => NoSources(op.dk)'
  BY <1>1, <1>4 DEF NoSources
<1>10. \A e \in clean' \ tainted' : SourcesDone(e)'
  BY <1>1, <1>3 DEF SourceInv, TypeInv, TypeOK
<1> QED
  BY <1>1, <1>2, <1>5, <1>6, <1>7, <1>8, <1>9, <1>10 DEF SourceInv

LEMMA FinishSources ==
    ASSUME TypeInv, SourceInv, Finish
    PROVE  SourceInv'
<1>1. /\ dks' = dks /\ source' = source /\ Busy /\ op' = Idle /\ op.pc = "finish"
      /\ \A d \in DynaKube : d # op.dk => conditions'[d] = conditions[d]
      /\ tainted \subseteq tainted' /\ clean' \subseteq clean \cup {op.dk}
      /\ op.dk \in clean' => ~op.failed /\ ~op.disturbed
      /\ \/ op.dk \in tainted'
         \/ conditions'[op.dk] = IF op.copy.exists THEN op.conds ELSE conditions[op.dk]
  BY FinishFields DEF Finish
<1>2. \A k \in Kind : Reached(k) /\ ~Writing(k)
  BY <1>1 DEF Reached, Writing
<1>3. ASSUME op.dk \notin tainted', NEW f \in Feature
      PROVE  ConfigTold(conditions'[op.dk], op.dk, f) /\ CertsTold(conditions'[op.dk], op.dk, f)
  <2>1. CASE op.copy.exists
    BY <1>1, <1>2, <1>3, <2>1, KindFacts DEF SourceInv
  <2>2. CASE ~op.copy.exists
    BY <1>1, <2>2, KindFacts DEF SourceInv, NoSources, ConfigTold, CertsTold
  <2> QED
    BY <2>1, <2>2
<1>4. ASSUME op.dk \in clean' \ tainted' PROVE SourcesDone(op.dk)
  <2>1. Undisturbed /\ ~op.failed /\ op.dk \notin tainted
    BY <1>1, <1>4 DEF Undisturbed
  <2> QED
    BY <1>2, <2>1 DEF SourceInv, SourcesDone
<1> QED
  BY <1>1, <1>3, <1>4, IdleSources

LEMMA CrashSources ==
    ASSUME TypeInv, SourceInv, Crash
    PROVE  SourceInv'
<1>1. /\ UNCHANGED <<dks, source, conditions>> /\ Busy /\ op' = Idle
      /\ clean' = clean \ {op.dk} /\ op.dk \in tainted' /\ tainted \subseteq tainted'
  BY CrashFields DEF Crash, objects
<1> QED
  BY <1>1, IdleSources

\* a DynaKube that is created again has none of the sources that were collected with it
LEMMA EditDynaKubeSources ==
    ASSUME TypeInv, SourceInv, NEW d \in DynaKube, EditDynaKube(d)
    PROVE  SourceInv'
<1>1. Disturbed /\ tainted' = tainted
  BY EditDynaKubeFields DEF EditDynaKube
<1>2. \A e \in DynaKube : e # d => dks'[e] = dks[e] /\ source'[e] = source[e] /\ conditions'[e] = conditions[e]
  BY EditDynaKubeFields
<1>3. CASE dks[d].exists /\ dks'[d].exists /\ UNCHANGED <<source, conditions>> /\ op'.gone = op.gone
  <2>1. \A e \in DynaKube : dks'[e].exists = dks[e].exists
    <3>1. dks[d].exists \in BOOLEAN /\ dks'[d].exists \in BOOLEAN
      <4>1. dks[d] \in Spec /\ dks'[d] \in Spec
        BY EditDynaKubeFields DEF TypeInv, TypeOK
      <4> QED
        BY <4>1 DEF Spec
    <3>2. dks'[d].exists = dks[d].exists
      BY <1>3, <3>1
    <3> QED
      BY <1>2, <3>2
  <2> QED
    BY <1>1, <1>3, <2>1, DisturbedSources
<1>4. CASE \/ ~dks'[d].exists /\ (\A k \in Kind : source'[d][k] = NoSecret) /\ op'.gone = (op.gone \/ op.dk = d)
           \/ ~dks[d].exists /\ dks'[d].exists /\ source' = source /\ op'.gone = op.gone
  <2>1. \A k \in Kind : source'[d][k] = NoSecret
    BY <1>4 DEF SourceInv, NoSources
  <2>2. \A e \in DynaKube, k \in Kind : source[e][k] = NoSecret => source'[e][k] = NoSecret
    BY <1>2, <2>1
  <2>3. /\ Busy' <=> Busy
        /\ Generating' <=> Generating
        /\ Undisturbed' = FALSE
        /\ clean' = {}
        /\ op'.dk = op.dk /\ op'.copy = op.copy /\ op'.conds = op.conds /\ op'.kind = op.kind
    BY <1>1 DEF Disturbed, Busy, Generating, Undisturbed
  <2>4. \A k \in Kind : Writing(k)' <=> Writing(k)
    BY <1>1 DEF Disturbed, Writing
  <2>5. \A f \in Feature : (Needed(f)' <=> Needed(f)) /\ (Heard(op.conds, f)' <=> Heard(op.conds, f))
    BY <1>1, <2>3 DEF Needed, Tells, Heard
  <2>6. ASSUME NEW e \in DynaKube, ~dks'[e].exists PROVE NoSources(e)'
    BY <1>2, <2>1, <2>6 DEF SourceInv, NoSources
  <2>7. Busy => op.dk \in DynaKube
    BY DEF TypeInv
  <2>8. Busy' /\ op'.copy.exists /\ ~op'.gone => dks'[op'.dk].exists
    BY <1>2, <1>4, <2>3, <2>7 DEF SourceInv
  <2>9. ASSUME Busy', op'.gone \/ ~op'.copy.exists PROVE NoSources(op.dk)'
    <3>1. NoSources(op.dk) \/ op.dk = d
      BY <1>4, <2>3, <2>9 DEF SourceInv
    <3> QED
      BY <2>1, <2>2, <2>3, <2>7, <2>9, <3>1 DEF NoSources
  <2>10. \A k \in Kind : Writing(k)' => (k[2] = "config" => Needed(k[1])') /\ (k[2] = "certs" => op'.copy.certs)
    BY <2>3, <2>4, <2>5, KindFacts DEF SourceInv
  <2>11. \A f \in Feature : Generating' /\ op'.kind = <<f, "certs">> => Needed(f)' /\ Heard(op.conds, f)'
    BY <2>3, <2>5 DEF SourceInv
  <2>12. ASSUME NEW e \in DynaKube \ tainted', NEW f \in Feature, ~(Busy' /\ op'.dk = e)
         PROVE  ConfigTold(conditions[e], e, f)' /\ CertsTold(conditions[e], e, f)'
    <3>1. CASE e = d
      BY <2>1, <3>1, KindFacts DEF ConfigTold, CertsTold
    <3>2. CASE e # d
      <4>1. ConfigTold(conditions[e], e, f) /\ CertsTold(conditions[e], e, f)
        BY <1>1, <2>3, <2>12 DEF SourceInv
      <4> QED
        BY <1>2, <3>2, <4>1 DEF ConfigTold, CertsTold, Tells, Heard
    <3> QED
      BY <3>1, <3>2
  <2>13. ASSUME Busy', op'.dk \notin tainted', NEW f \in Feature
         PROVE  /\ Writing(<<f, "config">>)' \/ ConfigTold(op.conds, op.dk, f)'
                /\ Writing(<<f, "certs">>)' \/ CertsTold(op.conds, op.dk, f)'
    <3>1. /\ Writing(<<f, "config">>) \/ ConfigTold(op.conds, op.dk, f)
          /\ Writing(<<f, "certs">>) \/ CertsTold(op.conds, op.dk, f)
      BY <1>1, <2>3, <2>13 DEF SourceInv
    <3>2. <<f, "config">> \in Kind /\ <<f, "certs">> \in Kind
      BY KindFacts
    <3>3. /\ ConfigTold(op.conds, op.dk, f) => ConfigTold(op.conds, op.dk, f)'
          /\ CertsTold(op.conds, op.dk, f) => CertsTold(op.conds, op.dk, f)'
      BY <2>2, <2>3, <2>7, <2>13, <3>2 DEF ConfigTold, CertsTold, Tells, Heard
    <3> QED
      BY <2>4, <3>1, <3>2, <3>3
  <2> QED
    BY <2>3, <2>6, <2>8, <2>9, <2>10, <2>11, <2>12, <2>13 DEF SourceInv
<1> QED
  BY <1>3, <1>4, EditDynaKubeFields

LEMMA SourceInit == Init => SourceInv
<1> SUFFICES ASSUME Init PROVE SourceInv
  OBVIOUS
<1>1. ~Busy /\ ~Undisturbed /\ ~Generating /\ \A k \in Kind : ~Writing(k)
  BY DEF Init, Idle, Busy, Undisturbed, Generating, Writing
<1>2. \A d \in DynaKube, k \in Kind : source[d][k] = NoSecret
  BY DEF Init
<1>3. \A d \in DynaKube : NoSources(d)
  BY <1>2 DEF NoSources
<1>4. \A d \in DynaKube, f \in Feature : ConfigTold(conditions[d], d, f) /\ CertsTold(conditions[d], d, f)
  BY <1>2, KindFacts DEF ConfigTold, CertsTold
<1>5. clean = {}
  BY DEF Init
<1> QED
  BY <1>1, <1>3, <1>4, <1>5 DEF SourceInv

LEMMA SourceNext == TypeInv /\ LabelInv /\ SourceInv /\ [Next]_vars => SourceInv'
<1> SUFFICES ASSUME TypeInv, LabelInv, SourceInv, [Next]_vars PROVE SourceInv'
  OBVIOUS
<1>0. conditions \in [DynaKube -> SUBSET Condition]
  BY DEF TypeInv, TypeOK
<1>1. ASSUME NEW d \in DynaKube, Begin(d) PROVE SourceInv'
  BY <1>1, BeginSources
<1>2. ASSUME NEW d \in DynaKube, SubReconcilersFail(d) PROVE SourceInv'
  <2>1. UNCHANGED <<dks, source, op, tainted>>
    BY <1>2 DEF SubReconcilersFail
  <2> QED
    BY <1>2, <2>1, SubReconcilersFailFields, OtherSources
<1>3. CASE Map
  <2>1. UNCHANGED <<dks, source, conditions, clean>>
    BY <1>3 DEF Map, objects
  <2>2. /\ op.pc = "map" /\ Busy /\ (op.failed => op'.failed)
        /\ \/ op'.pc = "labels" \/ ToSecrets
           \/ op'.pc = "unmap" /\ op'.failed
    BY <1>3, MapFields
  <2> QED
    BY <1>3, <2>1, <2>2, MapFields, QuietSources
<1>4. ASSUME NEW n \in Namespace, UpdateLabel(n) PROVE SourceInv'
  <2>1. UNCHANGED <<dks, source, conditions>>
    BY <1>4 DEF UpdateLabel
  <2>2. clean' \subseteq clean /\ (op.failed => op'.failed)
    BY <1>4, UpdateLabelFields DEF MappingFails
  <2> QED
    BY <1>4, <2>1, <2>2, UpdateLabelFields, QuietSources DEF MappingFails
<1>5. CASE Relabelled
  <2>1. UNCHANGED <<dks, source, conditions, clean, tainted>>
    BY <1>5 DEF Relabelled, objects
  <2> QED
    BY <1>5, <2>1, RelabelledFields, QuietSources
<1>6. ASSUME NEW n \in Namespace, DeleteUnmatched(n) PROVE SourceInv'
  <2>1. UNCHANGED <<dks, source, conditions, clean>>
    BY <1>6 DEF DeleteUnmatched
  <2> QED
    BY <1>6, <2>1, DeleteUnmatchedFields, QuietSources DEF MappingFails
<1>7. CASE Mapped
  <2>1. UNCHANGED <<dks, source, conditions, clean, tainted>>
    BY <1>7 DEF Mapped, objects
  <2> QED
    BY <1>7, <2>1, MappedFields, QuietSources
<1>8. ASSUME NEW f \in Feature, Cleanup(f) PROVE SourceInv'
  BY <1>8, CleanupSources
<1>9. ASSUME NEW f \in Feature, CleanupCerts(f) PROVE SourceInv'
  BY <1>9, CleanupCertsSources
<1>10. ASSUME NEW k \in Kind, WriteSource(k) PROVE SourceInv'
  BY <1>10, WriteSourceSources
<1>11. ASSUME NEW k \in Kind, ListSecrets(k) PROVE SourceInv'
  BY <1>11, ListSecretsSources
<1>12. ASSUME NEW k \in Kind, WriteSecrets(k) PROVE SourceInv'
  BY <1>12, WriteSecretsSources
<1>13. CASE Unmap
  <2>1. UNCHANGED <<dks, source, conditions, clean>>
    BY <1>13 DEF Unmap, objects
  <2>2. Unmapping /\ (op.failed => op'.failed) /\ op'.pc \in {"unmapLabels", "finish"}
    BY <1>13, UnmapFields DEF Unmapping, UnmappingFails
  <2> QED
    BY <1>13, <2>1, <2>2, UnmapFields, QuietSources
<1>14. ASSUME NEW n \in Namespace, UnmapLabel(n) PROVE SourceInv'
  <2>1. UNCHANGED <<dks, source, conditions>>
    BY <1>14 DEF UnmapLabel
  <2>2. Unmapping /\ (op.failed => op'.failed) /\ op'.pc \in {"unmapSecrets", "finish"} /\ clean' \subseteq clean
    BY <1>14, UnmapLabelFields DEF Unmapping, UnmappingFails
  <2> QED
    BY <1>14, <2>1, <2>2, UnmapLabelFields, QuietSources
<1>15. CASE UnmapSecrets
  <2>1. UNCHANGED <<dks, source, conditions, clean>>
    BY <1>15 DEF UnmapSecrets
  <2>2. Unmapping /\ (op.failed => op'.failed) /\ op'.pc \in {"unmapLabels", "finish"}
    BY <1>15, UnmapSecretsFields DEF Unmapping, UnmappingFails
  <2> QED
    BY <1>15, <2>1, <2>2, UnmapSecretsFields, QuietSources
<1>16. CASE Unmapped
  <2>1. UNCHANGED <<dks, source, conditions, clean, tainted>>
    BY <1>16 DEF Unmapped, objects
  <2>2. Unmapping
    BY <1>16, UnmappedFields DEF Unmapping
  <2> QED
    BY <1>16, <2>1, <2>2, UnmappedFields, QuietSources
<1>17. CASE Finish
  BY <1>17, FinishSources
<1>18. CASE Crash
  BY <1>18, CrashSources
<1>19. ASSUME NEW n \in Namespace, EditNamespace(n) PROVE SourceInv'
  <2>1. UNCHANGED <<source, conditions, tainted>>
    BY <1>19 DEF EditNamespace
  <2> QED
    BY <1>19, <2>1, EditNamespaceFields, DisturbedSources
<1>20. ASSUME NEW n \in Namespace, NEW k \in Kind, Replicate(n, k) PROVE SourceInv'
  <2>1. UNCHANGED <<dks, source, conditions, op, clean, tainted>>
    BY <1>20 DEF Replicate, objects
  <2> QED
    BY <1>0, <2>1, OtherSources
<1>21. CASE CacheSync
  <2>1. UNCHANGED <<dks, source, conditions, op, clean, tainted>>
    BY <1>21 DEF CacheSync, objects
  <2> QED
    BY <1>0, <2>1, OtherSources
<1>22. CASE CreateReplicated
  <2>1. UNCHANGED <<dks, source, conditions, tainted>>
    BY <1>22 DEF CreateReplicated
  <2> QED
    BY <1>0, <1>22, <2>1, CreateReplicatedFields, DisturbedSources, OtherSources
<1>23. ASSUME NEW d \in DynaKube, EditDynaKube(d) PROVE SourceInv'
  BY <1>23, EditDynaKubeSources
<1>24. CASE UNCHANGED vars
  <2>1. UNCHANGED <<dks, source, conditions, op, clean, tainted>>
    BY <1>24 DEF vars
  <2> QED
    BY <1>0, <2>1, OtherSources
<1> QED
  BY <1>1, <1>2, <1>3, <1>4, <1>5, <1>6, <1>7, <1>8, <1>9, <1>10, <1>11, <1>12, <1>13, <1>14, <1>15, <1>16, <1>17,
     <1>18, <1>19, <1>20, <1>21, <1>22, <1>23, <1>24 DEF Next, Reconcile

LEMMA SourcesFollow == SourceInv => SourcesAgree
<1> SUFFICES ASSUME SourceInv, Settled, NEW d \in DynaKube \ tainted, NEW k \in Kind
             PROVE  source[d][k] = Wanted(d, k) \/ Silent(d, k)
  BY DEF SourcesAgree, Wanted
<1>1. SourcesDone(d)
  BY DEF Settled, SourceInv
<1> QED
  BY <1>1 DEF SourcesDone

-----------------------------------------------------------------------------
(* What is left in a namespace that has no DynaKube any more.  The operator *)
(* takes a label first and deletes the secrets in a later step, so between  *)
(* the two op.removed says which namespaces are still to be cleaned; what   *)
(* an error or a crash keeps from being cleaned is in orphans.              *)

Mapping == op.pc \in {"labels", "unmatched"}
Empty(n) == \A k \in Kind : secret[n][k] = NoSecret

\* a namespace that the reconcile may write to
Given(n) == label[n] = op.dk \/ (op.disturbed /\ n \in orphans)

RemovedInv ==
    /\ op.pc = "map" => op.removed = {}
    /\ ~Mapping /\ op.pc # "unmapSecrets" => op.removed \subseteq orphans
    /\ Mapping => \A n \in op.removed, f \in Feature : <<f, n>> \notin op.flags
    /\ op.pc = "labels" => op.removed \subseteq op.owned \ op.todo
    /\ op.pc = "unmatched" => op.removed \subseteq op.todo

PlannedInv ==
    op.pc = "labels" =>
        /\ \A m \in op.flags : op.new[m[2]] = op.dk
        /\ \A n \in op.todo \ touched : op.new[n] # label[n] /\ (label[n] = op.dk => n \in op.owned)

GivenInv ==
    /\ Mapping => \A m \in op.flags : Given(m[2]) \/ (op.pc = "labels" /\ m[2] \in op.todo)
    /\ Generating => \A f \in Feature : \A n \in op.targets[f] : Given(n)

EmptyInv == \A n \in Namespace \ (orphans \cup op.removed) : label[n] = NoDynaKube => Empty(n)

PodInv == pod = NoPod \/ pod.held.dk \in DynaKube

LeftInv == RemovedInv /\ PlannedInv /\ GivenInv /\ EmptyInv /\ PodInv

-----------------------------------------------------------------------------
\* what the steps change of what the reconcile knows of the namespaces

LEMMA GenerateMapping ==
    ASSUME NEW r \in Reconciliation, NEW targets \in [Feature -> SUBSET Namespace]
    PROVE  Generate(r, targets).targets = targets /\ Generate(r, targets).removed = {}
BY DEF Generate, Reconciliation

\* the mapping fails: what carries the label is used, and what was taken is not cleaned any more
FailedMapping ==
    /\ ToSecrets /\ SameReconcile /\ op'.removed = {}
    /\ op'.targets = [f \in Feature |-> Labelled(op.dk)]
    /\ orphans' = orphans \cup op.removed
    /\ UNCHANGED <<label, secret>>

LEMMA MapFailedMapping ==
    ASSUME TypeInv, Busy, MapFailed(op), UNCHANGED <<label, secret>>
    PROVE  FailedMapping
<1> DEFINE r == [op EXCEPT !.failed = TRUE]
           targets == [f \in Feature |-> Labelled(op.dk)]
<1>1. r \in Reconciliation /\ r.dk = op.dk /\ r.removed = op.removed
  BY DEF TypeInv, TypeOK, Reconciliation
<1>2. targets \in [Feature -> SUBSET Namespace]
  BY DEF Labelled
<1>3. op' = Generate(r, targets) /\ orphans' = orphans \cup op.removed
  BY <1>1 DEF MapFailed
<1>4. op'.targets = targets /\ op'.removed = {}
  <2> HIDE DEF r, targets
  <2> QED
    BY <1>1, <1>2, <1>3, GenerateMapping
<1> QED
  BY <1>3, <1>4, MapFailedFields DEF FailedMapping, ToSecrets, SameReconcile

LEMMA MapMapping ==
    ASSUME TypeInv, Map
    PROVE  /\ op.pc = "map" /\ Busy /\ SameReconcile
           /\ \/ FailedMapping /\ op'.failed
              \/ /\ ToSecrets /\ op'.removed = {} /\ op'.targets = [f \in Feature |-> Labelled(op.dk)]
                 /\ op.copy.on = {} /\ UNCHANGED <<orphans, label, secret>>
              \/ op'.pc = "unmap" /\ SameMapping(op, op') /\ UNCHANGED <<orphans, label, secret>>
              \/ /\ op'.pc = "labels" /\ op.copy.on # {}
                 /\ \A n \in Namespace : ~Conflict([dks EXCEPT ![op.dk] = op.copy], n)
                 /\ op'.flags = Flags(op.copy) /\ op'.removed = op.removed
                 /\ op'.owned = Labelled(op.dk) \cup {m[2] : m \in Flags(op.copy)}
                 /\ op'.new = [n \in Namespace |-> Updated([dks EXCEPT ![op.dk] = op.copy], n)]
                 /\ op'.todo = {n \in Namespace : Updated([dks EXCEPT ![op.dk] = op.copy], n) # label[n]}
                 /\ UNCHANGED <<orphans, label, secret>>
<1> DEFINE list == [dks EXCEPT ![op.dk] = op.copy]
           flags == Flags(op.copy)
           targets == [f \in Feature |-> Labelled(op.dk)]
           owned == Labelled(op.dk) \cup {m[2] : m \in flags}
           new == [n \in Namespace |-> Updated(list, n)]
           todo == {n \in Namespace : Updated(list, n) # label[n]}
<1>1. op.pc = "map" /\ Busy /\ SameReconcile /\ UNCHANGED <<label, secret>> /\ op \in Reconciliation
  BY MapFields DEF Map, objects, TypeInv, TypeOK
<1>2. PICK fails \in MayFail :
        /\ Fault(fails)
        /\ IF op.copy.on = {}
           THEN /\ op' = IF fails THEN [op EXCEPT !.pc = "unmap", !.failed = TRUE] ELSE Generate(op, targets)
                /\ UNCHANGED <<touched, orphans>>
           ELSE IF fails \/ \E n \in Namespace : Conflict(list, n)
           THEN MapFailed(op) /\ UNCHANGED touched
           ELSE /\ op' = [op EXCEPT !.pc = "labels", !.flags = flags, !.owned = owned, !.new = new, !.todo = todo]
                /\ touched' = {}
                /\ UNCHANGED orphans
  BY DEF Map
<1>3. fails \in BOOLEAN
  BY <1>1, <1>2, FaultFacts
<1>4. CASE op.copy.on = {} /\ fails
  <2>1. op' = [op EXCEPT !.pc = "unmap", !.failed = TRUE] /\ UNCHANGED orphans
    BY <1>2, <1>4
  <2>2. op'.pc = "unmap" /\ SameMapping(op, op')
    BY <1>1, <2>1 DEF Reconciliation, SameMapping
  <2> QED
    BY <1>1, <2>1, <2>2
<1>5. CASE op.copy.on = {} /\ ~fails
  <2>1. op' = Generate(op, targets) /\ UNCHANGED orphans
    BY <1>2, <1>5
  <2>2. targets \in [Feature -> SUBSET Namespace]
    BY DEF Labelled
  <2>3. op'.targets = targets /\ op'.removed = {} /\ ToSecrets
    <3> HIDE DEF targets
    <3> QED
      BY <1>1, <2>1, <2>2, GenerateFields, GenerateMapping DEF ToSecrets
  <2> QED
    BY <1>1, <1>5, <2>1, <2>3
<1>6. CASE op.copy.on # {} /\ (fails \/ \E n \in Namespace : Conflict(list, n))
  <2>1. MapFailed(op)
    BY <1>2, <1>6
  <2> QED
    BY <1>1, <2>1, MapFailedMapping, MapFailedFields
<1>7. CASE op.copy.on # {} /\ ~(fails \/ \E n \in Namespace : Conflict(list, n))
  <2>1. /\ op' = [op EXCEPT !.pc = "labels", !.flags = flags, !.owned = owned, !.new = new, !.todo = todo]
        /\ UNCHANGED orphans
    BY <1>2, <1>7
  <2>2. op'.pc = "labels" /\ op'.removed = op.removed /\ op'.flags = flags /\ op'.owned = owned /\ op'.new = new /\ op'.todo = todo
    <3> HIDE DEF flags, owned, new, todo
    <3> QED
      BY <1>1, <2>1 DEF Reconciliation
  <2>3. \A n \in Namespace : ~Conflict(list, n)
    BY <1>7
  <2> QED
    BY <1>1, <1>7, <2>1, <2>2, <2>3
<1> QED
  BY <1>3, <1>4, <1>5, <1>6, <1>7

LEMMA UpdateLabelMapping ==
    ASSUME TypeInv, NEW n \in Namespace, UpdateLabel(n)
    PROVE  /\ op.pc = "labels" /\ Busy /\ SameReconcile /\ n \in op.todo
           /\ \/ FailedMapping /\ op'.failed /\ UNCHANGED clean
              \/ /\ n \notin touched /\ op'.pc = "labels" /\ op'.todo = op.todo \ {n} /\ op'.failed = op.failed
                 /\ op'.removed = IF label[n] = op.dk THEN op.removed \cup {n} ELSE op.removed
                 /\ op'.flags = op.flags /\ op'.owned = op.owned /\ op'.new = op.new
                 /\ label' = [label EXCEPT ![n] = op.new[n]] /\ clean' = clean \cap {op.dk}
                 /\ orphans' = IF label[n] \in {op.dk, NoDynaKube} THEN orphans ELSE orphans \cup {n}
<1>1. op.pc = "labels" /\ Busy /\ n \in op.todo /\ SameReconcile /\ op \in Reconciliation
  BY UpdateLabelFields DEF TypeInv, TypeOK
<1> DEFINE removed == IF label[n] = op.dk THEN op.removed \cup {n} ELSE op.removed
<1>2. PICK fails \in MayFail :
        /\ Fault(fails)
        /\ IF fails \/ n \in touched
           THEN MapFailed(op) /\ UNCHANGED <<label, clean>>
           ELSE /\ label' = [label EXCEPT ![n] = op.new[n]]
                /\ op' = [op EXCEPT !.todo = op.todo \ {n}, !.removed = removed]
                /\ orphans' = IF label[n] \in {op.dk, NoDynaKube} THEN orphans ELSE orphans \cup {n}
                /\ Changed(DynaKube \ {op.dk})
  BY DEF UpdateLabel
<1>3. CASE fails \/ n \in touched
  <2>1. MapFailed(op) /\ UNCHANGED <<label, clean, secret>>
    BY <1>2, <1>3 DEF UpdateLabel
  <2> QED
    BY <1>1, <2>1, MapFailedMapping, MapFailedFields
<1>4. CASE ~(fails \/ n \in touched)
  <2>1. /\ op' = [op EXCEPT !.todo = op.todo \ {n}, !.removed = removed]
        /\ label' = [label EXCEPT ![n] = op.new[n]] /\ n \notin touched
        /\ orphans' = IF label[n] \in {op.dk, NoDynaKube} THEN orphans ELSE orphans \cup {n}
    BY <1>2, <1>4
  <2>2. clean' = clean \cap {op.dk}
    BY <1>2, <1>4 DEF Changed, TypeInv, TypeOK
  <2>3. /\ op'.pc = "labels" /\ op'.todo = op.todo \ {n} /\ op'.failed = op.failed /\ op'.removed = removed
        /\ op'.flags = op.flags /\ op'.owned = op.owned /\ op'.new = op.new
    <3> HIDE DEF removed
    <3> QED
      BY <1>1, <2>1 DEF Reconciliation
  <2> QED
    BY <1>1, <2>1, <2>2, <2>3
<1> QED
  BY <1>3, <1>4

LEMMA RelabelledMapping ==
    ASSUME TypeInv, Relabelled
    PROVE  /\ op.pc = "labels" /\ Busy /\ SameReconcile /\ op.todo = {}
           /\ op'.pc = "unmatched" /\ op'.todo = op.owned /\ op'.failed = op.failed
           /\ op'.removed = op.removed /\ op'.flags = op.flags /\ op'.owned = op.owned
BY RelabelledFields DEF Relabelled, Reconciliation, TypeInv, TypeOK

LEMMA DeleteUnmatchedMapping ==
    ASSUME TypeInv, NEW n \in Namespace, DeleteUnmatched(n)
    PROVE  /\ op.pc = "unmatched" /\ Busy /\ SameReconcile /\ n \in op.todo
           /\ \/ FailedMapping /\ op'.failed
              \/ /\ op'.pc = "unmatched" /\ op'.failed = op.failed
                 /\ op'.todo = op.todo \ {n} /\ op'.removed = op.removed \ {n}
                 /\ op'.flags = op.flags /\ op'.owned = op.owned
                 /\ secret' = [secret EXCEPT ![n] = Without(@, UnmatchedKinds(n))]
                 /\ orphans' = IF UnmatchedKinds(n) = Kind THEN orphans \ {n} ELSE orphans
<1>1. op.pc = "unmatched" /\ Busy /\ n \in op.todo /\ SameReconcile /\ op \in Reconciliation /\ label' = label
  BY DeleteUnmatchedFields DEF DeleteUnmatched, TypeInv, TypeOK
<1> DEFINE todo == op.todo \ {n}
           removed == op.removed \ {n}
<1>2. PICK fails \in MayFail :
        /\ Fault(fails)
        /\ IF fails
           THEN MapFailed(op) /\ UNCHANGED secret
           ELSE /\ secret' = [secret EXCEPT ![n] = Without(@, UnmatchedKinds(n))]
                /\ op' = [op EXCEPT !.todo = todo, !.removed = removed]
                /\ orphans' = IF UnmatchedKinds(n) = Kind THEN orphans \ {n} ELSE orphans
  BY DEF DeleteUnmatched
<1>3. CASE fails
  BY <1>1, <1>2, <1>3, MapFailedMapping, MapFailedFields
<1>4. CASE ~fails
  <2>1. op' = [op EXCEPT !.todo = todo, !.removed = removed]
    BY <1>2, <1>4
  <2>2. /\ op'.pc = "unmatched" /\ op'.failed = op.failed /\ op'.todo = todo /\ op'.removed = removed
        /\ op'.flags = op.flags /\ op'.owned = op.owned
    <3> HIDE DEF todo, removed
    <3> QED
      BY <1>1, <2>1 DEF Reconciliation
  <2> QED
    BY <1>1, <1>2, <1>4, <2>2
<1> QED
  BY <1>3, <1>4

LEMMA MappedMapping ==
    ASSUME TypeInv, Mapped
    PROVE  /\ op.pc = "unmatched" /\ Busy /\ SameReconcile /\ ToSecrets /\ op.todo = {} /\ op'.failed = op.failed
           /\ op'.removed = {} /\ op'.targets = [f \in Feature |-> {n \in Namespace : <<f, n>> \in op.flags}]
<1> DEFINE targets == [f \in Feature |-> {n \in Namespace : <<f, n>> \in op.flags}]
<1>1. targets \in [Feature -> SUBSET Namespace]
  OBVIOUS
<1>2. op.todo = {} /\ op' = Generate(op, targets) /\ op \in Reconciliation
  BY DEF Mapped, TypeInv, TypeOK
<1>3. op'.targets = targets /\ op'.removed = {}
  <2> HIDE DEF targets
  <2> QED
    BY <1>1, <1>2, GenerateMapping
<1> QED
  BY <1>2, <1>3, MappedFields

-----------------------------------------------------------------------------
\* the steps keep what is left in bounds

LEMMA KeptGiven ==
    ASSUME UNCHANGED label, op'.dk = op.dk, op'.disturbed = op.disturbed, orphans \subseteq orphans'
    PROVE  \A n \in Namespace : Given(n) => Given(n)'
BY DEF Given

\* the secrets are generated next, for namespaces that are given
LEMMA ToSecretsLeft ==
    ASSUME TypeInv, LeftInv, Busy, op.pc # "unmapSecrets", ToSecrets, SameReconcile,
           UNCHANGED <<label, secret, pod>>, op'.removed = {}, orphans \cup op.removed \subseteq orphans',
           \A f \in Feature, n \in Namespace : n \in op'.targets[f] => Given(n)'
    PROVE  LeftInv'
<1>1. ~Mapping' /\ op'.pc # "labels"
  BY DEF Mapping, ToSecrets
<1>2. op' \in Reconciliation
  BY DEF SameReconcile
<1>3. \A f \in Feature : op'.targets[f] \subseteq Namespace
  BY <1>2 DEF Reconciliation
<1>4. EmptyInv'
  BY DEF LeftInv, EmptyInv, Empty
<1>5. RemovedInv'
  BY <1>1 DEF RemovedInv, ToSecrets
<1>6. GivenInv'
  BY <1>1, <1>3 DEF GivenInv
<1> QED
  BY <1>1, <1>4, <1>5, <1>6 DEF LeftInv, PlannedInv, PodInv

LEMMA FailedLeft ==
    ASSUME TypeInv, LeftInv, Busy, op.pc # "unmapSecrets", FailedMapping, UNCHANGED pod
    PROVE  LeftInv'
<1>1. op'.dk = op.dk /\ label' = label
  BY DEF FailedMapping, SameReconcile
<1>2. \A f \in Feature, n \in Namespace : n \in op'.targets[f] => Given(n)'
  BY <1>1 DEF FailedMapping, Labelled, Given
<1> QED
  BY <1>2, ToSecretsLeft DEF FailedMapping

\* the one DynaKube whose selectors match gets the namespace
LEMMA NoConflict ==
    ASSUME NEW list, NEW n \in Namespace, NEW d \in DynaKube, ~Conflict(list, n), d \in Matching(list, n)
    PROVE  Updated(list, n) = d
<1> DEFINE M == Matching(list, n)
<1>1. M \subseteq DynaKube
  BY DEF Matching
<1>2. IsFiniteSet(M) /\ Cardinality(M) \in Nat /\ Cardinality(M) <= 1
  <2>1. IsFiniteSet(M)
    BY <1>1, NamespaceAssumption, FS_Subset
  <2>2. Cardinality(M) \in Nat
    BY <2>1, FS_CardinalityType
  <2>3. ~(Cardinality(M) > 1)
    BY DEF Conflict
  <2> QED
    BY <2>1, <2>2, <2>3
<1>3. Cardinality(M) = 1
  <2>1. M # {}
    OBVIOUS
  <2>2. Cardinality(M) # 0
    BY <1>2, <2>1, FS_EmptySet
  <2> QED
    BY <1>2, <2>2
<1>4. PICK x : M = {x}
  BY <1>2, <1>3, FS_Singleton
<1>5. M = {d}
  BY <1>4
<1>6. (CHOOSE e \in M : TRUE) = d
  BY <1>5
<1> QED
  BY <1>5, <1>6 DEF Updated

LEMMA MapLeft ==
    ASSUME TypeInv, LabelInv, LeftInv, Map
    PROVE  LeftInv'
<1>1. UNCHANGED <<label, secret, pod>> /\ op.pc = "map" /\ Busy /\ SameReconcile
  BY MapMapping DEF Map, objects
<1>2. op.removed \subseteq orphans /\ op.removed = {} /\ op.dk \in DynaKube
  BY <1>1 DEF LeftInv, RemovedInv, Mapping, TypeInv
<1>3. CASE FailedMapping
  BY <1>1, <1>3, FailedLeft
<1>4. CASE ToSecrets /\ op'.removed = {} /\ op'.targets = [f \in Feature |-> Labelled(op.dk)] /\ UNCHANGED orphans
  <2>1. \A f \in Feature, n \in Namespace : n \in op'.targets[f] => Given(n)'
    BY <1>1, <1>4 DEF Labelled, Given, SameReconcile
  <2> QED
    BY <1>1, <1>2, <1>4, <2>1, ToSecretsLeft
<1>5. CASE op'.pc = "unmap" /\ SameMapping(op, op') /\ UNCHANGED orphans
  <2>1. ~Mapping' /\ ~Generating'
    BY <1>5 DEF Mapping, Generating
  <2>2. op'.removed = op.removed
    BY <1>5 DEF SameMapping
  <2> QED
    BY <1>1, <1>2, <1>5, <2>1, <2>2 DEF LeftInv, RemovedInv, PlannedInv, GivenInv, EmptyInv, Empty, PodInv
<1>6. CASE /\ op'.pc = "labels" /\ op.copy.on # {}
           /\ \A n \in Namespace : ~Conflict([dks EXCEPT ![op.dk] = op.copy], n)
           /\ op'.flags = Flags(op.copy) /\ op'.removed = op.removed
           /\ op'.owned = Labelled(op.dk) \cup {m[2] : m \in Flags(op.copy)}
           /\ op'.new = [n \in Namespace |-> Updated([dks EXCEPT ![op.dk] = op.copy], n)]
           /\ op'.todo = {n \in Namespace : Updated([dks EXCEPT ![op.dk] = op.copy], n) # label[n]}
           /\ UNCHANGED <<orphans, label, secret>>
  <2> DEFINE list == [dks EXCEPT ![op.dk] = op.copy]
  <2>1. list[op.dk] = op.copy /\ op.copy.exists /\ op.copy \in Spec
    BY <1>1, <1>2 DEF LabelInv, TypeInv, TypeOK, Reconciliation
  <2>2. ASSUME NEW m \in Flags(op.copy)
        PROVE  m[2] \in Namespace /\ op'.new[m[2]] = op.dk
    <3>1. m[2] \in Namespace
      BY <2>1 DEF Flags, Spec
    <3>2. op.dk \in Matching(list, m[2])
      BY <1>2, <2>1 DEF Matching
    <3>3. Updated(list, m[2]) = op.dk
      BY <1>2, <1>6, <3>1, <3>2, NoConflict
    <3> QED
      BY <1>6, <3>1, <3>3
  <2>3. Mapping' /\ ~Generating'
    BY <1>6 DEF Mapping, Generating
  <2>4. op' \in Reconciliation /\ op'.dk = op.dk
    BY <1>1 DEF SameReconcile
  <2>5. \A n \in Namespace : n \in op'.todo => op'.new[n] # label[n] /\ (label[n] = op.dk => n \in op'.owned)
    BY <1>6 DEF Labelled
  <2>6. op'.todo \subseteq Namespace
    BY <2>4 DEF Reconciliation
  <2>7. PlannedInv'
    BY <1>1, <1>6, <2>2, <2>4, <2>5, <2>6 DEF PlannedInv
  <2>8. \A m \in op'.flags : Given(m[2])' \/ m[2] \in op'.todo
    <3> SUFFICES ASSUME NEW m \in op'.flags, m[2] \notin op'.todo PROVE Given(m[2])'
      OBVIOUS
    <3>1. m[2] \in Namespace /\ op'.new[m[2]] = op.dk
      BY <1>6, <2>2
    <3>2. label[m[2]] = op'.new[m[2]]
      BY <1>6, <3>1
    <3> QED
      BY <1>6, <2>4, <3>1, <3>2 DEF Given
  <2>9. GivenInv'
    BY <1>6, <2>3, <2>8 DEF GivenInv
  <2> QED
    BY <1>1, <1>2, <1>6, <2>3, <2>7, <2>9 DEF LeftInv, RemovedInv, EmptyInv, Empty, PodInv
<1> QED
  BY <1>3, <1>4, <1>5, <1>6, MapMapping

LEMMA UpdateLabelLeft ==
    ASSUME TypeInv, LeftInv, NEW n \in Namespace, UpdateLabel(n)
    PROVE  LeftInv'
<1>1. UNCHANGED <<secret, pod, touched>> /\ op.pc = "labels" /\ Busy /\ SameReconcile /\ n \in op.todo /\ op.dk \in DynaKube
  BY UpdateLabelMapping DEF UpdateLabel, TypeInv
<1>2. CASE FailedMapping
  BY <1>1, <1>2, FailedLeft
<1>3. CASE /\ n \notin touched /\ op'.pc = "labels" /\ op'.todo = op.todo \ {n}
           /\ op'.removed = IF label[n] = op.dk THEN op.removed \cup {n} ELSE op.removed
           /\ op'.flags = op.flags /\ op'.owned = op.owned /\ op'.new = op.new
           /\ label' = [label EXCEPT ![n] = op.new[n]]
           /\ orphans' = IF label[n] \in {op.dk, NoDynaKube} THEN orphans ELSE orphans \cup {n}
  <2>1. /\ op \in Reconciliation /\ op' \in Reconciliation /\ op'.dk = op.dk /\ op'.disturbed = op.disturbed
        /\ label \in [Namespace -> DynaKube \cup {NoDynaKube}]
    BY <1>1 DEF TypeInv, TypeOK, SameReconcile
  <2>2. op.new[n] # label[n] /\ (label[n] = op.dk => n \in op.owned)
    BY <1>1, <1>3 DEF LeftInv, PlannedInv
  <2>3. Mapping /\ Mapping' /\ ~Generating'
    BY <1>1, <1>3 DEF Mapping, Generating
  <2>4. \A m \in op.flags : op.new[m[2]] = op.dk /\ m[2] \in Namespace
    BY <1>1, <2>1 DEF LeftInv, PlannedInv, Reconciliation
  <2>5. label'[n] = op.new[n] /\ \A m \in Namespace : m # n => label'[m] = label[m]
    BY <1>3, <2>1
  <2>6. EmptyInv'
    <3> SUFFICES ASSUME NEW m \in Namespace, m \notin orphans', m \notin op'.removed, label'[m] = NoDynaKube PROVE Empty(m)'
      BY DEF EmptyInv
    <3>1. m \notin orphans /\ m \notin op.removed
      BY <1>3
    <3>2. CASE m = n
      <4>1. label[n] = NoDynaKube
        BY <1>3, <3>2
      <4> QED
        BY <2>2, <2>5, <3>2, <4>1
    <3>3. CASE m # n
      BY <1>1, <2>5, <3>1, <3>3 DEF LeftInv, EmptyInv, Empty
    <3> QED
      BY <3>2, <3>3
  <2>7. RemovedInv'
    <3>1. ASSUME label[n] = op.dk, NEW f \in Feature PROVE <<f, n>> \notin op.flags
      BY <2>2, <2>4, <3>1
    <3>2. \A m \in op'.removed, f \in Feature : <<f, m>> \notin op'.flags
      BY <1>3, <2>3, <3>1 DEF LeftInv, RemovedInv
    <3>3. op'.removed \subseteq op'.owned \ op'.todo
      BY <1>1, <1>3, <2>2 DEF LeftInv, RemovedInv
    <3> QED
      BY <1>3, <2>3, <3>2, <3>3 DEF RemovedInv
  <2>8. PlannedInv'
    <3> SUFFICES ASSUME NEW m \in op'.todo \ touched'
                 PROVE  op'.new[m] # label'[m] /\ (label'[m] = op'.dk => m \in op'.owned)
      BY <1>3, <2>1, <2>4 DEF PlannedInv
    <3>1. m # n /\ m \in op.todo \ touched /\ m \in Namespace
      BY <1>1, <1>3, <2>1 DEF Reconciliation
    <3> QED
      BY <1>1, <1>3, <2>1, <2>5, <3>1 DEF LeftInv, PlannedInv
  <2>9. GivenInv'
    <3> SUFFICES ASSUME NEW m \in op'.flags, m[2] \notin op'.todo PROVE Given(m[2])'
      BY <1>3, <2>3 DEF GivenInv
    <3>1. m[2] \in Namespace /\ op.new[m[2]] = op.dk
      BY <1>3, <2>4
    <3>2. CASE m[2] = n
      BY <2>1, <2>5, <3>1, <3>2 DEF Given
    <3>3. CASE m[2] # n
      <4>1. m \in op.flags /\ m[2] \notin op.todo
        BY <1>3, <3>3
      <4>2. Given(m[2])
        BY <2>3, <4>1 DEF LeftInv, GivenInv
      <4> QED
        BY <1>3, <2>1, <2>5, <3>1, <3>3, <4>2 DEF Given
    <3> QED
      BY <3>2, <3>3
  <2> QED
    BY <1>1, <2>6, <2>7, <2>8, <2>9 DEF LeftInv, PodInv
<1> QED
  BY <1>2, <1>3, UpdateLabelMapping

LEMMA RelabelledLeft ==
    ASSUME TypeInv, LeftInv, Relabelled
    PROVE  LeftInv'
<1>1. UNCHANGED <<label, secret, orphans, pod>>
  BY DEF Relabelled, objects
<1>2. /\ op.pc = "labels" /\ op'.pc = "unmatched" /\ op.todo = {} /\ op'.todo = op.owned
      /\ op'.removed = op.removed /\ op'.flags = op.flags /\ op'.owned = op.owned
      /\ op'.dk = op.dk /\ op'.disturbed = op.disturbed
  BY RelabelledMapping DEF SameReconcile
<1>3. Mapping /\ Mapping' /\ ~Generating'
  BY <1>2 DEF Mapping, Generating
<1>4. RemovedInv'
  BY <1>2, <1>3 DEF LeftInv, RemovedInv
<1>5. \A m \in op.flags : Given(m[2])'
  BY <1>1, <1>2, <1>3 DEF LeftInv, GivenInv, Given
<1>6. GivenInv'
  BY <1>2, <1>3, <1>5 DEF GivenInv
<1> QED
  BY <1>1, <1>2, <1>4, <1>6 DEF LeftInv, PlannedInv, EmptyInv, Empty, PodInv

\* the kinds that a reconcile deletes in a namespace
LEMMA UnmatchedFacts ==
    ASSUME NEW n \in Namespace
    PROVE  /\ \A k \in Kind : k \in UnmatchedKinds(n) <=> <<k[1], n>> \notin op.flags
           /\ UnmatchedKinds(n) = Kind <=> \A f \in Feature : <<f, n>> \notin op.flags
<1>1. \A k \in Kind : k \in UnmatchedKinds(n) <=> <<k[1], n>> \notin op.flags
  BY KindFacts DEF UnmatchedKinds, KindsOf
<1>2. UnmatchedKinds(n) \subseteq Kind
  BY DEF UnmatchedKinds, KindsOf
<1>3. \A f \in Feature : <<f, "config">> \in Kind /\ <<f, "config">>[1] = f
  BY KindFacts
<1> QED
  BY <1>1, <1>2, <1>3, KindFacts

LEMMA DeleteUnmatchedLeft ==
    ASSUME TypeInv, LeftInv, NEW n \in Namespace, DeleteUnmatched(n)
    PROVE  LeftInv'
<1>1. UNCHANGED <<label, pod, touched>> /\ op.pc = "unmatched" /\ Busy /\ SameReconcile /\ n \in op.todo
  BY DeleteUnmatchedMapping DEF DeleteUnmatched
<1>2. CASE FailedMapping
  BY <1>1, <1>2, FailedLeft
<1>3. CASE /\ op'.pc = "unmatched" /\ op'.todo = op.todo \ {n} /\ op'.removed = op.removed \ {n}
           /\ op'.flags = op.flags /\ op'.owned = op.owned
           /\ secret' = [secret EXCEPT ![n] = Without(@, UnmatchedKinds(n))]
           /\ orphans' = IF UnmatchedKinds(n) = Kind THEN orphans \ {n} ELSE orphans
  <2>1. op \in Reconciliation /\ op'.dk = op.dk /\ op'.disturbed = op.disturbed /\ secret \in [Namespace -> [Kind -> Secret]]
    BY <1>1 DEF TypeInv, TypeOK, SameReconcile
  <2>2. Mapping /\ Mapping' /\ ~Generating'
    BY <1>1, <1>3 DEF Mapping, Generating
  <2>3. /\ \A k \in Kind : secret'[n][k] = IF k \in UnmatchedKinds(n) THEN NoSecret ELSE secret[n][k]
        /\ \A m \in Namespace : m # n => secret'[m] = secret[m]
    BY <1>3, <2>1 DEF Without
  <2>4. EmptyInv'
    <3> SUFFICES ASSUME NEW m \in Namespace, m \notin orphans', m \notin op'.removed, label'[m] = NoDynaKube PROVE Empty(m)'
      BY DEF EmptyInv
    <3>1. CASE m \notin orphans /\ m \notin op.removed
      <4>1. Empty(m)
        BY <1>1, <3>1 DEF LeftInv, EmptyInv
      <4> QED
        BY <2>3, <4>1 DEF Empty
    <3>2. CASE m \in orphans
      <4>1. m = n /\ UnmatchedKinds(n) = Kind
        BY <1>3, <3>2
      <4> QED
        BY <2>3, <4>1 DEF Empty
    <3>3. CASE m \in op.removed
      <4>1. m = n /\ \A f \in Feature : <<f, n>> \notin op.flags
        BY <1>3, <2>2, <3>3 DEF LeftInv, RemovedInv
      <4>2. UnmatchedKinds(n) = Kind
        BY <4>1, UnmatchedFacts
      <4> QED
        BY <2>3, <4>1, <4>2 DEF Empty
    <3> QED
      BY <3>1, <3>2, <3>3
  <2>5. RemovedInv'
    BY <1>1, <1>3, <2>2 DEF LeftInv, RemovedInv
  <2>6. \A m \in op.flags : Given(m[2])'
    <3> SUFFICES ASSUME NEW m \in op.flags PROVE Given(m[2])'
      OBVIOUS
    <3>1. m = <<m[1], m[2]>> /\ m[1] \in Feature
      BY <2>1 DEF Reconciliation
    <3>2. Given(m[2])
      BY <1>1, <2>2 DEF LeftInv, GivenInv
    <3>3. m[2] \in orphans => m[2] \in orphans'
      BY <1>3, <3>1, UnmatchedFacts
    <3> QED
      BY <1>1, <2>1, <3>2, <3>3 DEF Given
  <2>7. GivenInv'
    BY <1>3, <2>2, <2>6 DEF GivenInv
  <2> QED
    BY <1>1, <1>3, <2>4, <2>5, <2>7 DEF LeftInv, PlannedInv, PodInv
<1> QED
  BY <1>2, <1>3, DeleteUnmatchedMapping

LEMMA MappedLeft ==
    ASSUME TypeInv, LeftInv, Mapped
    PROVE  LeftInv'
<1>1. UNCHANGED <<label, secret, orphans, pod>>
  BY DEF Mapped, objects
<1>2. /\ op.pc = "unmatched" /\ Busy /\ SameReconcile /\ ToSecrets /\ op.todo = {} /\ op'.removed = {}
      /\ op'.targets = [f \in Feature |-> {n \in Namespace : <<f, n>> \in op.flags}]
  BY MappedMapping
<1>3. op.removed = {}
  BY <1>2 DEF LeftInv, RemovedInv
<1>4. \A f \in Feature, n \in Namespace : n \in op'.targets[f] => Given(n)'
  <2> SUFFICES ASSUME NEW f \in Feature, NEW n \in Namespace, n \in op'.targets[f] PROVE Given(n)'
    OBVIOUS
  <2>1. <<f, n>> \in op.flags /\ <<f, n>>[2] = n
    BY <1>2
  <2>2. Given(n)
    BY <1>2, <2>1 DEF LeftInv, GivenInv, Mapping
  <2> QED
    BY <1>1, <1>2, <2>2 DEF Given, SameReconcile
<1> QED
  BY <1>1, <1>2, <1>3, <1>4, ToSecretsLeft

-----------------------------------------------------------------------------
\* what the generation of the secrets does to the copies

\* the copies of some kinds are deleted in some namespaces
Deletes(ks, ns) ==
    \A n \in Namespace, k \in Kind : secret'[n][k] = IF n \in ns /\ k \in ks THEN NoSecret ELSE secret[n][k]

LEMMA DeleteSecretsEffect ==
    ASSUME NEW ks, NEW ns, DeleteSecrets(ks, ns)
    PROVE  Deletes(ks, ns)
BY DEF DeleteSecrets, Without, Deletes

LEMMA CleanupEffect ==
    ASSUME TypeInv, NEW f \in Feature, Cleanup(f)
    PROVE  /\ UNCHANGED <<label, pod, touched, dks, conditions, clean>> /\ orphans \subseteq orphans'
           /\ \/ ~CleanupDue(f) /\ UNCHANGED <<secret, orphans>> /\ op'.conds = op.conds
              \/ op.dk \in tainted' /\ UNCHANGED secret
              \/ Deletes(KindsOf({f}), op.targets[f]) /\ orphans' = orphans \cup LateCopies(f)
<1>1. UNCHANGED <<label, pod, touched, dks, conditions, clean>> /\ orphans \subseteq orphans'
  BY CleanupOrphans DEF Cleanup
<1>2. op \in Reconciliation /\ <<f, "certs">> \in Kind /\ Busy
  BY KindFacts DEF TypeInv, TypeOK, Cleanup, At, Busy
<1>3. CASE ~CleanupDue(f)
  <2>1. op' = AfterKind(op, <<f, "certs">>) /\ UNCHANGED <<secret, orphans>>
    BY <1>3 DEF Cleanup
  <2> QED
    BY <1>1, <1>2, <1>3, <2>1, AfterKindFields
<1>4. CASE CleanupDue(f)
  <2>1. PICK fails \in MayFail :
          /\ Fault(fails)
          /\ IF fails THEN UNCHANGED secret ELSE DeleteSecrets(KindsOf({f}), op.targets[f])
          /\ orphans' = orphans \cup LateCopies(f)
    BY <1>4 DEF Cleanup
  <2>2. fails \in BOOLEAN /\ (fails => op.dk \in tainted')
    BY <1>2, <2>1, FaultFacts
  <2> QED
    BY <1>1, <2>1, <2>2, DeleteSecretsEffect
<1> QED
  BY <1>3, <1>4

LEMMA CleanupCertsEffect ==
    ASSUME TypeInv, NEW f \in Feature, CleanupCerts(f)
    PROVE  /\ UNCHANGED <<label, pod, touched, dks, conditions, clean>> /\ orphans \subseteq orphans'
           /\ \/ <<f, "certs">> \notin op.conds /\ UNCHANGED <<secret, orphans>> /\ op'.conds = op.conds
              \/ op.dk \in tainted' /\ op'.failed /\ UNCHANGED secret
              \/ Deletes({<<f, "certs">>}, op.targets[f]) /\ orphans' = orphans \cup LateCopies(f)
<1> DEFINE k == <<f, "certs">>
<1>1. UNCHANGED <<label, pod, touched, dks, conditions, clean>> /\ orphans \subseteq orphans'
  BY CleanupOrphans DEF CleanupCerts
<1>2. op \in Reconciliation /\ k \in Kind /\ Busy
  BY KindFacts DEF TypeInv, TypeOK, CleanupCerts, At, Busy
<1>3. CASE k \notin op.conds
  <2>1. op' = AfterKind(op, k) /\ UNCHANGED <<secret, orphans>>
    BY <1>3 DEF CleanupCerts
  <2> QED
    BY <1>1, <1>2, <1>3, <2>1, AfterKindFields
<1>4. CASE k \in op.conds
  <2>1. PICK fails \in MayFail :
          /\ Fault(fails)
          /\ IF fails THEN UNCHANGED secret ELSE DeleteSecrets({k}, op.targets[f])
          /\ orphans' = orphans \cup LateCopies(f)
          /\ fails => \E told \in SUBSET Telling(k) : op' = [AfterError(op, k, told) EXCEPT !.conds = @ \ {k}]
    BY <1>4 DEF CleanupCerts
  <2>2. fails \in BOOLEAN /\ (fails => op.dk \in tainted')
    BY <1>2, <2>1, FaultFacts
  <2>3. CASE fails
    <3>0. PICK told \in SUBSET Telling(k) : op' = [AfterError(op, k, told) EXCEPT !.conds = @ \ {k}]
      BY <2>1, <2>3
    <3> DEFINE r == AfterError(op, k, told)
    <3>1. r \in Reconciliation /\ r.failed
      BY <1>2, AfterErrorFields DEF Kept
    <3>2. op' = [r EXCEPT !.conds = r.conds \ {k}]
      BY <3>0
    <3>3. op'.failed
      <4> HIDE DEF r
      <4> QED
        BY <3>1, <3>2 DEF Reconciliation
    <3> QED
      BY <1>1, <2>1, <2>2, <2>3, <3>3
  <2>4. CASE ~fails
    BY <1>1, <2>1, <2>4, DeleteSecretsEffect
  <2> QED
    BY <2>2, <2>3, <2>4
<1> QED
  BY <1>3, <1>4

\* the copy of one kind is written in some namespaces
Writes(k, ns) ==
    \A n \in Namespace, j \in Kind :
        secret'[n][j] = IF n \in ns /\ j = k THEN Content(op.dk, op.copy) ELSE secret[n][j]

LEMMA WriteSecretsEffect ==
    ASSUME TypeInv, NEW k \in Kind, WriteSecrets(k)
    PROVE  /\ UNCHANGED <<label, pod, touched, dks, conditions, clean, orphans>>
           /\ \E ns \in SUBSET op.targets[k[1]] :
                 Writes(k, ns) /\ (op'.failed \/ (ns = op.targets[k[1]] /\ op'.failed = op.failed))
<1> DEFINE ns == op.targets[k[1]]
<1>1. PICK lost \in SUBSET ns :
        LET refused == {n \in ns : n \notin op.existing /\ secret[n][k] # NoSecret} \cup lost
        IN /\ secret' = [n \in Namespace |-> IF n \in ns \ refused THEN [secret[n] EXCEPT ![k] = Content(op.dk, op.copy)] ELSE secret[n]]
           /\ refused # {} => \E told \in SUBSET Telling(k) : op' = AfterError(op, k, told)
           /\ refused = {} => op' = AfterKind([op EXCEPT !.conds = @ \cup {k} \cup IF k[1] = "otlp" THEN {<<"otlp", "feature">>} ELSE {}], k)
  BY DEF WriteSecrets, Telling
<1> DEFINE refused == {n \in ns : n \notin op.existing /\ secret[n][k] # NoSecret} \cup lost
<1>2. op \in Reconciliation /\ secret \in [Namespace -> [Kind -> Secret]]
  BY DEF TypeInv, TypeOK
<1>3. Writes(k, ns \ refused)
  <2>1. secret' = [n \in Namespace |-> IF n \in ns \ refused THEN [secret[n] EXCEPT ![k] = Content(op.dk, op.copy)] ELSE secret[n]]
    BY <1>1
  <2> HIDE DEF refused, ns
  <2> QED
    BY <1>2, <2>1 DEF Writes
<1>4. CASE refused # {}
  <2>1. op'.failed
    BY <1>1, <1>2, <1>4, AfterErrorFields
  <2> QED
    BY <1>3, <2>1 DEF WriteSecrets
<1>5. CASE refused = {}
  <2> DEFINE conds == op.conds \cup {k} \cup IF k[1] = "otlp" THEN {<<"otlp", "feature">>} ELSE {}
             r == [op EXCEPT !.conds = conds]
  <2>1. op' = AfterKind(r, k) /\ ns \ refused = ns
    BY <1>1, <1>5
  <2>2. conds \subseteq Condition
    BY <1>2, KindFacts DEF Reconciliation, Condition, Kind, Feature
  <2> HIDE DEF conds
  <2>3. r \in Reconciliation /\ r.failed = op.failed
    BY <1>2, <2>2 DEF Reconciliation
  <2> HIDE DEF r
  <2>4. op'.failed = op.failed
    BY <2>1, <2>3, AfterKindFields
  <2> QED
    BY <1>3, <2>1, <2>4 DEF WriteSecrets
<1> QED
  BY <1>4, <1>5

\* the generation changes copies only where it was given the namespace
LEMMA GeneratingLeft ==
    ASSUME TypeInv, LeftInv, Generating, Kept(op, op'), op'.pc \notin {"map", "labels", "unmatched", "unmapSecrets"},
           UNCHANGED <<label, pod>>, orphans \subseteq orphans',
           \A n \in Namespace, k \in Kind : label[n] = NoDynaKube /\ n \notin orphans => secret'[n][k] \in {secret[n][k], NoSecret}
    PROVE  LeftInv'
<1>1. /\ op'.dk = op.dk /\ op'.disturbed = op.disturbed /\ op'.removed = op.removed /\ op'.targets = op.targets
      /\ op \in Reconciliation
  BY DEF Kept, SameMapping, TypeInv, TypeOK
<1>2. ~Mapping /\ ~Mapping' /\ op.removed \subseteq orphans
  BY DEF LeftInv, RemovedInv, Mapping, Generating
<1>3. \A f \in Feature : op.targets[f] \subseteq Namespace
  BY <1>1 DEF Reconciliation
<1>4. GivenInv'
  BY <1>1, <1>2, <1>3, KeptGiven DEF LeftInv, GivenInv
<1>5. EmptyInv'
  BY <1>1 DEF LeftInv, EmptyInv, Empty
<1>6. RemovedInv'
  BY <1>1, <1>2 DEF RemovedInv
<1> QED
  BY <1>4, <1>5, <1>6 DEF LeftInv, PlannedInv, PodInv

LEMMA CleanupLeft ==
    ASSUME TypeInv, LeftInv, NEW f \in Feature, Cleanup(f) \/ CleanupCerts(f)
    PROVE  LeftInv'
<1>1. Kept(op, op') /\ op.pc = "source" /\ op'.pc \in {"source", "unmap", "finish"}
  BY CleanupFields, CleanupCertsFields, KindCases, KindFacts DEF GoesOn
<1>2. UNCHANGED <<label, pod>> /\ orphans \subseteq orphans'
  BY CleanupEffect, CleanupCertsEffect
<1>3. \A n \in Namespace, k \in Kind : secret'[n][k] \in {secret[n][k], NoSecret}
  BY CleanupEffect, CleanupCertsEffect DEF Deletes
<1> QED
  BY <1>1, <1>2, <1>3, GeneratingLeft DEF Generating

LEMMA WriteSourceLeft ==
    ASSUME TypeInv, LeftInv, NEW k \in Kind, WriteSource(k) \/ ListSecrets(k)
    PROVE  LeftInv'
<1>1. Kept(op, op') /\ op.pc \in {"source", "list"} /\ op'.pc \in {"source", "list", "write", "unmap", "finish"}
  BY WriteSourceFields, ListSecretsFields, KindCases DEF GoesOn, ErrorEnds
<1>2. UNCHANGED <<label, pod, secret, orphans>>
  BY DEF WriteSource, ListSecrets, objects
<1> QED
  BY <1>1, <1>2, GeneratingLeft DEF Generating

LEMMA WriteSecretsLeft ==
    ASSUME TypeInv, LeftInv, NEW k \in Kind, WriteSecrets(k)
    PROVE  LeftInv'
<1>1. Kept(op, op') /\ op.pc = "write" /\ op'.pc \in {"source", "unmap", "finish"}
  BY WriteSecretsFields, KindCases DEF GoesOn, ErrorEnds
<1>2. UNCHANGED <<label, pod, orphans>> /\ op.dk \in DynaKube /\ k[1] \in Feature
  BY <1>1, WriteSecretsEffect, KindFacts DEF TypeInv, Busy
<1>3. PICK ns \in SUBSET op.targets[k[1]] : Writes(k, ns)
  BY WriteSecretsEffect
<1>4. ASSUME NEW n \in Namespace, NEW j \in Kind, label[n] = NoDynaKube, n \notin orphans
      PROVE  secret'[n][j] = secret[n][j]
  <2>1. ~Given(n)
    BY <1>2, <1>4, NamespaceAssumption DEF Given
  <2>2. n \notin ns
    BY <1>1, <1>2, <2>1 DEF LeftInv, GivenInv, Generating
  <2> QED
    BY <1>3, <2>2 DEF Writes
<1> QED
  BY <1>1, <1>2, <1>4, GeneratingLeft DEF Generating

-----------------------------------------------------------------------------
\* the unmapping, and what others do

LEMMA UnmapLabelMapping ==
    ASSUME TypeInv, NEW n \in Namespace, UnmapLabel(n)
    PROVE  /\ op.pc = "unmapLabels" /\ SameReconcile /\ UNCHANGED <<secret, pod, touched, orphans>>
           /\ \/ UnmappingFails /\ op'.removed = op.removed
              \/ /\ op'.pc = "unmapSecrets" /\ op'.removed = {n} /\ op'.failed = op.failed
                 /\ label' = [label EXCEPT ![n] = NoDynaKube]
<1>1. op.pc = "unmapLabels" /\ SameReconcile /\ UNCHANGED <<secret, pod, touched, orphans>> /\ op \in Reconciliation
  BY UnmapLabelFields DEF UnmapLabel, TypeInv, TypeOK
<1> DEFINE todo == op.todo \ {n}
           removed == {n}
<1>2. PICK fails \in MayFail :
        IF fails \/ n \in touched
        THEN op' = UnmapFails(op) /\ UNCHANGED <<label, clean>>
        ELSE /\ label' = [label EXCEPT ![n] = NoDynaKube]
             /\ op' = [op EXCEPT !.pc = "unmapSecrets", !.todo = todo, !.removed = removed]
  BY DEF UnmapLabel
<1>3. CASE fails \/ n \in touched
  BY <1>1, <1>2, <1>3, UnmapFailsFields DEF UnmappingFails, SameMapping
<1>4. CASE ~(fails \/ n \in touched)
  <2>1. op' = [op EXCEPT !.pc = "unmapSecrets", !.todo = todo, !.removed = removed]
    BY <1>2, <1>4
  <2>2. op'.pc = "unmapSecrets" /\ op'.removed = removed /\ op'.failed = op.failed
    <3> HIDE DEF todo, removed
    <3> QED
      BY <1>1, <2>1 DEF Reconciliation
  <2> QED
    BY <1>1, <1>2, <1>4, <2>2
<1> QED
  BY <1>3, <1>4

LEMMA UnmapSecretsMapping ==
    ASSUME TypeInv, UnmapSecrets
    PROVE  /\ op.pc = "unmapSecrets" /\ SameReconcile /\ UNCHANGED <<label, pod, touched>>
           /\ \/ UnmappingFails /\ op'.removed = op.removed /\ orphans' = orphans \cup op.removed
              \/ /\ op'.pc = "unmapLabels" /\ op'.removed = {} /\ op'.failed = op.failed
                 /\ Deletes(Kind, op.removed) /\ orphans' = orphans \ op.removed
<1>1. op.pc = "unmapSecrets" /\ SameReconcile /\ UNCHANGED <<label, pod, touched, clean>> /\ op \in Reconciliation
  BY UnmapSecretsFields DEF UnmapSecrets, TypeInv, TypeOK
<1>2. PICK fails \in MayFail :
        IF fails
        THEN op' = UnmapFails(op) /\ orphans' = orphans \cup op.removed /\ UNCHANGED secret
        ELSE /\ DeleteSecrets(Kind, op.removed)
             /\ op' = [op EXCEPT !.pc = "unmapLabels", !.removed = {}]
             /\ orphans' = orphans \ op.removed
  BY DEF UnmapSecrets
<1>3. CASE fails
  BY <1>1, <1>2, <1>3, UnmapFailsFields DEF UnmappingFails, SameMapping
<1>4. CASE ~fails
  <2>1. op'.pc = "unmapLabels" /\ op'.removed = {} /\ op'.failed = op.failed
    BY <1>1, <1>2, <1>4 DEF Reconciliation
  <2> QED
    BY <1>1, <1>2, <1>4, <2>1, DeleteSecretsEffect
<1> QED
  BY <1>3, <1>4

\* a step of the operator that neither maps nor generates, and does not touch labels and copies
LEMMA QuietLeft ==
    ASSUME TypeInv, LeftInv, ~Mapping, op.pc # "unmapSecrets", UNCHANGED <<label, secret, pod>>,
           op'.pc \in {"idle", "map", "unmap", "unmapLabels", "finish"},
           op.removed \cup orphans \subseteq orphans', op'.removed \subseteq orphans', op'.pc = "map" => op'.removed = {}
    PROVE  LeftInv'
<1>1. ~Mapping' /\ ~Generating' /\ op'.pc # "unmapSecrets" /\ op'.pc # "labels"
  BY DEF Mapping, Generating
<1>2. EmptyInv'
  BY DEF LeftInv, EmptyInv, Empty
<1> QED
  BY <1>1, <1>2 DEF LeftInv, RemovedInv, PlannedInv, GivenInv, PodInv

LEMMA UnmappingLeft ==
    ASSUME TypeInv, LeftInv, Unmap \/ Unmapped \/ Finish
    PROVE  LeftInv'
<1>1. op.pc \in {"unmap", "unmapLabels", "finish"} /\ UNCHANGED <<label, secret, pod, orphans>>
  BY DEF Unmap, Unmapped, Finish, objects
<1>2. op.removed \subseteq orphans /\ ~Mapping
  BY <1>1 DEF LeftInv, RemovedInv, Mapping
<1>3. op'.pc \in {"idle", "unmapLabels", "finish"} /\ op'.removed \subseteq orphans
  <2>1. op \in Reconciliation
    BY DEF TypeInv, TypeOK
  <2>2. CASE Unmap
    <3>1. op' = UnmapFails(op) \/ op' = [op EXCEPT !.pc = "unmapLabels", !.todo = Labelled(op.dk)]
      BY <2>2 DEF Unmap
    <3>2. CASE op' = UnmapFails(op)
      BY <1>2, <2>1, <3>2, UnmapFailsFields DEF SameMapping
    <3>3. CASE op' = [op EXCEPT !.pc = "unmapLabels", !.todo = Labelled(op.dk)]
      BY <1>2, <2>1, <3>3 DEF Reconciliation
    <3> QED
      BY <3>1, <3>2, <3>3
  <2>3. CASE Unmapped
    BY <1>2, <2>1, <2>3 DEF Unmapped, Reconciliation
  <2>4. CASE Finish
    BY <2>4 DEF Finish, Idle
  <2> QED
    BY <2>2, <2>3, <2>4
<1> QED
  BY <1>1, <1>2, <1>3, QuietLeft

LEMMA UnmapLabelLeft ==
    ASSUME TypeInv, LeftInv, NEW n \in Namespace, UnmapLabel(n)
    PROVE  LeftInv'
<1>1. op.pc = "unmapLabels" /\ UNCHANGED <<secret, pod, touched, orphans>>
  BY UnmapLabelMapping
<1>2. op.removed \subseteq orphans /\ ~Mapping
  BY <1>1 DEF LeftInv, RemovedInv, Mapping
<1>3. CASE UnmappingFails /\ op'.removed = op.removed
  BY <1>1, <1>2, <1>3, QuietLeft DEF UnmappingFails
<1>4. CASE op'.pc = "unmapSecrets" /\ op'.removed = {n} /\ label' = [label EXCEPT ![n] = NoDynaKube]
  <2>1. ~Mapping' /\ ~Generating'
    BY <1>4 DEF Mapping, Generating
  <2>2. EmptyInv'
    <3>1. \A m \in Namespace : m # n => label'[m] = label[m]
      BY <1>4 DEF TypeInv, TypeOK
    <3> QED
      BY <1>1, <1>2, <1>4, <3>1 DEF LeftInv, EmptyInv, Empty
  <2> QED
    BY <1>1, <1>4, <2>1, <2>2 DEF LeftInv, RemovedInv, PlannedInv, GivenInv, PodInv
<1> QED
  BY <1>3, <1>4, UnmapLabelMapping

LEMMA UnmapSecretsLeft ==
    ASSUME TypeInv, LeftInv, UnmapSecrets
    PROVE  LeftInv'
<1>1. op.pc = "unmapSecrets" /\ UNCHANGED <<label, pod, touched>>
  BY UnmapSecretsMapping
<1>2. ~Mapping' /\ ~Generating' /\ op'.pc \in {"unmapLabels", "finish"} /\ op'.removed \subseteq orphans'
  BY UnmapSecretsMapping DEF UnmappingFails, Mapping, Generating
<1>3. EmptyInv'
  <2>1. CASE secret' = secret /\ orphans' = orphans \cup op.removed
    BY <1>1, <2>1 DEF LeftInv, EmptyInv, Empty
  <2>2. CASE Deletes(Kind, op.removed) /\ orphans' = orphans \ op.removed
    BY <1>1, <2>2 DEF LeftInv, EmptyInv, Empty, Deletes
  <2> QED
    BY <2>1, <2>2, UnmapSecretsMapping DEF UnmappingFails
<1> QED
  BY <1>1, <1>2, <1>3 DEF LeftInv, RemovedInv, PlannedInv, GivenInv, PodInv

LEMMA CrashLeft ==
    ASSUME TypeInv, LeftInv, Crash
    PROVE  LeftInv'
<1>1. UNCHANGED <<label, secret, pod>> /\ op' = Idle /\ orphans' = orphans \cup op.removed
  BY DEF Crash, objects
<1>2. ~Mapping' /\ ~Generating' /\ op'.pc = "idle" /\ op'.removed = {}
  BY <1>1 DEF Mapping, Generating, Idle
<1>3. EmptyInv'
  BY <1>1 DEF LeftInv, EmptyInv, Empty
<1> QED
  BY <1>1, <1>2, <1>3 DEF LeftInv, RemovedInv, PlannedInv, GivenInv, PodInv

LEMMA BeginLeft ==
    ASSUME TypeInv, LeftInv, NEW d \in DynaKube, Begin(d)
    PROVE  LeftInv'
<1>1. ~Busy /\ op.pc = "idle" /\ UNCHANGED <<label, secret, pod, orphans>>
  BY DEF Begin, Busy, objects
<1>2. op'.pc \in {"map", "unmap"}
  BY BeginFields
<1>3. op'.removed = {}
  <2> DEFINE conds == conditions[d] \cup
                        IF dks[d].exists /\ "bootstrap" \in dks[d].on THEN {<<"bootstrap", "feature">>} ELSE {}
             pc == IF dks[d].exists THEN "map" ELSE "unmap"
  <2>1. op' = [Idle EXCEPT !.dk = d, !.copy = dks[d], !.pc = pc, !.conds = conds]
    BY DEF Begin
  <2> HIDE DEF conds, pc
  <2>2. Idle.removed = {}
    BY DEF Idle
  <2> QED
    BY <2>1, <2>2, IdleType DEF Reconciliation
<1>4. op.removed \subseteq orphans /\ ~Mapping
  BY <1>1 DEF LeftInv, RemovedInv, Mapping
<1> QED
  BY <1>1, <1>2, <1>3, <1>4, QuietLeft

\* steps that change none of it
LEMMA OtherLeft ==
    ASSUME LeftInv, UNCHANGED <<label, secret, orphans, op, touched>>, PodInv'
    PROVE  LeftInv'
<1>1. (Mapping' <=> Mapping) /\ (Generating' <=> Generating) /\ \A n \in Namespace : Empty(n)' <=> Empty(n)
  BY DEF Mapping, Generating, Empty
<1>2. RemovedInv' /\ PlannedInv' /\ EmptyInv'
  BY <1>1 DEF LeftInv, RemovedInv, PlannedInv, EmptyInv
<1>3. GivenInv'
  BY <1>1 DEF LeftInv, GivenInv, Given
<1> QED
  BY <1>2, <1>3 DEF LeftInv

\* what others change while the operator is at work
LEMMA DisturbedLeft ==
    ASSUME TypeInv, LeftInv, Disturbed, PodInv', orphans \subseteq orphans', touched \subseteq touched',
           \A n \in Namespace :
              \/ label'[n] = label[n]
              \/ (label[n] = NoDynaKube \/ n \in orphans') /\ (op.pc = "labels" => n \in touched'),
           \A n \in Namespace : label'[n] = NoDynaKube => n \in orphans' \/ secret'[n] = secret[n]
    PROVE  LeftInv'
<1>1. /\ op'.pc = op.pc /\ op'.dk = op.dk /\ op'.removed = op.removed /\ op'.targets = op.targets
      /\ op'.flags = op.flags /\ op'.owned = op.owned /\ op'.new = op.new /\ op'.todo = op.todo
      /\ Busy => op'.disturbed
  BY DEF Disturbed, SameMapping
<1>2. (Mapping' <=> Mapping) /\ (Generating' <=> Generating) /\ (Mapping \/ Generating => Busy)
  BY <1>1 DEF Mapping, Generating, Busy
<1>3. op \in Reconciliation /\ (Busy => op.dk \in DynaKube)
  BY DEF TypeInv, TypeOK
<1>4. RemovedInv'
  BY <1>1, <1>2 DEF LeftInv, RemovedInv
<1>5. PlannedInv'
  <2> SUFFICES ASSUME op.pc = "labels"
               PROVE  /\ \A m \in op.flags : op.new[m[2]] = op.dk
                      /\ \A n \in op.todo \ touched' : op.new[n] # label'[n] /\ (label'[n] = op.dk => n \in op.owned)
    BY <1>1 DEF PlannedInv
  <2>1. \A n \in op.todo : n \in Namespace
    BY <1>3 DEF Reconciliation
  <2> QED
    BY <2>1 DEF LeftInv, PlannedInv
<1>6. ASSUME Busy, NEW n \in Namespace, Given(n) PROVE Given(n)'
  <2>1. CASE label[n] = op.dk
    BY <1>1, <1>3, <1>6, <2>1, NamespaceAssumption DEF Given
  <2>2. CASE label[n] # op.dk
    BY <1>1, <1>6, <2>2 DEF Given
  <2> QED
    BY <2>1, <2>2
<1>7. GivenInv'
  <2>1. ASSUME Mapping, NEW m \in op.flags PROVE Given(m[2])' \/ (op.pc = "labels" /\ m[2] \in op.todo)
    <3>1. m[2] \in Namespace
      BY <1>3 DEF Reconciliation
    <3> QED
      BY <1>2, <1>6, <2>1, <3>1 DEF LeftInv, GivenInv
  <2>2. ASSUME Generating, NEW f \in Feature, NEW n \in op.targets[f] PROVE Given(n)'
    <3>1. n \in Namespace
      BY <1>3 DEF Reconciliation
    <3> QED
      BY <1>2, <1>6, <2>2, <3>1 DEF LeftInv, GivenInv
  <2> QED
    BY <1>1, <1>2, <2>1, <2>2 DEF GivenInv
<1>8. EmptyInv'
  <2> SUFFICES ASSUME NEW n \in Namespace, n \notin orphans', n \notin op.removed, label'[n] = NoDynaKube PROVE Empty(n)'
    BY <1>1 DEF EmptyInv
  <2>1. label[n] = NoDynaKube /\ n \notin orphans /\ secret'[n] = secret[n]
    OBVIOUS
  <2> QED
    BY <2>1 DEF LeftInv, EmptyInv, Empty
<1> QED
  BY <1>4, <1>5, <1>7, <1>8 DEF LeftInv

LEMMA EditNamespaceLeft ==
    ASSUME TypeInv, LeftInv, NEW n \in Namespace, EditNamespace(n)
    PROVE  LeftInv'
<1>1. Disturbed /\ UNCHANGED <<secret, pod>>
  BY EditNamespaceFields DEF EditNamespace
<1>2. PICK x : label' = [label EXCEPT ![n] = x]
  BY DEF EditNamespace
<1>3. \A m \in Namespace : m # n => label'[m] = label[m]
  BY <1>2 DEF TypeInv, TypeOK
<1>4. orphans' = IF label[n] \in {label'[n], NoDynaKube} THEN orphans ELSE orphans \cup {n}
  BY DEF EditNamespace
<1>5. touched \subseteq touched' /\ (op.pc = "labels" => n \in touched')
  BY DEF EditNamespace
<1> QED
  BY <1>1, <1>3, <1>4, <1>5, DisturbedLeft DEF LeftInv, PodInv

LEMMA CreateReplicatedLeft ==
    ASSUME TypeInv, LeftInv, CreateReplicated
    PROVE  LeftInv'
<1>1. UNCHANGED <<label, touched>> /\ PodInv'
  BY DEF CreateReplicated, PodInv
<1>2. CASE secret[pod.ns][pod.kind] = NoSecret
  <2>1. /\ secret' = [secret EXCEPT ![pod.ns][pod.kind] = pod.held] /\ orphans \subseteq orphans'
        /\ label[pod.ns] # pod.held.dk => pod.ns \in orphans'
    BY <1>2 DEF CreateReplicated
  <2>2. op' = Disturb(op) /\ clean' = {} /\ op \in Reconciliation
    BY <1>2 DEF CreateReplicated, Changed, TypeInv, TypeOK
  <2>3. Disturbed
    BY <2>2, DisturbFields DEF Disturbed
  <2>4. pod.held.dk \in DynaKube
    BY DEF LeftInv, PodInv, CreateReplicated
  <2>5. ASSUME NEW n \in Namespace, label[n] = NoDynaKube PROVE n \in orphans' \/ secret'[n] = secret[n]
    BY <2>1, <2>4, <2>5, NamespaceAssumption DEF TypeInv, TypeOK
  <2> QED
    BY <1>1, <2>1, <2>3, <2>5, DisturbedLeft
<1>3. CASE secret[pod.ns][pod.kind] # NoSecret
  BY <1>1, <1>3, OtherLeft DEF CreateReplicated
<1> QED
  BY <1>2, <1>3

LEMMA LeftInit == Init => LeftInv
<1> SUFFICES ASSUME Init PROVE LeftInv
  OBVIOUS
<1>1. op.pc = "idle" /\ op.removed = {} /\ pod = NoPod
  BY DEF Init, Idle
<1>2. EmptyInv
  BY DEF Init, EmptyInv, Empty
<1> QED
  BY <1>1, <1>2 DEF LeftInv, RemovedInv, PlannedInv, GivenInv, PodInv, Mapping, Generating

LEMMA LeftNext == TypeInv /\ LabelInv /\ LeftInv /\ [Next]_vars => LeftInv'
<1> SUFFICES ASSUME TypeInv, LabelInv, LeftInv, [Next]_vars PROVE LeftInv'
  OBVIOUS
<1> USE DEF objects
<1>1. ASSUME NEW d \in DynaKube, Begin(d) PROVE LeftInv'
  BY <1>1, BeginLeft
<1>2. ASSUME NEW d \in DynaKube, SubReconcilersFail(d) PROVE LeftInv'
  BY <1>2, OtherLeft DEF SubReconcilersFail, LeftInv, PodInv
<1>3. CASE Map
  BY <1>3, MapLeft
<1>4. ASSUME NEW n \in Namespace, UpdateLabel(n) PROVE LeftInv'
  BY <1>4, UpdateLabelLeft
<1>5. CASE Relabelled
  BY <1>5, RelabelledLeft
<1>6. ASSUME NEW n \in Namespace, DeleteUnmatched(n) PROVE LeftInv'
  BY <1>6, DeleteUnmatchedLeft
<1>7. CASE Mapped
  BY <1>7, MappedLeft
<1>8. ASSUME NEW f \in Feature, Cleanup(f) \/ CleanupCerts(f) PROVE LeftInv'
  BY <1>8, CleanupLeft
<1>9. ASSUME NEW k \in Kind, WriteSource(k) \/ ListSecrets(k) PROVE LeftInv'
  BY <1>9, WriteSourceLeft
<1>10. ASSUME NEW k \in Kind, WriteSecrets(k) PROVE LeftInv'
  BY <1>10, WriteSecretsLeft
<1>11. CASE Unmap \/ Unmapped \/ Finish
  BY <1>11, UnmappingLeft
<1>12. ASSUME NEW n \in Namespace, UnmapLabel(n) PROVE LeftInv'
  BY <1>12, UnmapLabelLeft
<1>13. CASE UnmapSecrets
  BY <1>13, UnmapSecretsLeft
<1>14. CASE Crash
  BY <1>14, CrashLeft
<1>15. ASSUME NEW n \in Namespace, EditNamespace(n) PROVE LeftInv'
  BY <1>15, EditNamespaceLeft
<1>16. ASSUME NEW n \in Namespace, NEW k \in Kind, Replicate(n, k) PROVE LeftInv'
  <2>1. /\ UNCHANGED <<label, secret, orphans, op, touched>> /\ label[n] \in DynaKube
        /\ pod' = [ns |-> n, kind |-> k, held |-> source[label[n]][k]] /\ source[label[n]][k] # NoSecret
    BY <1>16 DEF Replicate, TypeInv, TypeOK
  <2>2. source[label[n]][k] \in Secret
    BY <2>1 DEF TypeInv, TypeOK
  <2>3. source[label[n]][k].dk \in DynaKube
    BY <2>1, <2>2 DEF Secret
  <2> QED
    BY <2>1, <2>3, OtherLeft DEF PodInv
<1>17. CASE CacheSync
  BY <1>17, OtherLeft DEF CacheSync, LeftInv, PodInv
<1>18. CASE CreateReplicated
  BY <1>18, CreateReplicatedLeft
<1>19. ASSUME NEW d \in DynaKube, EditDynaKube(d) PROVE LeftInv'
  <2>1. UNCHANGED <<label, secret, touched, pod>> /\ orphans \subseteq orphans'
    BY <1>19 DEF EditDynaKube
  <2> QED
    BY <1>19, <2>1, EditDynaKubeFields, DisturbedLeft DEF LeftInv, PodInv
<1>20. CASE UNCHANGED vars
  BY <1>20, OtherLeft DEF vars, LeftInv, PodInv
<1> QED
  BY <1>1, <1>2, <1>3, <1>4, <1>5, <1>6, <1>7, <1>8, <1>9, <1>10, <1>11, <1>12, <1>13, <1>14, <1>15, <1>16, <1>17,
     <1>18, <1>19, <1>20 DEF Next, Reconcile

LEMMA NothingLeft == LeftInv => NothingIsLeft
<1> SUFFICES ASSUME LeftInv, ~Busy, NEW n \in Namespace, n \notin orphans, label[n] = NoDynaKube PROVE Empty(n)
  BY DEF NothingIsLeft, Settled, Empty
<1>1. op.removed \subseteq orphans
  BY DEF LeftInv, RemovedInv, Mapping, Busy
<1> QED
  BY <1>1 DEF LeftInv, EmptyInv

-----------------------------------------------------------------------------
(* The copies.  Of a DynaKube that was reconciled without error and not     *)
(* disturbed since, every namespace with its label holds the current        *)
(* secrets of the features that match it and no others (RightOf); within    *)
(* such a reconcile this is true of the kinds it has passed.  What it       *)
(* deletes of the certificates needs a condition, so a condition tells of   *)
(* every copy of them that is not given up in orphans.                      *)

Right(d, n, k) ==
    IF <<k[1], n>> \in Flags(dks[d]) /\ (k[2] = "certs" => dks[d].certs)
    THEN secret[n][k] = Content(d, dks[d])
    ELSE secret[n][k] = NoSecret \/ (k[2] = "certs" /\ (n \in orphans \/ d \in tainted))

RightOf(d) == \A n \in Labelled(d), k \in Kind : Right(d, n, k)

\* the conditions that the next reconcile, or this one, goes by
Conds(d) == IF Busy /\ op.dk = d /\ op.copy.exists THEN op.conds ELSE conditions[d]

ToldInv ==
    \A n \in Namespace \ (orphans \cup op.removed), d \in DynaKube \ tainted, f \in Feature :
        label[n] = d /\ secret[n][<<f, "certs">>] # NoSecret =>
            <<f, "certs">> \in Conds(d) \/ (op.dk = d /\ Writing(<<f, "certs">>))

MatchedInv ==
    /\ Mapping => /\ op.flags = Flags(op.copy)
                  /\ \A m \in op.flags : m[2] \in op.owned
                  /\ \A n \in op.owned : label[n] = op.dk \/ label[n] \notin clean
    /\ op.pc = "unmatched" => op.todo \subseteq op.owned
    /\ op.pc = "unmatched" /\ Undisturbed =>
          \A n \in Namespace \ op.todo, k \in Kind :
              label[n] = op.dk /\ <<k[1], n>> \notin op.flags => secret[n][k] = NoSecret

\* a reconcile that goes as the DynaKube, the selectors and the labels ask for
Sure == Undisturbed /\ ~op.failed /\ op.copy.on # {}

TargetsInv ==
    Sure /\ Generating => \A f \in Feature : op.targets[f] = {n \in Namespace : <<f, n>> \in Flags(op.copy)}

Passed(k) == op.pc = "finish" \/ (Generating /\ Before(k, op.kind))

DoneInv ==
    \A d \in DynaKube : Sure /\ op.dk = d /\ op.copy.exists /\ (Generating \/ op.pc = "finish") =>
        \A n \in Labelled(d), k \in Kind : <<k[1], n>> \notin Flags(op.copy) \/ Passed(k) => Right(d, n, k)

CleanInv ==
    /\ Busy /\ op.disturbed => clean = {}
    /\ op.pc = "unmapSecrets" => clean = {}
    /\ \A d \in clean : (Busy /\ op.dk = d /\ op.failed) \/ RightOf(d)

CopyInv == ToldInv /\ MatchedInv /\ TargetsInv /\ DoneInv /\ CleanInv

-----------------------------------------------------------------------------
\* what stays true of a copy, of the conditions and of clean DynaKubes

LEMMA RightStays ==
    ASSUME NEW d, NEW n, NEW k, dks' = dks, secret'[n][k] = secret[n][k], n \in orphans => n \in orphans',
           tainted \subseteq tainted', Right(d, n, k)
    PROVE  Right(d, n, k)'
BY DEF Right

LEMMA CopiesTold ==
    ASSUME TypeInv, ToldInv, UNCHANGED label, tainted \subseteq tainted',
           orphans \cup op.removed \subseteq orphans' \cup op'.removed,
           \A n \in Namespace, f \in Feature : secret'[n][<<f, "certs">>] \in {secret[n][<<f, "certs">>], NoSecret},
           \A d \in DynaKube \ tainted' : Conds(d) \subseteq Conds(d)' \/ Labelled(d) \subseteq orphans',
           \A d \in DynaKube \ tainted', f \in Feature :
              op.dk = d /\ Writing(<<f, "certs">>) => <<f, "certs">> \in Conds(d)' \/ (op'.dk = d /\ Writing(<<f, "certs">>)')
    PROVE  ToldInv'
<1> SUFFICES ASSUME NEW n \in Namespace \ (orphans' \cup op'.removed), NEW d \in DynaKube \ tainted', NEW f \in Feature,
                    label[n] = d, secret'[n][<<f, "certs">>] # NoSecret
             PROVE  <<f, "certs">> \in Conds(d)' \/ (op'.dk = d /\ Writing(<<f, "certs">>)')
  BY DEF ToldInv
<1>1. n \in Namespace \ (orphans \cup op.removed) /\ d \in DynaKube \ tainted /\ secret[n][<<f, "certs">>] # NoSecret
  OBVIOUS
<1>2. <<f, "certs">> \in Conds(d) \/ (op.dk = d /\ Writing(<<f, "certs">>))
  BY <1>1 DEF ToldInv
<1>3. n \in Labelled(d)
  BY DEF Labelled
<1> QED
  BY <1>2, <1>3

LEMMA CleanStays ==
    ASSUME TypeInv, CleanInv, UNCHANGED <<dks, label, secret>>, orphans \subseteq orphans', tainted \subseteq tainted',
           clean' \subseteq clean, Busy', op'.dk = op.dk, op'.disturbed = op.disturbed, op.failed => op'.failed,
           Busy, op'.pc = "unmapSecrets" => clean' = {}
    PROVE  CleanInv'
<1>1. ASSUME NEW d \in clean', RightOf(d) PROVE RightOf(d)'
  BY <1>1, RightStays DEF RightOf, Labelled
<1> QED
  BY <1>1 DEF CleanInv

\* the generation goes on: what it finds in the namespaces it is given stays
LEMMA GeneratingCopies ==
    ASSUME TypeInv, LabelInv, CopyInv, Generating, Kept(op, op'), UNCHANGED <<dks, label, clean>>,
           op'.pc \in {"source", "list", "write", "unmap", "finish"}, op.failed => op'.failed,
           \A d \in clean : d # op.dk \/ ~op.failed => (RightOf(d) => RightOf(d)'),
           ToldInv',
           \A d \in DynaKube : Sure /\ ~op'.failed /\ op.dk = d =>
             \A n \in Labelled(d), k \in Kind : <<k[1], n>> \notin Flags(op.copy) \/ Passed(k)' => Right(d, n, k)'
    PROVE  CopyInv'
<1>1. /\ op'.dk = op.dk /\ op'.copy = op.copy /\ op'.disturbed = op.disturbed /\ op'.targets = op.targets
      /\ Busy /\ Busy'
  BY DEF Kept, SameMapping, Generating, Busy
<1>2. ~Mapping' /\ op'.pc # "unmapSecrets"
  BY DEF Mapping
<1>3. Sure' => Sure
  BY <1>1 DEF Sure, Undisturbed
<1>4. MatchedInv'
  BY <1>2 DEF MatchedInv, Mapping
<1>5. TargetsInv'
  BY <1>1, <1>3 DEF CopyInv, TargetsInv
<1>6. CleanInv'
  BY <1>1, <1>2 DEF CopyInv, CleanInv
<1>7. \A d \in DynaKube : Labelled(d)' = Labelled(d)
  BY DEF Labelled
<1>8. DoneInv'
  <2> SUFFICES ASSUME NEW d \in DynaKube, Sure', op'.dk = d, NEW n \in Labelled(d), NEW k \in Kind,
                      <<k[1], n>> \notin Flags(op.copy) \/ Passed(k)'
               PROVE  Right(d, n, k)'
    BY <1>1, <1>7 DEF DoneInv
  <2> QED
    BY <1>1, <1>3 DEF Sure
<1> QED
  BY <1>4, <1>5, <1>6, <1>8 DEF CopyInv

\* the operator goes on without changing labels or copies
LEMMA QuietCopies ==
    ASSUME TypeInv, CopyInv, Busy, Busy', op.pc \notin {"list", "write"}, UNCHANGED <<dks, label, secret, conditions>>,
           SameReconcile, op'.conds = op.conds, op.failed => op'.failed, clean' \subseteq clean, tainted \subseteq tainted',
           orphans \subseteq orphans', op.removed \subseteq orphans' \cup op'.removed,
           op'.pc # "unmapSecrets", MatchedInv', TargetsInv', DoneInv'
    PROVE  CopyInv'
<1>1. op'.dk = op.dk /\ op'.copy = op.copy /\ op'.disturbed = op.disturbed
  BY DEF SameReconcile
<1>2. CleanInv'
  BY <1>1, CleanStays DEF CopyInv
<1>3. \A d \in DynaKube : Conds(d) = Conds(d)'
  BY <1>1 DEF Conds
<1>4. \A f \in Feature : ~Writing(<<f, "certs">>)
  BY DEF Writing
<1>5. ToldInv'
  BY <1>3, <1>4, CopiesTold DEF CopyInv
<1> QED
  BY <1>2, <1>5 DEF CopyInv

\* the mapping fails, or nothing is enabled
LEMMA UnsureCopies ==
    ASSUME TypeInv, CopyInv, Busy, op.pc \notin {"list", "write"}, UNCHANGED <<dks, label, secret, conditions, clean>>,
           SameReconcile, ToSecrets, op'.conds = op.conds, op.failed => op'.failed, tainted \subseteq tainted',
           orphans \cup op.removed \subseteq orphans', op'.failed \/ op.copy.on = {}
    PROVE  CopyInv'
<1>1. ~Mapping' /\ Busy' /\ op'.pc # "unmapSecrets"
  BY DEF Mapping, ToSecrets, Busy
<1>2. ~Sure'
  BY DEF Sure, SameReconcile
<1>3. MatchedInv' /\ TargetsInv' /\ DoneInv'
  BY <1>1, <1>2 DEF MatchedInv, TargetsInv, DoneInv, Mapping
<1> QED
  BY <1>1, <1>3, QuietCopies

-----------------------------------------------------------------------------
\* the mapping

LEMMA MapCopies ==
    ASSUME TypeInv, LabelInv, LeftInv, CopyInv, Map
    PROVE  CopyInv'
<1>1. /\ UNCHANGED <<dks, label, secret, conditions, clean, pod>> /\ op.pc = "map" /\ Busy /\ SameReconcile
      /\ op'.conds = op.conds /\ tainted \subseteq tainted' /\ op.dk \in DynaKube
  BY MapFields DEF Map, objects, TypeInv
<1>2. op.removed = {}
  BY <1>1 DEF LeftInv, RemovedInv
<1>3. CASE FailedMapping /\ op'.failed
  BY <1>1, <1>3, UnsureCopies DEF FailedMapping
<1>4. CASE ToSecrets /\ op.copy.on = {} /\ UNCHANGED orphans
  <2>1. op.failed => op'.failed
    BY <1>4, MapFields DEF ToSecrets
  <2> QED
    BY <1>1, <1>2, <1>4, <2>1, UnsureCopies
<1>5. CASE op'.pc = "unmap" /\ UNCHANGED orphans
  <2>1. op'.failed /\ Busy'
    BY <1>5, MapFields DEF ToSecrets, Busy
  <2>2. MatchedInv' /\ TargetsInv' /\ DoneInv'
    BY <1>5 DEF MatchedInv, TargetsInv, DoneInv, Mapping, Generating
  <2> QED
    BY <1>1, <1>2, <1>5, <2>1, <2>2, QuietCopies
<1>6. CASE /\ op'.pc = "labels" /\ op.copy.on # {}
           /\ op'.flags = Flags(op.copy) /\ op'.removed = op.removed
           /\ op'.owned = Labelled(op.dk) \cup {m[2] : m \in Flags(op.copy)}
           /\ op'.new = [n \in Namespace |-> Updated([dks EXCEPT ![op.dk] = op.copy], n)]
           /\ UNCHANGED orphans
  <2>1. op'.failed = op.failed /\ Busy' /\ op'.dk = op.dk /\ op'.copy = op.copy
    BY <1>1, <1>6, MapFields DEF ToSecrets, Busy, SameReconcile
  <2>2. ASSUME NEW n \in op'.owned, label[n] # op.dk, label[n] \in clean PROVE FALSE
    <3>1. PICK m \in Flags(op.copy) : m[2] = n
      BY <1>6, <2>2 DEF Labelled
    <3>2. Undisturbed
      BY <1>1, <2>2 DEF CopyInv, CleanInv, Undisturbed
    <3>3. op.copy = dks[op.dk] /\ dks \in [DynaKube -> Spec]
      BY <3>2 DEF LabelInv, TypeInv, TypeOK
    <3>4. [dks EXCEPT ![op.dk] = op.copy] = dks
      BY <1>1, <3>3
    <3>5. n \in Namespace
      <4>1. op.copy \in Spec
        BY DEF TypeInv, TypeOK, Reconciliation
      <4> QED
        BY <3>1, <4>1 DEF Flags, Spec
    <3>6. op'.new[n] = op.dk
      BY <1>6, <2>1, <3>1, MapLeft DEF LeftInv, PlannedInv
    <3>7. Updated(dks, n) = op.dk
      BY <1>6, <3>4, <3>5, <3>6
    <3>8. LabelsDone(label[n]) /\ n \in Labelled(label[n])
      BY <2>2, <3>5 DEF LabelInv, Labelled
    <3>9. label[n] = Updated(dks, n)
      BY <3>5, <3>8 DEF LabelsDone, AllMapped
    <3> QED
      BY <2>2, <3>7, <3>9
  <2>3. MatchedInv'
    BY <1>1, <1>6, <2>1, <2>2 DEF MatchedInv
  <2>4. TargetsInv' /\ DoneInv'
    BY <1>6 DEF TargetsInv, DoneInv, Generating
  <2> QED
    BY <1>1, <1>2, <1>6, <2>1, <2>3, <2>4, QuietCopies
<1> QED
  BY <1>3, <1>4, <1>5, <1>6, MapMapping

\* nothing is to be relabelled after a reconcile that is still good
LEMMA UpdateLabelClean ==
    ASSUME TypeInv, LabelInv, NEW n \in Namespace, op.pc = "labels", n \in op.todo
    PROVE  op.dk \notin clean
<1> SUFFICES ASSUME op.dk \in clean PROVE FALSE
  OBVIOUS
<1>1. Undisturbed
  BY DEF LabelInv, Undisturbed, Busy
<1>2. label[n] # Updated(dks, n) /\ op.copy = dks[op.dk] /\ op.copy.exists /\ op.copy.on # {}
  BY <1>1 DEF LabelInv
<1>3. AllMapped
  BY <1>2 DEF LabelInv, LabelsDone
<1> QED
  BY <1>2, <1>3 DEF AllMapped

LEMMA UpdateLabelCopies ==
    ASSUME TypeInv, LabelInv, LeftInv, CopyInv, NEW n \in Namespace, UpdateLabel(n)
    PROVE  CopyInv'
<1>1. /\ UNCHANGED <<dks, secret, conditions>> /\ op.pc = "labels" /\ Busy /\ SameReconcile /\ n \in op.todo
      /\ op'.conds = op.conds /\ tainted \subseteq tainted' /\ op.dk \in DynaKube
      /\ label \in [Namespace -> DynaKube \cup {NoDynaKube}]
  BY UpdateLabelFields DEF UpdateLabel, TypeInv, TypeOK
<1>2. CASE FailedMapping /\ op'.failed /\ UNCHANGED clean
  BY <1>1, <1>2, UnsureCopies DEF FailedMapping
<1>3. CASE /\ op'.pc = "labels"
           /\ op'.removed = IF label[n] = op.dk THEN op.removed \cup {n} ELSE op.removed
           /\ op'.flags = op.flags /\ op'.owned = op.owned
           /\ label' = [label EXCEPT ![n] = op.new[n]] /\ clean' = clean \cap {op.dk}
           /\ orphans' = IF label[n] \in {op.dk, NoDynaKube} THEN orphans ELSE orphans \cup {n}
  <2>1. Busy' /\ op'.dk = op.dk /\ op'.copy = op.copy /\ Mapping /\ Mapping' /\ ~Generating'
    BY <1>1, <1>3 DEF Busy, SameReconcile, Mapping, Generating
  <2>2. clean' = {}
    BY <1>1, <1>3, UpdateLabelClean
  <2>3. CleanInv' /\ TargetsInv' /\ DoneInv'
    BY <1>3, <2>1, <2>2 DEF CleanInv, TargetsInv, DoneInv
  <2>4. MatchedInv'
    BY <1>3, <2>1, <2>2 DEF CopyInv, MatchedInv
  <2>5. ToldInv'
    <3> SUFFICES ASSUME NEW m \in Namespace \ (orphans' \cup op'.removed), NEW d \in DynaKube \ tainted', NEW f \in Feature,
                        label'[m] = d, secret[m][<<f, "certs">>] # NoSecret
                 PROVE  <<f, "certs">> \in Conds(d)'
      BY <1>1 DEF ToldInv
    <3>1. m \notin orphans /\ m \notin op.removed /\ d \notin tainted
      BY <1>1, <1>3
    <3>2. m # n
      <4> SUFFICES ASSUME m = n PROVE FALSE
        OBVIOUS
      <4>1. label[n] = NoDynaKube
        BY <1>3
      <4>2. Empty(n)
        BY <3>1, <4>1 DEF LeftInv, EmptyInv
      <4> QED
        BY <4>2, KindFacts DEF Empty
    <3>3. label[m] = d
      BY <1>1, <1>3, <3>2
    <3>4. <<f, "certs">> \in Conds(d)
      BY <1>1, <3>1, <3>3 DEF CopyInv, ToldInv, Writing
    <3> QED
      BY <1>1, <2>1, <3>4 DEF Conds
  <2> QED
    BY <2>3, <2>4, <2>5 DEF CopyInv
<1> QED
  BY <1>2, <1>3, UpdateLabelMapping

LEMMA RelabelledCopies ==
    ASSUME TypeInv, LabelInv, LeftInv, CopyInv, Relabelled
    PROVE  CopyInv'
<1>1. UNCHANGED <<dks, label, secret, conditions, clean, tainted, orphans>> /\ op'.conds = op.conds
  BY RelabelledFields DEF Relabelled, objects
<1>2. /\ op.pc = "labels" /\ Busy /\ SameReconcile /\ op.todo = {}
      /\ op'.pc = "unmatched" /\ op'.todo = op.owned /\ op'.failed = op.failed
      /\ op'.removed = op.removed /\ op'.flags = op.flags /\ op'.owned = op.owned
  BY RelabelledMapping
<1>3. Busy' /\ op'.dk = op.dk /\ op'.copy = op.copy /\ Mapping /\ Mapping' /\ ~Generating' /\ op.dk \in DynaKube
  BY <1>2 DEF Busy, SameReconcile, Mapping, Generating, TypeInv
<1>4. ASSUME Undisturbed, NEW n \in Namespace, n \notin op.owned PROVE label[n] # op.dk
  <2> SUFFICES ASSUME label[n] = op.dk PROVE FALSE
    OBVIOUS
  <2>1. Updated(dks, n) = op.dk /\ op.copy = dks[op.dk] /\ op.copy.exists
    BY <1>2, <1>4 DEF LabelInv
  <2>2. CASE Matching(dks, n) # {}
    <3>1. op.dk \in Matching(dks, n)
      BY <2>1, <2>2 DEF Updated
    <3>2. PICK m \in Flags(op.copy) : m[2] = n
      BY <2>1, <3>1 DEF Matching
    <3> QED
      BY <1>3, <1>4, <3>2 DEF CopyInv, MatchedInv
  <2>3. CASE Matching(dks, n) = {}
    <3>1. Updated(dks, n) = NoDynaKube
      BY <1>3, <2>1, <2>3 DEF Updated
    <3> QED
      BY <1>3, <2>1, <3>1, NamespaceAssumption
  <2> QED
    BY <2>2, <2>3
<1>5. Undisturbed' <=> Undisturbed
  BY <1>2, <1>3 DEF Undisturbed, SameReconcile
<1>6. MatchedInv'
  BY <1>1, <1>2, <1>3, <1>4, <1>5 DEF CopyInv, MatchedInv
<1>7. TargetsInv' /\ DoneInv'
  BY <1>2, <1>3 DEF TargetsInv, DoneInv
<1> QED
  BY <1>1, <1>2, <1>3, <1>6, <1>7, QuietCopies

LEMMA DeleteUnmatchedCopies ==
    ASSUME TypeInv, LabelInv, LeftInv, CopyInv, NEW n \in Namespace, DeleteUnmatched(n)
    PROVE  CopyInv'
<1>1. /\ UNCHANGED <<dks, label, conditions, clean>> /\ op.pc = "unmatched" /\ Busy /\ SameReconcile /\ n \in op.todo
      /\ op'.conds = op.conds /\ tainted \subseteq tainted' /\ op.dk \in DynaKube
      /\ secret \in [Namespace -> [Kind -> Secret]]
  BY DeleteUnmatchedFields DEF DeleteUnmatched, TypeInv, TypeOK
<1>2. CASE FailedMapping /\ op'.failed
  BY <1>1, <1>2, UnsureCopies DEF FailedMapping
<1>3. CASE /\ op'.pc = "unmatched" /\ op'.failed = op.failed
           /\ op'.todo = op.todo \ {n} /\ op'.removed = op.removed \ {n}
           /\ op'.flags = op.flags /\ op'.owned = op.owned
           /\ secret' = [secret EXCEPT ![n] = Without(@, UnmatchedKinds(n))]
           /\ orphans' = IF UnmatchedKinds(n) = Kind THEN orphans \ {n} ELSE orphans
  <2>1. Busy' /\ op'.dk = op.dk /\ op'.copy = op.copy /\ op'.disturbed = op.disturbed /\ Mapping /\ Mapping' /\ ~Generating'
    BY <1>1, <1>3 DEF Busy, SameReconcile, Mapping, Generating
  <2>2. /\ \A k \in Kind : secret'[n][k] = IF <<k[1], n>> \notin op.flags THEN NoSecret ELSE secret[n][k]
        /\ \A m \in Namespace : m # n => secret'[m] = secret[m]
    BY <1>1, <1>3, UnmatchedFacts DEF Without
  <2>3. ASSUME NEW k \in Kind, <<k[1], n>> \in op.flags PROVE n \notin op.removed /\ orphans' = orphans
    <3>1. k[1] \in Feature
      BY KindFacts
    <3>2. UnmatchedKinds(n) # Kind
      BY <2>3, <3>1, UnmatchedFacts
    <3> QED
      BY <1>3, <2>1, <2>3, <3>1, <3>2 DEF LeftInv, RemovedInv
  <2>4. ASSUME NEW d \in clean, RightOf(d) PROVE RightOf(d)'
    <3> SUFFICES ASSUME NEW m \in Labelled(d), NEW k \in Kind PROVE Right(d, m, k)'
      BY <1>1 DEF RightOf, Labelled
    <3>1. Right(d, m, k) /\ m \in Namespace /\ label[m] = d
      BY <2>4 DEF RightOf, Labelled
    <3>2. CASE m # n
      BY <1>1, <1>3, <2>2, <3>1, <3>2, RightStays
    <3>3. CASE m = n
      <4>1. d = op.dk
        BY <1>1, <2>1, <3>1, <3>3 DEF CopyInv, MatchedInv
      <4>2. op.copy = dks[d]
        BY <1>1, <4>1 DEF LabelInv, Undisturbed
      <4>3. op.flags = Flags(dks[d])
        BY <2>1, <4>2 DEF CopyInv, MatchedInv
      <4>4. CASE <<k[1], n>> \in op.flags
        BY <1>1, <2>2, <2>3, <3>1, <3>3, <4>4, RightStays
      <4>5. CASE <<k[1], n>> \notin op.flags
        BY <1>1, <2>2, <3>3, <4>3, <4>5 DEF Right
      <4> QED
        BY <4>4, <4>5
    <3> QED
      BY <3>2, <3>3
  <2>5. CleanInv'
    BY <1>1, <1>3, <2>1, <2>4 DEF CopyInv, CleanInv
  <2>6. Undisturbed' <=> Undisturbed
    BY <1>1, <2>1 DEF Undisturbed
  <2>7. MatchedInv'
    <3>1. ASSUME Undisturbed, NEW m \in Namespace, m \notin op'.todo, NEW k \in Kind, label[m] = op.dk, <<k[1], m>> \notin op.flags
          PROVE  secret'[m][k] = NoSecret
      <4>1. CASE m = n
        BY <2>2, <3>1, <4>1
      <4>2. CASE m # n
        BY <1>1, <1>3, <2>2, <3>1, <4>2 DEF CopyInv, MatchedInv
      <4> QED
        BY <4>1, <4>2
    <3> QED
      BY <1>1, <1>3, <2>1, <2>6, <3>1 DEF CopyInv, MatchedInv
  <2>8. ToldInv'
    <3> SUFFICES ASSUME NEW m \in Namespace \ (orphans' \cup op'.removed), NEW d \in DynaKube \ tainted', NEW f \in Feature,
                        label[m] = d, secret'[m][<<f, "certs">>] # NoSecret
                 PROVE  <<f, "certs">> \in Conds(d)'
      BY <1>1 DEF ToldInv
    <3> DEFINE k == <<f, "certs">>
    <3>1. k \in Kind /\ k[1] = f
      BY KindFacts
    <3>2. m \notin orphans /\ m \notin op.removed /\ secret[m][k] # NoSecret
      <4>1. CASE m = n
        BY <2>2, <2>3, <3>1, <4>1
      <4>2. CASE m # n
        BY <1>3, <2>2, <4>2
      <4> QED
        BY <4>1, <4>2
    <3>3. k \in Conds(d)
      BY <1>1, <3>2 DEF CopyInv, ToldInv, Writing
    <3> QED
      BY <1>1, <2>1, <3>3 DEF Conds
  <2>9. TargetsInv' /\ DoneInv'
    BY <1>3, <2>1 DEF TargetsInv, DoneInv
  <2> QED
    BY <2>5, <2>7, <2>8, <2>9 DEF CopyInv
<1> QED
  BY <1>2, <1>3, DeleteUnmatchedMapping

LEMMA MappedCopies ==
    ASSUME TypeInv, LabelInv, LeftInv, CopyInv, Mapped
    PROVE  CopyInv'
<1>1. UNCHANGED <<dks, label, secret, conditions, clean, tainted, orphans>> /\ op'.conds = op.conds
  BY MappedFields DEF Mapped, objects
<1>2. /\ op.pc = "unmatched" /\ Busy /\ SameReconcile /\ ToSecrets /\ op.todo = {} /\ op'.failed = op.failed
      /\ op'.removed = {} /\ op'.targets = [f \in Feature |-> {n \in Namespace : <<f, n>> \in op.flags}]
  BY MappedMapping
<1>3. /\ Busy' /\ op'.dk = op.dk /\ op'.copy = op.copy /\ op'.disturbed = op.disturbed /\ Mapping /\ ~Mapping'
      /\ op'.pc = "source" /\ op'.kind = FirstKind
  BY <1>2 DEF Busy, SameReconcile, Mapping, ToSecrets
<1>4. op.removed \subseteq orphans' \cup op'.removed /\ op.flags = Flags(op.copy)
  BY <1>2, <1>3 DEF LeftInv, RemovedInv, CopyInv, MatchedInv
<1>5. MatchedInv'
  BY <1>3 DEF MatchedInv, Mapping
<1>6. TargetsInv'
  BY <1>2, <1>3, <1>4 DEF TargetsInv
<1>7. DoneInv'
  <2> SUFFICES ASSUME NEW d \in DynaKube, Sure', op.dk = d, NEW n \in Labelled(d), NEW k \in Kind,
                      <<k[1], n>> \notin Flags(op.copy) \/ Passed(k)'
               PROVE  Right(d, n, k)'
    BY <1>1, <1>3 DEF DoneInv, Labelled
  <2>1. ~Passed(k)'
    BY <1>3 DEF Passed, Before, FirstKind
  <2>2. Undisturbed /\ op.copy = dks[d]
    BY <1>2, <1>3 DEF Sure, Undisturbed, LabelInv
  <2>3. secret[n][k] = NoSecret
    BY <1>2, <1>4, <2>1, <2>2 DEF CopyInv, MatchedInv, Labelled
  <2> QED
    BY <1>1, <2>1, <2>2, <2>3 DEF Right
<1> QED
  BY <1>1, <1>2, <1>3, <1>4, <1>5, <1>6, <1>7, QuietCopies
-----------------------------------------------------------------------------
\* the clean-up of secrets that are not asked for

LEMMA PassedNext ==
    ASSUME NEW k \in Kind, GoesOn(op, op', k)
    PROVE  \A j \in Kind : Passed(j)' => j = k \/ Before(j, k)
<1>1. \A j \in Kind : Passed(j)' => Reached(j)'
  BY DEF Passed, Reached
<1> QED
  BY <1>1, ReachedNext

\* what is deleted was not right to be there
LEMMA DeletesRight ==
    ASSUME TypeInv, LabelInv, LeftInv, CopyInv, Generating, NEW f \in Feature, NEW ks, UNCHANGED <<dks, label>>,
           orphans \subseteq orphans', tainted \subseteq tainted',
           UNCHANGED secret \/ Deletes(ks, op.targets[f]),
           \A k \in ks : k[1] = f /\ (f \in op.copy.on => k[2] = "certs" /\ ~op.copy.certs),
           NEW d \in DynaKube, d \in clean \/ (d = op.dk /\ Undisturbed),
           NEW n \in Labelled(d), NEW k \in Kind, Right(d, n, k)
    PROVE  Right(d, n, k)'
<1>1. n \in Namespace /\ label[n] = d /\ Busy
  BY DEF Labelled, Generating, Busy
<1>2. CASE secret'[n][k] = secret[n][k]
  BY <1>1, <1>2, RightStays
<1>3. CASE secret'[n][k] # secret[n][k]
  <2>1. n \in op.targets[f] /\ k \in ks /\ secret'[n][k] = NoSecret
    BY <1>1, <1>3 DEF Deletes
  <2>2. Given(n)
    BY <2>1 DEF LeftInv, GivenInv
  <2>3. d = op.dk /\ Undisturbed
    BY <1>1, <2>2 DEF Given, CopyInv, CleanInv, Undisturbed, LabelInv
  <2>4. op.copy = dks[d]
    BY <2>3 DEF LabelInv
  <2>5. ~(<<k[1], n>> \in Flags(dks[d]) /\ (k[2] = "certs" => dks[d].certs))
    BY <2>1, <2>4 DEF Flags
  <2> QED
    BY <2>1, <2>5 DEF Right, Flags
<1> QED
  BY <1>2, <1>3

LEMMA CleaningCopies ==
    ASSUME TypeInv, LabelInv, LeftInv, CopyInv, NEW f \in Feature, NEW ks, op.pc = "source",
           Kept(op, op'), GoesOn(op, op', <<f, "certs">>), op.failed => op'.failed,
           UNCHANGED <<dks, label, conditions, clean>>, orphans \subseteq orphans', tainted \subseteq tainted',
           <<f, "certs">> \in ks,
           \A k \in ks : k[1] = f /\ (f \in op.copy.on => k[2] = "certs" /\ ~op.copy.certs),
           \/ UNCHANGED secret /\ (op'.conds = op.conds \/ op.dk \in tainted')
           \/ Deletes(ks, op.targets[f]) /\ orphans' = orphans \cup LateCopies(f),
           op.dk \in tainted' \/ \A g \in Feature : g # f /\ <<g, "certs">> \in op.conds => <<g, "certs">> \in op'.conds,
           \A d \in DynaKube : Sure /\ ~op'.failed /\ op.dk = d =>
             \A n \in Labelled(d), k \in Kind : <<k[1], n>> \notin Flags(op.copy) \/ Passed(k)' => Right(d, n, k)'
    PROVE  CopyInv'
<1>1. Generating /\ Busy /\ Busy' /\ op'.pc \in {"source", "unmap", "finish"} /\ op'.dk = op.dk /\ op'.copy = op.copy
  BY KindFacts, ReachedNext DEF Generating, Busy, Kept
<1>2. op'.removed = op.removed /\ op.copy.exists /\ \A k \in Kind : ~Writing(k)
  BY <1>1 DEF Kept, SameMapping, LabelInv, Writing
<1>3. ASSUME NEW d \in clean, RightOf(d) PROVE RightOf(d)'
  <2>1. d \in DynaKube
    BY DEF TypeInv, TypeOK
  <2> QED
    BY <1>1, <1>3, <2>1, DeletesRight DEF RightOf, Labelled
<1>4. ToldInv'
  <2> SUFFICES ASSUME NEW n \in Namespace \ (orphans' \cup op.removed), NEW d \in DynaKube \ tainted', NEW g \in Feature,
                      label[n] = d, secret'[n][<<g, "certs">>] # NoSecret
               PROVE  <<g, "certs">> \in Conds(d)'
    BY <1>2 DEF ToldInv
  <2>1. <<g, "certs">> \in Kind /\ <<f, "certs">> \in Kind
    BY KindFacts
  <2>2. secret[n][<<g, "certs">>] # NoSecret
    BY <2>1 DEF Deletes
  <2>3. <<g, "certs">> \in Conds(d)
    BY <1>2, <2>1, <2>2 DEF CopyInv, ToldInv
  <2>4. CASE d # op.dk
    BY <1>1, <2>3, <2>4 DEF Conds
  <2>5. CASE d = op.dk
    <3>1. <<g, "certs">> \in op.conds /\ op.dk \notin tainted' /\ n \in Labelled(op.dk)
      BY <1>1, <1>2, <2>3, <2>5 DEF Conds, Labelled
    <3>2. <<g, "certs">> \in op'.conds
      <4>1. CASE UNCHANGED secret /\ op'.conds = op.conds
        BY <3>1, <4>1
      <4>2. CASE Deletes(ks, op.targets[f]) /\ orphans' = orphans \cup LateCopies(f)
        <5>1. g # f
          BY <2>1, <2>2, <3>1, <4>2 DEF Deletes, LateCopies
        <5> QED
          BY <3>1, <5>1
      <4> QED
        BY <3>1, <4>1, <4>2
    <3> QED
      BY <1>1, <1>2, <2>5, <3>2 DEF Conds
  <2> QED
    BY <2>4, <2>5
<1> QED
  BY <1>1, <1>3, <1>4, GeneratingCopies

LEMMA CleanupCopies ==
    ASSUME TypeInv, LabelInv, LeftInv, CopyInv, NEW f \in Feature, Cleanup(f)
    PROVE  CopyInv'
<1> DEFINE ks == KindsOf({f})
           c == <<f, "certs">>
<1>1. /\ op.pc = "source" /\ op.kind = <<f, "config">> /\ Busy /\ f \notin op.copy.on
      /\ Kept(op, op') /\ GoesOn(op, op', c) /\ op'.failed = op.failed /\ tainted \subseteq tainted'
  BY CleanupFields DEF Needed
<1>2. UNCHANGED <<label, dks, conditions, clean>> /\ orphans \subseteq orphans'
  BY CleanupEffect
<1>3. \/ UNCHANGED secret /\ (op'.conds = op.conds \/ op.dk \in tainted')
      \/ Deletes(ks, op.targets[f]) /\ orphans' = orphans \cup LateCopies(f)
  BY CleanupEffect
<1>4. op.dk \in tainted' \/ \A g \in Feature : g # f /\ <<g, "certs">> \in op.conds => <<g, "certs">> \in op'.conds
  <2>1. op.dk \in tainted' \/ op'.conds = op.conds \/ op'.conds = op.conds \ FeatureConditions(f)
    BY CleanupFields
  <2>2. \A g \in Feature : <<g, "certs">> \in FeatureConditions(f) => g = f
    BY DEF FeatureConditions
  <2> QED
    BY <2>1, <2>2
<1>5. c \in Kind /\ c \in ks /\ Generating /\ \A k \in ks : k[1] = f
  BY <1>1, KindFacts DEF KindsOf, Generating
<1> HIDE DEF ks, c
<1>6. ASSUME NEW d \in DynaKube, Sure, op.dk = d, NEW n \in Labelled(d), NEW k \in Kind,
             <<k[1], n>> \notin Flags(op.copy) \/ Passed(k)'
      PROVE  Right(d, n, k)'
  <2>1. <<k[1], n>> \notin Flags(op.copy) \/ Passed(k)
    <3>1. k[1] = f => <<k[1], n>> \notin Flags(op.copy)
      BY <1>1 DEF Flags
    <3>2. Passed(k)' => k[1] = f \/ Before(k, op.kind)
      BY <1>1, <1>5, PassedNext DEF Before, c
    <3> QED
      BY <1>5, <1>6, <3>1, <3>2 DEF Passed
  <2>2. Right(d, n, k)
    BY <1>5, <1>6, <2>1 DEF CopyInv, DoneInv, LabelInv
  <2> QED
    BY <1>1, <1>2, <1>3, <1>5, <1>6, <2>2, DeletesRight DEF Sure
<1> QED
  BY <1>1, <1>2, <1>3, <1>4, <1>5, <1>6, CleaningCopies DEF c

LEMMA CleanupCertsCopies ==
    ASSUME TypeInv, LabelInv, LeftInv, CopyInv, NEW f \in Feature, CleanupCerts(f)
    PROVE  CopyInv'
<1> DEFINE c == <<f, "certs">>
           ks == {c}
<1>1. /\ op.pc = "source" /\ op.kind = c /\ Busy /\ ~op.copy.certs
      /\ Kept(op, op') /\ GoesOn(op, op', c) /\ (op.failed => op'.failed) /\ tainted \subseteq tainted'
  BY CleanupCertsFields
<1>2. UNCHANGED <<label, dks, conditions, clean>> /\ orphans \subseteq orphans'
  BY CleanupCertsEffect
<1>3. \/ c \notin op.conds /\ UNCHANGED secret /\ op'.conds = op.conds
      \/ op.dk \in tainted' /\ UNCHANGED secret
      \/ Deletes(ks, op.targets[f]) /\ orphans' = orphans \cup LateCopies(f)
  BY CleanupCertsEffect
<1>4. op.dk \in tainted' \/ \A g \in Feature : g # f /\ <<g, "certs">> \in op.conds => <<g, "certs">> \in op'.conds
  BY CleanupCertsFields
<1>5. c \in Kind /\ c \in ks /\ Generating /\ c[1] = f /\ c[2] = "certs" /\ \A k \in ks : k = c
  BY <1>1, KindFacts DEF Generating
<1> HIDE DEF ks, c
<1>6. ASSUME NEW d \in DynaKube, Sure, op.dk = d, NEW n \in Labelled(d), NEW k \in Kind,
             <<k[1], n>> \notin Flags(op.copy) \/ Passed(k)'
      PROVE  Right(d, n, k)'
  <2>1. CASE k # c
    <3>1. <<k[1], n>> \notin Flags(op.copy) \/ Passed(k)
      BY <1>1, <1>5, <1>6, <2>1, PassedNext DEF Passed
    <3>2. Right(d, n, k)
      BY <1>5, <1>6, <3>1 DEF CopyInv, DoneInv, LabelInv
    <3> QED
      BY <1>1, <1>2, <1>3, <1>5, <1>6, <3>2, DeletesRight DEF Sure
  <2>2. CASE k = c
    <3>1. op.copy = dks[d] /\ op.copy.exists /\ n \in Namespace /\ label[n] = d
      BY <1>5, <1>6 DEF Sure, LabelInv, Labelled
    <3>2. secret'[n][c] = NoSecret \/ n \in orphans' \/ d \in tainted'
      <4> SUFFICES ASSUME n \notin orphans', d \notin tainted' PROVE secret'[n][c] = NoSecret
        OBVIOUS
      <4>1. CASE c \notin op.conds /\ UNCHANGED secret
        <5>1. n \notin op.removed
          BY <1>1, <1>2, <3>1 DEF LeftInv, RemovedInv, Mapping
        <5>2. c \notin Conds(d) /\ ~Writing(c)
          BY <1>1, <1>6, <3>1, <4>1 DEF Conds, Writing
        <5>3. n \in Namespace \ (orphans \cup op.removed) /\ d \in DynaKube \ tainted
          BY <1>1, <1>2, <3>1, <5>1
        <5>4. secret[n][c] = NoSecret
          BY <3>1, <5>2, <5>3 DEF CopyInv, ToldInv, c
        <5> QED
          BY <4>1, <5>4
      <4>2. CASE Deletes(ks, op.targets[f]) /\ orphans' = orphans \cup LateCopies(f)
        BY <1>5, <1>6, <3>1, <4>2 DEF Deletes, LateCopies, Labelled, c
      <4> QED
        BY <1>3, <1>6, <4>1, <4>2
    <3>3. ~dks'[d].certs
      BY <1>1, <1>2, <3>1
    <3> QED
      BY <1>5, <2>2, <3>2, <3>3 DEF Right
  <2> QED
    BY <2>1, <2>2
<1> QED
  BY <1>1, <1>2, <1>3, <1>4, <1>5, <1>6, CleaningCopies DEF c
-----------------------------------------------------------------------------
\* the secrets are written

\* a step of the generation that changes no copies
LEMMA QuietGeneration ==
    ASSUME TypeInv, LabelInv, LeftInv, CopyInv, Generating, Kept(op, op'), op'.pc \in {"source", "list", "write", "unmap", "finish"},
           op.failed => op'.failed, UNCHANGED <<dks, label, secret, conditions, clean, orphans>>, tainted \subseteq tainted',
           op.conds \subseteq op'.conds, \A k \in Kind : Writing(k) => Writing(k)',
           ~op'.failed => \A k \in Kind : Passed(k)' => Passed(k) \/ k[1] \notin op.copy.on
    PROVE  CopyInv'
<1>1. /\ op'.dk = op.dk /\ op'.copy = op.copy /\ op'.removed = op.removed /\ Busy /\ Busy'
      /\ clean \subseteq DynaKube
  BY DEF Kept, SameMapping, Generating, Busy, TypeInv, TypeOK
<1>2. \A d \in DynaKube : RightOf(d) => RightOf(d)'
  BY RightStays DEF RightOf, Labelled
<1>3. \A d \in DynaKube : Conds(d) \subseteq Conds(d)'
  BY <1>1 DEF Conds
<1>4. ToldInv'
  BY <1>1, <1>3, KindFacts, CopiesTold DEF CopyInv
<1>5. ASSUME NEW d \in DynaKube, Sure, ~op'.failed, op.dk = d, NEW n \in Labelled(d), NEW k \in Kind,
             <<k[1], n>> \notin Flags(op.copy) \/ Passed(k)'
      PROVE  Right(d, n, k)'
  <2>0. <<k[1], n>> \notin Flags(op.copy) \/ Passed(k)
    BY <1>5 DEF Flags
  <2>1. Right(d, n, k)
    BY <1>5, <2>0 DEF CopyInv, DoneInv, LabelInv
  <2> QED
    BY <2>1, RightStays
<1> QED
  BY <1>1, <1>2, <1>4, <1>5, GeneratingCopies

LEMMA WriteSourceCopies ==
    ASSUME TypeInv, LabelInv, LeftInv, CopyInv, NEW k \in Kind, WriteSource(k)
    PROVE  CopyInv'
<1>1. /\ op.pc = "source" /\ op.kind = k /\ Kept(op, op') /\ op.conds \subseteq op'.conds /\ tainted \subseteq tainted'
      /\ \/ GoesOn(op, op', ErrorEnds(k)) /\ op'.failed
         \/ ~HasData(k) /\ GoesOn(op, op', k) /\ op'.failed = op.failed
         \/ op'.pc = "list" /\ op'.kind = k /\ op'.failed = op.failed
  BY WriteSourceFields
<1>2. UNCHANGED <<dks, label, secret, conditions, clean, orphans>>
  BY DEF WriteSource
<1>3. op'.pc \in {"source", "list", "unmap", "finish"}
  BY <1>1, KindCases DEF GoesOn, ErrorEnds
<1>4. ASSUME ~op'.failed, NEW j \in Kind, Passed(j)' PROVE Passed(j) \/ j[1] \notin op.copy.on
  <2>1. CASE ~HasData(k) /\ GoesOn(op, op', k)
    <3>1. k = FirstKind /\ k = <<"bootstrap", "config">> /\ "bootstrap" \notin op.copy.on
      BY <2>1 DEF HasData, FirstKind
    <3>2. j = <<"bootstrap", "config">>
      BY <1>4, <2>1, <3>1, KindCases DEF GoesOn, Passed, Before
    <3> QED
      BY <3>1, <3>2
  <2>2. CASE op'.pc = "list" /\ op'.kind = k
    BY <1>1, <1>4, <2>2 DEF Passed, Generating
  <2> QED
    BY <1>1, <1>4, <2>1, <2>2
<1>5. Generating /\ \A j \in Kind : ~Writing(j)
  BY <1>1 DEF Generating, Writing
<1> QED
  BY <1>1, <1>2, <1>3, <1>4, <1>5, QuietGeneration

LEMMA ListSecretsCopies ==
    ASSUME TypeInv, LabelInv, LeftInv, CopyInv, NEW k \in Kind, ListSecrets(k)
    PROVE  CopyInv'
<1>1. /\ op.pc = "list" /\ op.kind = k /\ Kept(op, op') /\ op'.pc = "write" /\ op'.kind = k
      /\ op'.conds = op.conds /\ op'.failed = op.failed
  BY ListSecretsFields
<1>2. UNCHANGED <<dks, label, secret, conditions, clean, orphans, tainted>>
  BY DEF ListSecrets, objects
<1>3. Generating /\ \A j \in Kind : (Passed(j)' => Passed(j)) /\ (Writing(j) => Writing(j)')
  BY <1>1 DEF Passed, Generating, Writing
<1> QED
  BY <1>1, <1>2, <1>3, QuietGeneration

LEMMA WriteSecretsCopies ==
    ASSUME TypeInv, LabelInv, SourceInv, LeftInv, CopyInv, NEW k \in Kind, WriteSecrets(k)
    PROVE  CopyInv'
<1>1. /\ op.pc = "write" /\ op.kind = k /\ Busy /\ Kept(op, op') /\ tainted \subseteq tainted'
      /\ op.conds \cup {k} \subseteq op'.conds
      /\ GoesOn(op, op', ErrorEnds(k)) \/ GoesOn(op, op', k)
      /\ op'.failed \/ (GoesOn(op, op', k) /\ op'.failed = op.failed)
  BY WriteSecretsFields
<1>2. UNCHANGED <<label, dks, conditions, clean, orphans>>
  BY WriteSecretsEffect
<1>3. PICK ns \in SUBSET op.targets[k[1]] :
        Writes(k, ns) /\ (op'.failed \/ (ns = op.targets[k[1]] /\ op'.failed = op.failed))
  BY WriteSecretsEffect
<1>4. /\ op'.dk = op.dk /\ op'.copy = op.copy /\ op'.removed = op.removed /\ Generating /\ Busy'
      /\ op'.pc \in {"source", "unmap", "finish"} /\ op.copy.exists /\ op.dk \in DynaKube /\ k[1] \in Feature
      /\ (op.failed => op'.failed)
  BY <1>1, KindCases, KindFacts DEF Kept, SameMapping, Generating, Busy, GoesOn, ErrorEnds, LabelInv, TypeInv
<1>5. k[2] = "certs" => op.copy.certs
  BY <1>1 DEF SourceInv, Writing
<1>6. op.removed \subseteq orphans /\ \A n \in ns : Given(n)
  BY <1>1, <1>3, <1>4 DEF LeftInv, RemovedInv, GivenInv, Mapping
<1>7. ToldInv'
  <2> SUFFICES ASSUME NEW n \in Namespace \ orphans, NEW d \in DynaKube \ tainted', NEW f \in Feature,
                      label[n] = d, secret'[n][<<f, "certs">>] # NoSecret
               PROVE  <<f, "certs">> \in Conds(d)'
    BY <1>2, <1>4, <1>6 DEF ToldInv
  <2>1. <<f, "certs">> \in Kind /\ n \notin op.removed /\ d \notin tainted
    BY <1>1, <1>6, KindFacts
  <2>2. CASE n \in ns /\ <<f, "certs">> = k
    <3>1. d = op.dk
      BY <1>6, <2>2 DEF Given
    <3> QED
      BY <1>1, <1>4, <2>2, <3>1 DEF Conds
  <2>3. CASE ~(n \in ns /\ <<f, "certs">> = k)
    <3>1. secret[n][<<f, "certs">>] # NoSecret
      BY <1>3, <2>1, <2>3 DEF Writes
    <3>2. <<f, "certs">> \in Conds(d) \/ (op.dk = d /\ <<f, "certs">> = k)
      BY <1>1, <2>1, <3>1 DEF CopyInv, ToldInv, Writing
    <3> QED
      BY <1>1, <1>2, <1>4, <3>2 DEF Conds
  <2> QED
    BY <2>2, <2>3
<1>8. ASSUME NEW d \in DynaKube, op.dk = d, Undisturbed, op.copy.on # {}, ~op.failed, NEW n \in Labelled(d), NEW j \in Kind,
             Right(d, n, j) \/ j = k, <<j[1], n>> \notin Flags(op.copy) \/ j # k \/ n \in ns
      PROVE  Right(d, n, j)'
  <2>1. op.copy = dks[d] /\ n \in Namespace /\ Sure
    BY <1>8 DEF LabelInv, Labelled, Sure
  <2>2. CASE j = k /\ n \in ns
    <3>1. <<k[1], n>> \in Flags(op.copy)
      BY <1>3, <1>4, <2>1, <2>2 DEF CopyInv, TargetsInv
    <3>2. secret'[n][j] = Content(d, dks[d])
      BY <1>3, <1>8, <2>1, <2>2 DEF Writes
    <3> QED
      BY <1>2, <1>5, <2>1, <2>2, <3>1, <3>2 DEF Right, Flags, Content
  <2>3. CASE ~(j = k /\ n \in ns)
    <3>1. secret'[n][j] = secret[n][j]
      BY <1>3, <2>1, <2>3 DEF Writes
    <3>2. Right(d, n, j)
      <4>1. CASE j = k
        BY <1>4, <1>8, <2>1, <2>3, <4>1 DEF CopyInv, DoneInv
      <4>2. CASE j # k
        BY <1>8, <4>2
      <4> QED
        BY <4>1, <4>2
    <3> QED
      BY <1>1, <1>2, <3>1, <3>2, RightStays
  <2> QED
    BY <2>2, <2>3
<1>9. ASSUME NEW d \in clean, d # op.dk \/ ~op.failed, RightOf(d) PROVE RightOf(d)'
  <2>1. d \in DynaKube
    BY DEF TypeInv, TypeOK
  <2> SUFFICES ASSUME NEW n \in Labelled(d), NEW j \in Kind PROVE Right(d, n, j)'
    BY <1>2 DEF RightOf, Labelled
  <2>2. Right(d, n, j) /\ n \in Namespace /\ label[n] = d
    BY <1>9 DEF RightOf, Labelled
  <2>3. CASE d # op.dk
    <3>1. n \notin ns
      BY <1>1, <1>6, <2>2, <2>3 DEF Given, CopyInv, CleanInv
    <3>2. secret'[n][j] = secret[n][j]
      BY <1>3, <2>2, <3>1 DEF Writes
    <3> QED
      BY <1>1, <1>2, <2>2, <3>2, RightStays
  <2>4. CASE d = op.dk
    <3>1. Undisturbed /\ op.copy = dks[d] /\ LabelsDone(d)
      BY <1>1, <2>4 DEF LabelInv, Undisturbed
    <3>2. op.copy.on # {}
      BY <1>4, <2>4, <3>1 DEF LabelsDone
    <3>3. <<j[1], n>> \in Flags(op.copy) /\ j = k /\ n \notin ns => secret'[n][j] = secret[n][j]
      BY <1>3, <2>2 DEF Writes
    <3>4. <<j[1], n>> \in Flags(op.copy) /\ j = k /\ n \notin ns => Right(d, n, j)'
      BY <1>1, <1>2, <2>2, <3>3, RightStays
    <3> QED
      BY <1>8, <1>9, <2>1, <2>2, <2>4, <3>1, <3>2, <3>4
  <2> QED
    BY <2>3, <2>4
<1>10. ASSUME NEW d \in DynaKube, Sure, ~op'.failed, op.dk = d, NEW n \in Labelled(d), NEW j \in Kind,
              <<j[1], n>> \notin Flags(op.copy) \/ Passed(j)'
       PROVE  Right(d, n, j)'
  <2>1. ns = op.targets[k[1]] /\ GoesOn(op, op', k) /\ Undisturbed /\ ~op.failed /\ op.copy.on # {} /\ n \in Namespace
    BY <1>1, <1>3, <1>4, <1>10 DEF Sure, Labelled
  <2>2. <<j[1], n>> \notin Flags(op.copy) \/ j = k \/ Passed(j)
    BY <1>1, <1>4, <1>10, <2>1, PassedNext DEF Passed
  <2>3. Right(d, n, j) \/ j = k
    BY <1>4, <1>10, <2>2 DEF CopyInv, DoneInv
  <2>4. <<j[1], n>> \notin Flags(op.copy) \/ j # k \/ n \in ns
    BY <1>4, <1>10, <2>1 DEF CopyInv, TargetsInv
  <2> QED
    BY <1>8, <1>10, <2>1, <2>3, <2>4
<1> QED
  BY <1>1, <1>2, <1>4, <1>7, <1>9, <1>10, GeneratingCopies
-----------------------------------------------------------------------------
\* the unmapping, and the ends of a reconcile

LEMMA UnmappingCopies ==
    ASSUME TypeInv, LabelInv, LeftInv, CopyInv, op.pc \in {"unmap", "unmapLabels", "unmapSecrets"},
           UNCHANGED <<dks, label, secret, conditions, clean>>, SameReconcile, op'.conds = op.conds,
           op.failed => op'.failed, tainted \subseteq tainted', orphans \cup op.removed \subseteq orphans',
           op'.pc = "unmapLabels" \/ op'.pc = "finish"
    PROVE  CopyInv'
<1>1. Busy /\ Busy' /\ ~Mapping' /\ ~Generating' /\ op'.copy = op.copy /\ (~op.copy.exists \/ op.copy.on = {})
  BY DEF Busy, Mapping, Generating, SameReconcile, LabelInv, Unmapping
<1>2. MatchedInv' /\ TargetsInv' /\ DoneInv'
  BY <1>1 DEF MatchedInv, TargetsInv, DoneInv, Mapping, Sure
<1> QED
  BY <1>1, <1>2, QuietCopies

LEMMA UnmapCopies ==
    ASSUME TypeInv, LabelInv, LeftInv, CopyInv, Unmap \/ Unmapped
    PROVE  CopyInv'
<1>1. UNCHANGED <<dks, label, secret, conditions, clean, orphans>> /\ op.pc \in {"unmap", "unmapLabels"}
  BY DEF Unmap, Unmapped, objects
<1>2. /\ SameReconcile /\ op'.conds = op.conds /\ (op.failed => op'.failed)
      /\ tainted \subseteq tainted' /\ (op'.pc = "unmapLabels" \/ op'.pc = "finish")
  BY UnmapFields, UnmappedFields DEF UnmappingFails, Unmapped
<1>3. op.removed \subseteq orphans
  BY <1>1 DEF LeftInv, RemovedInv, Mapping
<1> QED
  BY <1>1, <1>2, <1>3, UnmappingCopies

LEMMA UnmapLabelCopies ==
    ASSUME TypeInv, LabelInv, LeftInv, CopyInv, NEW n \in Namespace, UnmapLabel(n)
    PROVE  CopyInv'
<1>1. /\ UNCHANGED <<dks, secret, conditions, orphans>> /\ op.pc = "unmapLabels" /\ Busy /\ n \in op.todo
      /\ SameReconcile /\ op'.conds = op.conds /\ tainted \subseteq tainted' /\ op.dk \in DynaKube
      /\ label \in [Namespace -> DynaKube \cup {NoDynaKube}]
  BY UnmapLabelFields DEF UnmapLabel, TypeInv, TypeOK
<1>2. op.removed \subseteq orphans
  BY <1>1 DEF LeftInv, RemovedInv, Mapping
<1>3. CASE UnmappingFails
  BY <1>1, <1>2, <1>3, UnmappingCopies DEF UnmappingFails
<1>4. CASE op'.pc = "unmapSecrets" /\ op'.removed = {n} /\ label' = [label EXCEPT ![n] = NoDynaKube]
  <2>1. Busy' /\ ~Mapping' /\ ~Generating' /\ op'.dk = op.dk /\ op'.copy = op.copy
    BY <1>1, <1>4 DEF Busy, Mapping, Generating, SameReconcile
  <2>2. clean' = {}
    <3>1. clean' \subseteq {op.dk} /\ clean' \subseteq clean
      <4>1. clean' = clean \ (DynaKube \ {op.dk}) \/ op'.pc = "finish"
        BY <1>1, UnmapFailsFields DEF UnmapLabel, Changed, TypeInv, TypeOK
      <4> QED
        BY <1>4, <4>1 DEF TypeInv, TypeOK
    <3>2. op.dk \notin clean
      <4> SUFFICES ASSUME op.dk \in clean PROVE FALSE
        OBVIOUS
      <4>1. Undisturbed /\ op.copy = dks[op.dk] /\ (~op.copy.exists \/ op.copy.on = {})
        BY <1>1 DEF LabelInv, Undisturbed, Unmapping
      <4>2. n \in Labelled(op.dk) /\ Labelled(op.dk) = {}
        BY <1>1, <4>1 DEF LabelInv, LabelsDone
      <4> QED
        BY <4>2
    <3> QED
      BY <3>1, <3>2
  <2>3. CleanInv' /\ MatchedInv' /\ TargetsInv' /\ DoneInv'
    BY <1>4, <2>1, <2>2 DEF CleanInv, MatchedInv, TargetsInv, DoneInv, Mapping
  <2>4. ToldInv'
    <3> SUFFICES ASSUME NEW m \in Namespace \ (orphans \cup {n}), NEW d \in DynaKube \ tainted', NEW f \in Feature,
                        label'[m] = d, secret[m][<<f, "certs">>] # NoSecret
                 PROVE  <<f, "certs">> \in Conds(d)'
      BY <1>1, <1>4 DEF ToldInv
    <3>1. m \notin op.removed /\ d \notin tainted /\ label[m] = d
      BY <1>1, <1>2, <1>4
    <3>2. <<f, "certs">> \in Conds(d)
      BY <1>1, <3>1 DEF CopyInv, ToldInv, Writing
    <3> QED
      BY <1>1, <2>1, <3>2 DEF Conds
  <2> QED
    BY <2>3, <2>4 DEF CopyInv
<1> QED
  BY <1>3, <1>4, UnmapLabelMapping

LEMMA UnmapSecretsCopies ==
    ASSUME TypeInv, LabelInv, LeftInv, CopyInv, UnmapSecrets
    PROVE  CopyInv'
<1>1. /\ UNCHANGED <<dks, label, conditions, clean>> /\ op.pc = "unmapSecrets" /\ Busy
      /\ SameReconcile /\ op'.conds = op.conds /\ tainted \subseteq tainted' /\ clean = {}
  BY UnmapSecretsFields DEF UnmapSecrets, CopyInv, CleanInv
<1>2. CASE UnmappingFails /\ orphans' = orphans \cup op.removed
  BY <1>1, <1>2, UnmappingCopies DEF UnmappingFails
<1>3. CASE /\ op'.pc = "unmapLabels" /\ op'.removed = {}
           /\ Deletes(Kind, op.removed) /\ orphans' = orphans \ op.removed
  <2>1. Busy' /\ ~Mapping' /\ ~Generating' /\ op'.dk = op.dk /\ op'.copy = op.copy
    BY <1>1, <1>3 DEF Busy, Mapping, Generating, SameReconcile
  <2>2. CleanInv' /\ MatchedInv' /\ TargetsInv' /\ DoneInv'
    BY <1>1, <1>3, <2>1 DEF CleanInv, MatchedInv, TargetsInv, DoneInv, Mapping
  <2>3. ToldInv'
    <3> SUFFICES ASSUME NEW m \in Namespace, m \notin orphans', NEW d \in DynaKube \ tainted', NEW f \in Feature,
                        label[m] = d, secret'[m][<<f, "certs">>] # NoSecret
                 PROVE  <<f, "certs">> \in Conds(d)'
      BY <1>1, <1>3 DEF ToldInv
    <3>1. <<f, "certs">> \in Kind
      BY KindFacts
    <3>2. m \notin op.removed /\ m \notin orphans /\ secret[m][<<f, "certs">>] # NoSecret /\ d \notin tainted
      BY <1>1, <1>3, <3>1 DEF Deletes
    <3>3. <<f, "certs">> \in Conds(d)
      BY <1>1, <3>2 DEF CopyInv, ToldInv, Writing
    <3> QED
      BY <1>1, <2>1, <3>3 DEF Conds
  <2> QED
    BY <2>2, <2>3 DEF CopyInv
<1> QED
  BY <1>2, <1>3, UnmapSecretsMapping

\* a reconcile begins or is over
LEMMA OutsideCopies ==
    ASSUME TypeInv, CopyInv, UNCHANGED <<dks, label, secret>>, op'.pc \in {"idle", "map", "unmap"}, ~op'.disturbed,
           tainted \subseteq tainted', orphans \cup op.removed \subseteq orphans',
           op.pc \in {"list", "write"} => op.dk \in tainted',
           \A d \in DynaKube \ tainted' : Conds(d) \subseteq Conds(d)',
           \A d \in clean' : RightOf(d)
    PROVE  CopyInv'
<1>1. ~Mapping' /\ ~Generating' /\ op'.pc # "finish"
  BY DEF Mapping, Generating
<1>2. MatchedInv' /\ TargetsInv' /\ DoneInv'
  BY <1>1 DEF MatchedInv, TargetsInv, DoneInv, Mapping
<1>3. CleanInv'
  <2>1. \A d \in clean' : RightOf(d)'
    BY RightStays DEF RightOf, Labelled
  <2> QED
    BY <2>1 DEF CleanInv
<1>4. ToldInv'
  BY CopiesTold DEF CopyInv, Writing
<1> QED
  BY <1>2, <1>3, <1>4 DEF CopyInv

LEMMA BeginCopies ==
    ASSUME TypeInv, LeftInv, CopyInv, NEW d \in DynaKube, Begin(d)
    PROVE  CopyInv'
<1>1. UNCHANGED <<dks, label, secret, conditions, clean, orphans, tainted>> /\ ~Busy /\ op.pc = "idle"
  BY DEF Begin, objects, Busy
<1>2. /\ op'.pc \in {"map", "unmap"} /\ op'.dk = d /\ op'.copy = dks[d] /\ ~op'.disturbed /\ conditions[d] \subseteq op'.conds
  BY BeginFields
<1>3. \A e \in DynaKube : Conds(e) \subseteq Conds(e)'
  BY <1>1, <1>2 DEF Conds
<1>4. op.removed \subseteq orphans /\ \A e \in clean' : RightOf(e)
  BY <1>1 DEF LeftInv, RemovedInv, Mapping, CopyInv, CleanInv
<1> QED
  BY <1>1, <1>2, <1>3, <1>4, OutsideCopies

LEMMA FinishCopies ==
    ASSUME TypeInv, LabelInv, LeftInv, CopyInv, Finish
    PROVE  CopyInv'
<1>1. /\ UNCHANGED <<dks, label, secret, orphans>> /\ op.pc = "finish" /\ Busy /\ op' = Idle
      /\ tainted \subseteq tainted' /\ op.dk \in DynaKube
      /\ \A d \in DynaKube : d # op.dk => conditions'[d] = conditions[d]
      /\ clean' \subseteq clean \cup {op.dk} /\ (op.dk \in clean' => ~op.failed /\ ~op.disturbed)
      /\ op.dk \in tainted' \/ conditions'[op.dk] = IF op.copy.exists THEN op.conds ELSE conditions[op.dk]
  BY FinishFields DEF Finish, TypeInv
<1>2. op'.pc = "idle" /\ ~op'.disturbed /\ ~Busy'
  BY <1>1 DEF Idle, Busy
<1>3. \A d \in DynaKube \ tainted' : Conds(d) \subseteq Conds(d)'
  BY <1>1, <1>2 DEF Conds
<1>4. op.removed \subseteq orphans
  BY <1>1 DEF LeftInv, RemovedInv, Mapping
<1>5. ASSUME NEW d \in clean' PROVE RightOf(d)
  <2>1. CASE d # op.dk
    BY <1>1, <1>5, <2>1 DEF CopyInv, CleanInv
  <2>2. CASE d = op.dk
    <3>1. Undisturbed /\ ~op.failed /\ op.copy = dks[d] /\ LabelsDone(d)
      BY <1>1, <1>5, <2>2 DEF Undisturbed, LabelInv
    <3>2. CASE op.copy.exists /\ op.copy.on # {}
      BY <1>1, <2>2, <3>1, <3>2 DEF RightOf, CopyInv, DoneInv, Sure, Passed
    <3>3. CASE ~(op.copy.exists /\ op.copy.on # {})
      BY <3>1, <3>3 DEF RightOf, LabelsDone
    <3> QED
      BY <3>2, <3>3
  <2> QED
    BY <2>1, <2>2
<1> QED
  BY <1>1, <1>2, <1>3, <1>4, <1>5, OutsideCopies

LEMMA CrashCopies ==
    ASSUME TypeInv, LabelInv, CopyInv, Crash
    PROVE  CopyInv'
<1>1. /\ UNCHANGED <<dks, label, secret, conditions>> /\ Busy /\ op' = Idle /\ clean' = clean \ {op.dk}
      /\ tainted \subseteq tainted' /\ op.dk \in tainted' /\ orphans' = orphans \cup op.removed
  BY CrashFields DEF Crash, objects
<1>2. op'.pc = "idle" /\ ~op'.disturbed /\ ~Busy'
  BY <1>1 DEF Idle, Busy
<1>3. \A d \in DynaKube \ tainted' : Conds(d) \subseteq Conds(d)'
  BY <1>1, <1>2 DEF Conds
<1>4. \A d \in clean' : RightOf(d)
  BY <1>1 DEF CopyInv, CleanInv
<1> QED
  BY <1>1, <1>2, <1>3, <1>4, OutsideCopies

LEMMA SubReconcilersFailCopies ==
    ASSUME TypeInv, LeftInv, CopyInv, NEW d \in DynaKube, SubReconcilersFail(d)
    PROVE  CopyInv'
<1>1. /\ UNCHANGED <<dks, label, secret, op, orphans, tainted>> /\ ~Busy /\ clean' = clean \ {d}
      /\ \A e \in DynaKube : conditions[e] \subseteq conditions'[e]
  BY SubReconcilersFailFields DEF SubReconcilersFail
<1>2. op.pc = "idle" /\ ~Busy' /\ op.removed \subseteq orphans /\ ~Mapping /\ ~Generating
  BY <1>1 DEF Busy, LeftInv, RemovedInv, Mapping, Generating
<1>3. ToldInv'
  <2>1. \A e \in DynaKube : Conds(e) \subseteq Conds(e)'
    BY <1>1, <1>2 DEF Conds
  <2> QED
    BY <1>1, <1>2, <2>1, CopiesTold DEF CopyInv, Writing
<1>4. CleanInv'
  <2>1. \A e \in clean' : RightOf(e)'
    BY <1>1, RightStays DEF RightOf, Labelled, CopyInv, CleanInv
  <2> QED
    BY <1>1, <1>2, <2>1 DEF CleanInv
<1>5. MatchedInv' /\ TargetsInv' /\ DoneInv'
  BY <1>1, <1>2 DEF MatchedInv, TargetsInv, DoneInv, Mapping, Generating
<1> QED
  BY <1>3, <1>4, <1>5 DEF CopyInv
-----------------------------------------------------------------------------
\* what others do

\* steps that change none of it
LEMMA OtherCopies ==
    ASSUME CopyInv, UNCHANGED <<dks, label, secret, conditions, op, clean, orphans, tainted>>
    PROVE  CopyInv'
<1>1. /\ Busy' <=> Busy
      /\ Mapping' <=> Mapping
      /\ Generating' <=> Generating
      /\ Undisturbed' <=> Undisturbed
      /\ Sure' <=> Sure
  BY DEF Busy, Mapping, Generating, Undisturbed, Sure
<1>2. /\ \A d, n, k : Right(d, n, k)' <=> Right(d, n, k)
      /\ \A d : Labelled(d)' = Labelled(d) /\ Conds(d)' = Conds(d) /\ (RightOf(d)' <=> RightOf(d))
      /\ \A k : (Writing(k)' <=> Writing(k)) /\ (Passed(k)' <=> Passed(k))
      /\ Flags(op.copy)' = Flags(op.copy)
  BY DEF Right, RightOf, Labelled, Conds, Writing, Passed, Busy, Generating, Flags
<1>3. ToldInv'
  BY <1>1, <1>2 DEF CopyInv, ToldInv
<1>4. MatchedInv'
  BY <1>1, <1>2 DEF CopyInv, MatchedInv
<1>5. TargetsInv' /\ CleanInv'
  BY <1>1, <1>2 DEF CopyInv, TargetsInv, CleanInv
<1>6. DoneInv'
  BY <1>1, <1>2 DEF CopyInv, DoneInv
<1> QED
  BY <1>3, <1>4, <1>5, <1>6 DEF CopyInv

\* what others change while the operator is at work
LEMMA DisturbedCopies ==
    ASSUME CopyInv, Disturbed, ToldInv'
    PROVE  CopyInv'
<1>1. /\ op'.pc = op.pc /\ op'.dk = op.dk /\ op'.copy = op.copy /\ op'.flags = op.flags
      /\ op'.owned = op.owned /\ op'.todo = op.todo /\ clean' = {} /\ (Mapping' <=> Mapping)
  BY DEF Disturbed, SameMapping, Mapping
<1>2. ~Undisturbed'
  BY <1>1 DEF Undisturbed, Busy, Disturbed
<1>3. MatchedInv'
  BY <1>1, <1>2 DEF CopyInv, MatchedInv
<1>4. TargetsInv' /\ DoneInv' /\ CleanInv'
  BY <1>1, <1>2 DEF TargetsInv, DoneInv, CleanInv, Sure
<1> QED
  BY <1>3, <1>4 DEF CopyInv

LEMMA EditNamespaceCopies ==
    ASSUME TypeInv, LeftInv, CopyInv, NEW n \in Namespace, EditNamespace(n)
    PROVE  CopyInv'
<1>1. Disturbed /\ UNCHANGED <<secret, conditions, tainted>>
  BY EditNamespaceFields DEF EditNamespace
<1>2. PICK x : label' = [label EXCEPT ![n] = x]
  BY DEF EditNamespace
<1>3. \A m \in Namespace : m # n => label'[m] = label[m]
  BY <1>2 DEF TypeInv, TypeOK
<1>4. orphans' = IF label[n] \in {label'[n], NoDynaKube} THEN orphans ELSE orphans \cup {n}
  BY DEF EditNamespace
<1>5. op'.removed = op.removed /\ \A d : Conds(d)' = Conds(d) /\ (\A k : Writing(k)' <=> Writing(k)) /\ op'.dk = op.dk
  BY <1>1 DEF Disturbed, SameMapping, Conds, Writing, Busy
<1>6. ToldInv'
  <2> SUFFICES ASSUME NEW m \in Namespace \ (orphans' \cup op.removed), NEW d \in DynaKube \ tainted, NEW f \in Feature,
                      label'[m] = d, secret[m][<<f, "certs">>] # NoSecret
               PROVE  <<f, "certs">> \in Conds(d) \/ (op.dk = d /\ Writing(<<f, "certs">>))
    BY <1>1, <1>5 DEF ToldInv
  <2>1. m \notin orphans
    BY <1>4
  <2>2. label[m] # NoDynaKube
    BY <2>1, KindFacts DEF LeftInv, EmptyInv, Empty
  <2>3. label[m] = d
    BY <1>3, <1>4, <2>2
  <2> QED
    BY <2>1, <2>3 DEF CopyInv, ToldInv
<1> QED
  BY <1>1, <1>6, DisturbedCopies

LEMMA CreateReplicatedCopies ==
    ASSUME TypeInv, SourceInv, LeftInv, CopyInv, CreateReplicated
    PROVE  CopyInv'
<1>1. UNCHANGED <<dks, label, source, conditions, tainted>>
  BY DEF CreateReplicated
<1>2. CASE secret[pod.ns][pod.kind] = NoSecret
  <2>1. /\ secret' = [secret EXCEPT ![pod.ns][pod.kind] = pod.held] /\ orphans \subseteq orphans'
        /\ pod.ns \notin orphans' =>
              label[pod.ns] = pod.held.dk /\ pod.ns \notin op.removed /\ source[pod.held.dk][pod.kind] # NoSecret
    BY <1>2 DEF CreateReplicated
  <2>2. /\ op' = Disturb(op) /\ clean' = {} /\ op \in Reconciliation
        /\ pod.ns \in Namespace /\ pod.kind \in Kind /\ secret \in [Namespace -> [Kind -> Secret]]
    BY <1>2 DEF CreateReplicated, Changed, TypeInv, TypeOK
  <2>3. Disturbed
    BY <2>2, DisturbFields DEF Disturbed
  <2>4. op'.removed = op.removed /\ \A d : Conds(d)' = Conds(d) /\ (\A k : Writing(k)' <=> Writing(k)) /\ op'.dk = op.dk
    BY <1>1, <2>3 DEF Disturbed, SameMapping, Conds, Writing, Busy
  <2>5. ToldInv'
    <3> SUFFICES ASSUME NEW m \in Namespace \ (orphans' \cup op.removed), NEW d \in DynaKube \ tainted, NEW f \in Feature,
                        label[m] = d, secret'[m][<<f, "certs">>] # NoSecret
                 PROVE  <<f, "certs">> \in Conds(d) \/ (op.dk = d /\ Writing(<<f, "certs">>))
      BY <1>1, <2>4 DEF ToldInv
    <3>1. <<f, "certs">> \in Kind /\ m \notin orphans
      BY <2>1, KindFacts
    <3>2. CASE m = pod.ns /\ <<f, "certs">> = pod.kind
      <4>1. source[d][<<f, "certs">>] # NoSecret
        BY <2>1, <3>2
      <4>2. CASE ~(Busy /\ op.dk = d)
        <5>1. CertsTold(conditions[d], d, f)
          BY <4>2 DEF SourceInv
        <5> QED
          BY <4>1, <4>2, <5>1 DEF CertsTold, Conds
      <4>3. CASE Busy /\ op.dk = d
        <5>1. op.copy.exists
          BY <3>1, <4>1, <4>3 DEF SourceInv, NoSources
        <5>2. Writing(<<f, "certs">>) \/ CertsTold(op.conds, op.dk, f)
          BY <4>3 DEF SourceInv
        <5> QED
          BY <4>1, <4>3, <5>1, <5>2 DEF CertsTold, Conds
      <4> QED
        BY <4>2, <4>3
    <3>3. CASE ~(m = pod.ns /\ <<f, "certs">> = pod.kind)
      <4>1. secret'[m][<<f, "certs">>] = secret[m][<<f, "certs">>]
        BY <2>1, <2>2, <3>1, <3>3
      <4> QED
        BY <3>1, <4>1 DEF CopyInv, ToldInv
    <3> QED
      BY <3>2, <3>3
  <2> QED
    BY <2>3, <2>5, DisturbedCopies
<1>3. CASE secret[pod.ns][pod.kind] # NoSecret
  BY <1>1, <1>3, OtherCopies DEF CreateReplicated
<1> QED
  BY <1>2, <1>3

LEMMA EditDynaKubeCopies ==
    ASSUME TypeInv, CopyInv, NEW d \in DynaKube, EditDynaKube(d)
    PROVE  CopyInv'
<1>1. /\ Disturbed /\ UNCHANGED <<label, secret, tainted>>
      /\ \A e \in DynaKube : e # d => conditions'[e] = conditions[e]
  BY EditDynaKubeFields DEF EditDynaKube
<1>2. orphans \subseteq orphans' /\ (UNCHANGED conditions \/ Labelled(d) \subseteq orphans')
  BY DEF EditDynaKube
<1>3. /\ op'.removed = op.removed /\ op'.dk = op.dk /\ op'.conds = op.conds /\ op'.copy = op.copy
      /\ (Busy' <=> Busy) /\ (\A k : Writing(k)' <=> Writing(k))
  BY <1>1 DEF Disturbed, SameMapping, Writing, Busy
<1>4. \A e \in DynaKube : Conds(e) \subseteq Conds(e)' \/ Labelled(e) \subseteq orphans'
  BY <1>1, <1>2, <1>3 DEF Conds
<1>5. ToldInv'
  BY <1>1, <1>2, <1>3, <1>4, CopiesTold DEF CopyInv
<1> QED
  BY <1>1, <1>5, DisturbedCopies

LEMMA CopyInit == Init => CopyInv
<1> SUFFICES ASSUME Init PROVE CopyInv
  OBVIOUS
<1>1. op.pc = "idle" /\ clean = {} /\ ~Busy
  BY DEF Init, Idle, Busy
<1>2. ToldInv
  BY KindFacts DEF Init, ToldInv
<1> QED
  BY <1>1, <1>2 DEF CopyInv, MatchedInv, TargetsInv, DoneInv, CleanInv, Mapping, Generating

LEMMA CopyNext == TypeInv /\ LabelInv /\ SourceInv /\ LeftInv /\ CopyInv /\ [Next]_vars => CopyInv'
<1> SUFFICES ASSUME TypeInv, LabelInv, SourceInv, LeftInv, CopyInv, [Next]_vars PROVE CopyInv'
  OBVIOUS
<1>1. ASSUME NEW d \in DynaKube, Begin(d) PROVE CopyInv'
  BY <1>1, BeginCopies
<1>2. ASSUME NEW d \in DynaKube, SubReconcilersFail(d) PROVE CopyInv'
  BY <1>2, SubReconcilersFailCopies
<1>3. CASE Map
  BY <1>3, MapCopies
<1>4. ASSUME NEW n \in Namespace, UpdateLabel(n) PROVE CopyInv'
  BY <1>4, UpdateLabelCopies
<1>5. CASE Relabelled
  BY <1>5, RelabelledCopies
<1>6. ASSUME NEW n \in Namespace, DeleteUnmatched(n) PROVE CopyInv'
  BY <1>6, DeleteUnmatchedCopies
<1>7. CASE Mapped
  BY <1>7, MappedCopies
<1>8. ASSUME NEW f \in Feature, Cleanup(f) PROVE CopyInv'
  BY <1>8, CleanupCopies
<1>9. ASSUME NEW f \in Feature, CleanupCerts(f) PROVE CopyInv'
  BY <1>9, CleanupCertsCopies
<1>10. ASSUME NEW k \in Kind, WriteSource(k) PROVE CopyInv'
  BY <1>10, WriteSourceCopies
<1>11. ASSUME NEW k \in Kind, ListSecrets(k) PROVE CopyInv'
  BY <1>11, ListSecretsCopies
<1>12. ASSUME NEW k \in Kind, WriteSecrets(k) PROVE CopyInv'
  BY <1>12, WriteSecretsCopies
<1>13. CASE Unmap \/ Unmapped
  BY <1>13, UnmapCopies
<1>14. ASSUME NEW n \in Namespace, UnmapLabel(n) PROVE CopyInv'
  BY <1>14, UnmapLabelCopies
<1>15. CASE UnmapSecrets
  BY <1>15, UnmapSecretsCopies
<1>16. CASE Finish
  BY <1>16, FinishCopies
<1>17. CASE Crash
  BY <1>17, CrashCopies
<1>18. ASSUME NEW n \in Namespace, EditNamespace(n) PROVE CopyInv'
  BY <1>18, EditNamespaceCopies
<1>19. ASSUME NEW n \in Namespace, NEW k \in Kind, Replicate(n, k) PROVE CopyInv'
  BY <1>19, OtherCopies DEF Replicate, objects
<1>20. CASE CacheSync
  BY <1>20, OtherCopies DEF CacheSync, objects
<1>21. CASE CreateReplicated
  BY <1>21, CreateReplicatedCopies
<1>22. ASSUME NEW d \in DynaKube, EditDynaKube(d) PROVE CopyInv'
  BY <1>22, EditDynaKubeCopies
<1>23. CASE UNCHANGED vars
  BY <1>23, OtherCopies DEF vars
<1> QED
  BY <1>1, <1>2, <1>3, <1>4, <1>5, <1>6, <1>7, <1>8, <1>9, <1>10, <1>11, <1>12, <1>13, <1>14, <1>15, <1>16, <1>17,
     <1>18, <1>19, <1>20, <1>21, <1>22, <1>23 DEF Next, Reconcile

LEMMA SecretsFollow == TypeInv /\ CopyInv => SecretsAgree
<1> SUFFICES ASSUME TypeInv, CopyInv, Settled, NEW n \in Namespace, NEW k \in Kind, label[n] # NoDynaKube
             PROVE  Right(label[n], n, k)
  BY DEF SecretsAgree, Right
<1>1. label[n] \in clean /\ ~Busy
  BY DEF Settled, TypeInv, TypeOK
<1>2. RightOf(label[n]) /\ n \in Labelled(label[n])
  BY <1>1 DEF CopyInv, CleanInv, Labelled
<1> QED
  BY <1>2 DEF RightOf

-----------------------------------------------------------------------------
(* The theorems.                                                            *)

Inv == TypeInv /\ LabelInv /\ SourceInv /\ LeftInv /\ CopyInv

\* In every reachable state what the operator is in the middle of, what it mapped, generated and copied
\* so far and what the conditions tell fit together (Reconcile of the injection controller).
THEOREM Invariant == InjectionSpec => []Inv
<1>1. Init => Inv
  BY TypeInit, LabelInit, SourceInit, LeftInit, CopyInit DEF Inv
<1>2. Inv /\ [Next]_vars => Inv'
  BY TypeNext, LabelNext, SourceNext, LeftNext, CopyNext DEF Inv
<1> QED
  BY <1>1, <1>2, PTL DEF InjectionSpec

\* The variables keep their types under every handler.
THEOREM TypeCorrect == InjectionSpec => []TypeOK
<1>1. Inv => TypeOK
  BY DEF Inv, TypeInv
<1> QED
  BY <1>1, Invariant, PTL

\* When every DynaKube was reconciled without error since the last change, each namespace carries the
\* label of the one DynaKube that matches it, whatever the webhook wrote from an old cache
\* (MapFromDynakube, UnmapFromDynaKube, updateNamespace).
THEOREM MappedAsSelected == InjectionSpec => []LabelsAgree
<1>1. Inv => LabelsAgree
  BY LabelsFollow DEF Inv
<1> QED
  BY <1>1, Invariant, PTL

\* Then each namespace holds the current secrets of its DynaKube, for the features that match it and no
\* others, but for certificates whose condition was lost, that another took away or that a pod brought
\* too late (CreateOrUpdateForNamespaces, deleteUnmatchedReplicatedSecrets, cleanupInitSecret,
\* cleanupOTLPSecret, EnsureReplicated).
THEOREM CopiesAsSelected == InjectionSpec => []SecretsAgree
<1>1. Inv => SecretsAgree
  BY SecretsFollow DEF Inv
<1> QED
  BY <1>1, Invariant, PTL

\* And a namespace that has no DynaKube holds no secret, unless its label was taken away by another than
\* a successful reconcile of the DynaKube it belonged to, or a pod was admitted too late: a label is
\* taken first and the secrets go in a later step (deleteUnmatchedReplicatedSecrets, UnmapFromDynaKube).
THEOREM UnmappedIsEmpty == InjectionSpec => []NothingIsLeft
<1>1. Inv => NothingIsLeft
  BY NothingLeft DEF Inv
<1> QED
  BY <1>1, Invariant, PTL

\* Then the secrets in the operator's namespace are those that the features ask for, of every DynaKube
\* whose reconciles met no failure: the conditions made each clean-up due (cleanupInitSecret,
\* cleanupOTLPSecret, createSourceForWebhook).
THEOREM SourcesFollowFeatures == InjectionSpec => []SourcesAgree
<1>1. Inv => SourcesAgree
  BY SourcesFollow DEF Inv
<1> QED
  BY <1>1, Invariant, PTL
=============================================================================
