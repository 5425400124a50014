------------------------- MODULE WebhookCertificates -------------------------
(***************************************************************************)
(* The certificates of the webhook.  The certificate controller keeps a    *)
(* root and a server certificate in a secret and writes the roots to trust *)
(* into the webhook configurations and the CRDs; it runs in the operator   *)
(* and, before it, in the init container certgen.  A webhook pod reads the *)
(* secret every few hours, writes the server certificate and its key to    *)
(* two files, and serves what the files hold.  One tick of the clock is    *)
(* the poll interval of the pod.                                           *)
(***************************************************************************)
EXTENDS Naturals

CONSTANTS
    RootId,           \* roots, told apart by their keys
    NoRoot,
    Workers,          \* the processes that run the certificate controller
    RequeueAfter, RenewalThreshold, ServerDuration, RootDuration, \* in poll intervals
    Horizon,          \* bound on the time
    MaxTroubles       \* bound on failing calls, crashes, and what users do to the objects

PollInterval == 1

\* newWebhookCertificateController refuses to start with any other durations
ASSUME DurationAssumption ==
    /\ {RequeueAfter, RenewalThreshold, ServerDuration, RootDuration} \subseteq Nat
    /\ ServerDuration > RenewalThreshold
    /\ RootDuration > ServerDuration
    /\ RenewalThreshold >= 2 * PollInterval
    /\ RequeueAfter < RenewalThreshold
\* What the theorem about ServedIsTrusted asks of the durations beyond this.  The defaults meet it; without it
\* a pod whose polls fail for long enough can serve a certificate from before the last two renewals of the root.
RootOutlivesServer == RootDuration + PollInterval >= ServerDuration + RenewalThreshold

ASSUME RootAssumption == NoRoot \notin RootId
ASSUME WorkersAssumption == "operator" \in Workers
ASSUME BoundAssumption == Horizon \in Nat /\ MaxTroubles \in Nat

VARIABLES
    now,
    secret,    \* root, previous root and server certificate in the secret
    bundle,    \* target -> roots its callers trust
    work,      \* worker -> its step and what it read
    due,       \* when the operator reconciles next
    webhookPod, \* files, served certificate and timer of the webhook pod
    missed,    \* history: since when a reconcile has gone past a target, or it was applied anew
    troubles

certVars == <<now, secret, bundle, work, due, webhookPod, missed, troubles>>

Configs == {"mutating", "validating"}
Checked == Configs \cup {"dynakube"}
Target == Checked \cup {"edgeconnect"}

Time == 0 .. Horizon + RootDuration
Cert == [root : RootId, notAfter : Time]
NoCert == [root |-> NoRoot, notAfter |-> 0]
NoSecret == [root |-> NoCert, old |-> NoRoot, server |-> NoCert]
CertSecret == [root : Cert \cup {NoCert}, old : RootId \cup {NoRoot}, server : Cert \cup {NoCert}]
IdleWork == [pc |-> "idle", seen |-> [t \in Checked |-> {}], absent |-> {},
         read |-> NoSecret, certs |-> NoSecret, changed |-> {}]

Exists(s) == s # NoSecret
Serving == webhookPod.served # NoCert

Work == [pc : {"idle", "secret", "writeSecret", "retry", "done"} \cup Target, seen : [Checked -> SUBSET RootId],
         absent : SUBSET Configs, read : CertSecret, certs : CertSecret, changed : SUBSET (Configs \cup {"secret"})]
WebhookPod == [crt : Cert \cup {NoCert}, key : Cert \cup {NoCert}, read : Cert \cup {NoCert},
        served : Cert \cup {NoCert}, due : Time, writing : BOOLEAN, stale : BOOLEAN]

CertTypeOK ==
    /\ now \in 0..Horizon
    /\ secret \in CertSecret
    /\ bundle \in [Target -> SUBSET RootId]
    /\ work \in [Workers -> Work]
    /\ due \in Time
    /\ webhookPod \in WebhookPod
    /\ missed \in [Target -> 0 .. RequeueAfter + 2]
    /\ troubles \in 0..MaxTroubles

CertInit ==
    /\ now = 0
    /\ secret = NoSecret
    /\ bundle = [t \in Target |-> {}]
    /\ work = [w \in Workers |-> IdleWork]
    /\ due = 0
    /\ webhookPod = [crt |-> NoCert, key |-> NoCert, read |-> NoCert, served |-> NoCert, due |-> 0,
              writing |-> FALSE, stale |-> FALSE]
    /\ missed = [t \in Target |-> 0]
    /\ troubles = 0

Trouble == troubles < MaxTroubles /\ troubles' = troubles + 1

\* 0: not missed, otherwise one more than the ticks since
Miss(targets) == [t \in Target |-> IF t \in targets THEN 1 ELSE missed[t]]
MissedLonger ==
    [t \in Target |-> IF t \in Checked /\ missed[t] \in 1 .. RequeueAfter + 1 THEN missed[t] + 1 ELSE missed[t]]
-----------------------------------------------------------------------------
(* ValidateCerts *)

Outdated(cert, threshold) == cert = NoCert \/ now + threshold > cert.notAfter

RootsInUse ==
    {secret.root.root, secret.old, webhookPod.crt.root, webhookPod.key.root, webhookPod.served.root}
      \cup UNION {bundle[t] : t \in Target}
      \cup UNION {{work[w].certs.root.root, work[w].certs.old} : w \in Workers}
FreshRoot == CHOOSE r \in RootId : r \notin RootsInUse

GenerateRootCerts(s) ==
    [root |-> [root |-> FreshRoot, notAfter |-> now + RootDuration], old |-> s.root.root, server |-> s.server]

GenerateServerCerts(s) ==
    [s EXCEPT !.server = [root |-> s.root.root, notAfter |-> now + ServerDuration]]

ValidateCerts(s) ==
    LET rooted == IF Outdated(s.root, RenewalThreshold) THEN GenerateRootCerts(s) ELSE s
    IN IF rooted # s \/ Outdated(s.server, RenewalThreshold) THEN GenerateServerCerts(rooted) ELSE rooted

CombinedBundle(s) == {s.root.root, s.old} \ {NoRoot}

\* Mutant: only the secret is looked at
OnlySecret(wk) == wk.certs = wk.read
\* every bundle that was read holds the root, and nothing else; the EdgeConnect CRD is not looked at
IsUpToDate(wk) ==
    /\ wk.certs = wk.read
    /\ \A t \in Checked \ wk.absent : wk.seen[t] = {wk.certs.root.root}

-----------------------------------------------------------------------------
(* The certificate controller *)

\* an object that somebody else wrote is no longer the one a worker has read
WillWrite(v, o) == o \in CASE work[v].pc \in {"secret", "writeSecret"} -> Configs \cup {"secret"}
                           [] work[v].pc = "mutating" -> Configs
                           [] work[v].pc = "validating" -> {"validating"}
                           [] OTHER -> {}
TouchAll(o) == [v \in Workers |-> IF WillWrite(v, o) THEN [work[v] EXCEPT !.changed = @ \cup {o}] ELSE work[v]]
Touch(w, o) == [TouchAll(o) EXCEPT ![w] = work[w]]

\* what was read is of no more use once the secret is written
Written(w) == [Touch(w, "secret") EXCEPT ![w].pc = "mutating", ![w].read = NoSecret]
Step(w, pc) == [work EXCEPT ![w].pc = pc, ![w].read = NoSecret]

Succeed(w) ==
    /\ work' = [work EXCEPT ![w] = [IdleWork EXCEPT !.pc = IF w = "operator" THEN "idle" ELSE "done"]]
    /\ due' = IF w = "operator" THEN now + RequeueAfter ELSE due
\* what fails is repeated, after seconds; the EdgeConnect CRD may be left behind
Retry(w) ==
    /\ work' = [work EXCEPT ![w] = [IdleWork EXCEPT !.pc = "retry"]]
    /\ due' = IF w = "operator" THEN now ELSE due
    /\ missed' = IF work[w].pc \in Target THEN Miss({"edgeconnect"}) ELSE missed

\* a configuration that cannot be read is taken for one that is not there
ReadConfigurations(w) ==
    /\ work[w].pc \in {"idle", "retry"}
    /\ w = "operator" => due <= now
    /\ \E absent \in SUBSET Configs :
         /\ IF absent = {} THEN UNCHANGED troubles ELSE Trouble
         /\ missed' = Miss(absent)
         /\ work' = [work EXCEPT ![w] = [IdleWork EXCEPT !.pc = "secret", !.absent = absent,
                                                     !.seen = [t \in Checked |-> bundle[t]]]]
    /\ UNCHANGED <<now, secret, bundle, due, webhookPod>>

ReadSecret(w) ==
    /\ work[w].pc = "secret"
    /\ RootId \ RootsInUse # {}    \* bound: there is a root left to generate
    /\ LET wk == [work[w] EXCEPT !.read = secret, !.certs = ValidateCerts(secret),
                                 !.changed = @ \ {"secret"}, !.pc = "writeSecret"]
       IN IF IsUpToDate(wk)
          THEN /\ Succeed(w)
               /\ missed' = [t \in Target |-> IF bundle[t] = {secret.root.root} THEN 0 ELSE missed[t]]
          ELSE /\ work' = [work EXCEPT ![w] = [wk EXCEPT !.seen = IdleWork.seen]]
               /\ UNCHANGED <<due, missed>>
    /\ UNCHANGED <<now, secret, bundle, webhookPod, troubles>>

\* createOrUpdateIfNecessary: created when there was none, and refused when another process was faster
WriteSecret(w) ==
    /\ work[w].pc = "writeSecret"
    /\ IF Exists(work[w].read) /\ work[w].certs = work[w].read
       THEN work' = Step(w, "mutating") /\ UNCHANGED <<secret, due, missed>>
       ELSE IF "secret" \in work[w].changed
       THEN Retry(w) /\ UNCHANGED secret
       ELSE /\ secret' = work[w].certs
            /\ work' = Written(w)
            /\ UNCHANGED <<due, missed>>
    /\ UNCHANGED <<now, bundle, webhookPod, troubles>>

After(t) == CASE t = "mutating" -> "validating" [] t = "validating" -> "dynakube"
              [] t = "dynakube" -> "edgeconnect"

WriteBundle(w, t) ==
    /\ bundle' = [bundle EXCEPT ![t] = CombinedBundle(work[w].certs)]
    /\ missed' = [missed EXCEPT ![t] = 0]

UpdateClientConfigurations(w, t) ==
    /\ work[w].pc = t
    /\ t \in Configs
    /\ IF t \in work[w].absent
       THEN work' = Step(w, After(t)) /\ UNCHANGED <<bundle, due, missed>>
       ELSE IF t \in work[w].changed
       THEN Retry(w) /\ UNCHANGED bundle
       ELSE /\ WriteBundle(w, t)
            /\ work' = [Touch(w, t) EXCEPT ![w].pc = After(t)]
            /\ UNCHANGED due
    /\ UNCHANGED <<now, secret, webhookPod, troubles>>

\* read and written at once
UpdateCRDConfiguration(w, t) ==
    /\ work[w].pc = t
    /\ t \in Target \ Configs
    /\ WriteBundle(w, t)
    /\ IF t = "edgeconnect" THEN Succeed(w) ELSE work' = Step(w, After(t)) /\ UNCHANGED due
    /\ UNCHANGED <<now, secret, webhookPod, troubles>>

\* a call fails, or the process crashes and is started again
CallFails(w) ==
    /\ work[w].pc \notin {"idle", "retry", "done"}
    /\ Trouble
    /\ Retry(w)
    /\ UNCHANGED <<now, secret, bundle, webhookPod>>

Controller(w) ==
    \/ ReadConfigurations(w) \/ ReadSecret(w) \/ WriteSecret(w)
    \/ \E t \in Configs : UpdateClientConfigurations(w, t)
    \/ \E t \in Target \ Configs : UpdateCRDConfiguration(w, t)
-----------------------------------------------------------------------------
(* The webhook pod *)

\* certificate and key are loaded again when a file changes; a pair that does not match is ignored
Loaded(crt, key) == IF Serving /\ crt = key THEN crt ELSE webhookPod.served

\* updateCertificatesFromSecret: every ten seconds until there is a certificate, then at each interval
Poll ==
    /\ ~webhookPod.writing
    /\ Serving => webhookPod.due = now
    /\ Exists(secret)
    /\ webhookPod' = [webhookPod EXCEPT !.read = secret.server, !.crt = secret.server, !.writing = TRUE,
                          !.served = Loaded(secret.server, webhookPod.key)]
    /\ UNCHANGED <<now, secret, bundle, work, due, missed, troubles>>

WriteKey ==
    /\ webhookPod.writing
    /\ webhookPod' = [webhookPod EXCEPT !.key = webhookPod.read, !.writing = FALSE, !.read = NoCert, !.due = now + PollInterval,
                 !.stale = FALSE,
                 !.served = IF ~Serving /\ ~Outdated(webhookPod.read, PollInterval) THEN webhookPod.read
                            ELSE Loaded(webhookPod.crt, webhookPod.read)]
    /\ UNCHANGED <<now, secret, bundle, work, due, missed, troubles>>

\* no secret, or a failing call: nothing but the next interval
PollFails ==
    /\ ~webhookPod.writing
    /\ Serving
    /\ webhookPod.due = now
    /\ IF Exists(secret) THEN Trouble ELSE UNCHANGED troubles
    /\ webhookPod' = [webhookPod EXCEPT !.due = now + PollInterval]
    /\ UNCHANGED <<now, secret, bundle, work, due, missed>>

\* the files survive a restart of the container, not that of the pod
WebhookRestarts ==
    /\ Serving
    /\ Trouble
    /\ \E lost \in BOOLEAN :
         webhookPod' = [webhookPod EXCEPT !.served = NoCert, !.read = NoCert, !.writing = FALSE, !.stale = FALSE,
                            !.crt = IF lost THEN NoCert ELSE @, !.key = IF lost THEN NoCert ELSE @]
    /\ UNCHANGED <<now, secret, bundle, work, due, missed>>

Webhook == Poll \/ WriteKey \/ PollFails
-----------------------------------------------------------------------------
(* Users and the clock *)

\* the manifest of the object is applied again, without a bundle
Reapply(t) ==
    /\ Trouble
    /\ bundle' = [bundle EXCEPT ![t] = {}]
    /\ missed' = Miss({t})
    /\ work' = IF t \in Configs THEN TouchAll(t) ELSE work
    /\ UNCHANGED <<now, secret, due, webhookPod>>

Settled == \A w \in Workers : work[w].pc \in {"idle", "done"}

\* the previous root goes with the secret: what the pod serves is not trusted until it polls; not
\* while the secret is being worked with
DeleteSecret ==
    /\ Trouble
    /\ Exists(secret)
    /\ Settled
    /\ ~webhookPod.writing
    /\ secret' = NoSecret
    /\ webhookPod' = [webhookPod EXCEPT !.stale = Serving]
    /\ UNCHANGED <<now, bundle, work, due, missed>>

\* reconciles and polls that are due take no time, compared with the interval
Tick ==
    /\ now < Horizon
    /\ due > now
    /\ Settled
    /\ Serving => webhookPod.due > now
    /\ ~webhookPod.writing
    /\ now' = now + 1
    /\ missed' = MissedLonger
    /\ UNCHANGED <<secret, bundle, work, due, webhookPod, troubles>>

CertNext ==
    \/ \E w \in Workers : Controller(w) \/ CallFails(w)
    \/ Webhook \/ WebhookRestarts
    \/ DeleteSecret \/ \E t \in Target : Reapply(t)
    \/ Tick

CertSpec == CertInit /\ [][CertNext]_certVars
-----------------------------------------------------------------------------
(* Properties *)

\* an expired certificate is not trusted anyway, and one of a deleted secret is not until the next poll
Trustworthy == Serving /\ webhookPod.served.notAfter >= now /\ ~webhookPod.stale

\* When no reconcile is under way, every caller trusts the certificate that the pod serves, whatever
\* was renewed and however late the pod has read it, but for objects the reconcile went past (a read
\* that failed in getWebhooksConfigurations, an EdgeConnect CRD that isUpToDate does not look at).
ServedIsTrusted ==
    Settled /\ Trustworthy => \A t \in Target : missed[t] = 0 => webhookPod.served.root \in bundle[t]

\* A bundle that was missed or applied anew is written again before the operator's requeue interval
\* has passed, if the operator looks at it.
MissedIsRepaired ==
    \A t \in Checked : missed[t] <= RequeueAfter + 1
=============================================================================
