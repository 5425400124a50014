--------------------------- MODULE DynaKubeObjects ---------------------------
(***************************************************************************)
(* What the DynaKube controller manages: the Kubernetes objects, one       *)
(* definition per reconciler that owns one, and the order in which one     *)
(* reconcile goes through them.                                            *)
(*                                                                         *)
(* A definition says which features of the spec need the object            *)
(* (neededBy) and which make it superfluous (unless), whose status         *)
(* condition speaks for it, and how its reconciler behaves:                *)
(*   reported  when setting it up marks the condition as fine: always, on  *)
(*             a change, on creation only, or never;                       *)
(*   guarded   cleaned up only if the condition is there;                  *)
(*   cleanup   what a failing delete does: the error is logged and the     *)
(*             condition dropped (forget), the component fails and the     *)
(*             condition stays (keep) or shows the error (report), it      *)
(*             fails although the condition is dropped (forgetAndFail), or *)
(*             nothing is ever deleted (never);                            *)
(*   tenant    setting it up asks the Dynatrace API;                       *)
(*   silent    setting it up can fail before the condition is touched;     *)
(*   reads     objects that must be there to set it up;                    *)
(*   kind      how the phase judges it; "config" if it has no pods.        *)
(***************************************************************************)
EXTENDS Sequences

Feature == {"activeGate", "extensions", "telemetry", "kspm", "logMonitoring",
            "oneAgent", "appInjection", "publicRegistry", "proxy"}

Kind == {"config", "replicas", "generation", "daemonSet"}

Config == [neededBy |-> {}, unless |-> {}, condition |-> "none", reported |-> "always",
           guarded |-> TRUE, cleanup |-> "forget", tenant |-> FALSE, silent |-> FALSE,
           reads |-> {}, kind |-> "config"]

ActiveGateFeatures == {"activeGate", "extensions"}
OneAgentFeatures == {"oneAgent", "appInjection", "logMonitoring"}

-----------------------------------------------------------------------------
(* Objects of the setup that precedes the components.                      *)

DeploymentMetadata == [Config EXCEPT
    !.neededBy = {"oneAgent"} \cup ActiveGateFeatures, !.condition = "deploymentMetadata",
    !.reported = "never", !.guarded = FALSE, !.cleanup = "keep"]

ProxySecret == [Config EXCEPT
    !.neededBy = {"proxy"}, !.condition = "proxySecret",
    !.reported = "never", !.guarded = FALSE, !.cleanup = "keep"]

-----------------------------------------------------------------------------
(* ActiveGate.                                                             *)

ActiveGateTenantSecret == [Config EXCEPT
    !.neededBy = ActiveGateFeatures, !.condition = "agTenantSecret", !.tenant = TRUE]

ActiveGateConnectionInfo == [Config EXCEPT
    !.neededBy = ActiveGateFeatures, !.condition = "agConnectionInfo",
    !.reported = "never", !.guarded = FALSE, !.cleanup = "never"]

ActiveGateDeploymentProperties == [ActiveGateConnectionInfo EXCEPT
    !.condition = "agDeploymentProperties"]

PullSecret == [Config EXCEPT
    !.neededBy = {"oneAgent"} \cup ActiveGateFeatures, !.unless = {"publicRegistry"},
    !.condition = "pullSecret", !.silent = TRUE]

\* an outdated token is deleted before the tenant is asked for the next one
ActiveGateAuthToken == [Config EXCEPT
    !.neededBy = ActiveGateFeatures, !.condition = "agAuthToken", !.tenant = TRUE]

ActiveGateService == [Config EXCEPT
    !.neededBy = ActiveGateFeatures, !.condition = "agService",
    !.reported = "never", !.guarded = FALSE, !.cleanup = "keep"]

ActiveGateTLSSecret == [Config EXCEPT
    !.neededBy = ActiveGateFeatures, !.condition = "agTLSSecret",
    !.reported = "onCreate", !.cleanup = "forgetAndFail"]

ActiveGateStatefulSet == [Config EXCEPT
    !.neededBy = ActiveGateFeatures, !.condition = "agStatefulSet",
    !.reported = "onChange", !.cleanup = "keep", !.reads = {"agAuthToken"}, !.kind = "replicas"]

-----------------------------------------------------------------------------
(* Extensions and the OpenTelemetry collector.                             *)

ExtensionToken == [Config EXCEPT !.neededBy = {"extensions"}, !.condition = "extToken"]

ExtensionService == [Config EXCEPT !.neededBy = {"extensions"}, !.condition = "extService"]

ExtensionTLSSecret == [Config EXCEPT
    !.neededBy = {"extensions"}, !.condition = "extTLSSecret",
    !.reported = "onCreate", !.cleanup = "forgetAndFail"]

\* the tenant's UUID it reads comes with the connection information of the ActiveGate
ExtensionController == [Config EXCEPT
    !.neededBy = {"extensions"}, !.condition = "eecStatefulSet", !.silent = TRUE,
    !.reads = {"agTenantSecret", "extTLSSecret"}, !.kind = "generation"]

DatabaseDatasources == [Config EXCEPT
    !.neededBy = {"extensions"}, !.condition = "dbDeployments", !.silent = TRUE,
    !.guarded = FALSE, !.cleanup = "report", !.kind = "generation"]

CollectorService == [Config EXCEPT !.neededBy = {"telemetry"}, !.condition = "otelcService"]

CollectorEndpoint == [Config EXCEPT
    !.neededBy = {"telemetry"}, !.condition = "otelcEndpoint", !.silent = TRUE]

CollectorConfiguration == [Config EXCEPT
    !.neededBy = {"telemetry"}, !.condition = "otelcConfiguration", !.silent = TRUE]

CollectorStatefulSet == [Config EXCEPT
    !.neededBy = {"extensions", "telemetry"}, !.condition = "otelcStatefulSet",
    !.silent = TRUE, !.kind = "generation"]

-----------------------------------------------------------------------------
(* KSPM, log monitoring and OneAgent.                                      *)

KSPMToken == [Config EXCEPT
    !.neededBy = {"kspm"}, !.condition = "kspmToken", !.reported = "onCreate", !.cleanup = "keep"]

KSPMDaemonSet == [Config EXCEPT
    !.neededBy = {"kspm"}, !.condition = "kspmDaemonSet", !.reported = "onChange",
    !.silent = TRUE, !.kind = "daemonSet"]

OneAgentTenantSecret == [Config EXCEPT
    !.neededBy = OneAgentFeatures, !.condition = "oaTenantSecret", !.tenant = TRUE]

LogMonitoringConfig == [Config EXCEPT
    !.neededBy = {"logMonitoring"}, !.unless = {"oneAgent"}, !.condition = "lmConfigSecret",
    !.reads = {"oaTenantSecret"}]

LogMonitoringDaemonSet == [Config EXCEPT
    !.neededBy = {"logMonitoring"}, !.unless = {"oneAgent"}, !.condition = "lmDaemonSet",
    !.reported = "onChange", !.silent = TRUE, !.kind = "daemonSet"]

\* it has no condition of its own: errors show in the one of the DaemonSet
OneAgentConnectionInfo == [Config EXCEPT
    !.neededBy = {"oneAgent"}, !.condition = "oaDaemonSet", !.reported = "never"]

OneAgentDaemonSet == [Config EXCEPT
    !.neededBy = {"oneAgent"}, !.condition = "oaDaemonSet",
    !.reported = "onChange", !.cleanup = "forgetAndFail", !.kind = "daemonSet"]

Definition == [
    deploymentMetadata     |-> DeploymentMetadata,
    proxySecret            |-> ProxySecret,
    agTenantSecret         |-> ActiveGateTenantSecret,
    agConnectionInfo       |-> ActiveGateConnectionInfo,
    agDeploymentProperties |-> ActiveGateDeploymentProperties,
    pullSecret             |-> PullSecret,
    agAuthToken            |-> ActiveGateAuthToken,
    agService              |-> ActiveGateService,
    agTLSSecret            |-> ActiveGateTLSSecret,
    agStatefulSet          |-> ActiveGateStatefulSet,
    extToken               |-> ExtensionToken,
    extService             |-> ExtensionService,
    extTLSSecret           |-> ExtensionTLSSecret,
    eecStatefulSet         |-> ExtensionController,
    dbDeployments          |-> DatabaseDatasources,
    otelcService           |-> CollectorService,
    otelcEndpoint          |-> CollectorEndpoint,
    otelcConfiguration     |-> CollectorConfiguration,
    otelcStatefulSet       |-> CollectorStatefulSet,
    kspmToken              |-> KSPMToken,
    kspmDaemonSet          |-> KSPMDaemonSet,
    oaTenantSecret         |-> OneAgentTenantSecret,
    lmConfigSecret         |-> LogMonitoringConfig,
    lmDaemonSet            |-> LogMonitoringDaemonSet,
    oaConnectionInfo       |-> OneAgentConnectionInfo,
    oaDaemonSet            |-> OneAgentDaemonSet]

ManagedObject == DOMAIN Definition

-----------------------------------------------------------------------------
(***************************************************************************)
(* The order of one reconcile.  A step sets its object up or cleans it up, *)
(* whichever the spec asks for, unless it does only one of the two; the    *)
(* ActiveGate drops the condition of its StatefulSet in a step of its own, *)
(* when everything else is gone.                                           *)
(***************************************************************************)
Step(component, object, does) == [component |-> component, object |-> object, does |-> does]

SetupSteps == <<
    Step("setup", "deploymentMetadata", "both"),
    Step("setup", "proxySecret", "both")>>

ActiveGateSteps == <<
    Step("activeGate", "agTenantSecret", "both"),
    Step("activeGate", "agConnectionInfo", "both"),
    Step("activeGate", "agDeploymentProperties", "both"),
    Step("activeGate", "pullSecret", "both"),
    Step("activeGate", "agAuthToken", "both"),
    Step("activeGate", "agService", "setUp"),
    Step("activeGate", "agTLSSecret", "setUp"),
    Step("activeGate", "agStatefulSet", "setUp"),
    Step("activeGate", "agStatefulSet", "delete"),
    Step("activeGate", "agService", "cleanUp"),
    Step("activeGate", "agTLSSecret", "cleanUp"),
    Step("activeGate", "agStatefulSet", "forget")>>

ExtensionSteps == <<
    Step("extension", "extToken", "both"),
    Step("extension", "extService", "both"),
    Step("extension", "extTLSSecret", "both"),
    Step("extension", "eecStatefulSet", "both"),
    Step("extension", "dbDeployments", "both")>>

CollectorSteps == <<
    Step("otelc", "otelcService", "both"),
    Step("otelc", "otelcEndpoint", "both"),
    Step("otelc", "otelcConfiguration", "both"),
    Step("otelc", "otelcStatefulSet", "both")>>

KSPMSteps == <<
    Step("kspm", "kspmToken", "both"),
    Step("kspm", "kspmDaemonSet", "both")>>

LogMonitoringSteps == <<
    Step("logMonitoring", "oaTenantSecret", "both"),
    Step("logMonitoring", "lmConfigSecret", "both"),
    Step("logMonitoring", "lmDaemonSet", "both")>>

InjectionSteps == <<
    Step("injection", "oaTenantSecret", "both")>>

OneAgentSteps == <<
    Step("oneAgent", "oaTenantSecret", "both"),
    Step("oneAgent", "pullSecret", "setUp"),
    Step("oneAgent", "oaConnectionInfo", "both"),
    Step("oneAgent", "oaDaemonSet", "both")>>

\* the setup, then the components, the OneAgent last
Pipeline == SetupSteps \o ActiveGateSteps \o ExtensionSteps \o CollectorSteps \o KSPMSteps
            \o LogMonitoringSteps \o InjectionSteps \o OneAgentSteps
=============================================================================
