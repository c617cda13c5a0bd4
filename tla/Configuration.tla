---------------------------- MODULE Configuration ----------------------------
(***************************************************************************)
(* LabmanConfig of crate labman-config as far as the start of the daemon   *)
(* depends on it: what validate accepts, what the registry's construction  *)
(* accepts, and which URLs the two users of an endpoint make of its        *)
(* base_url.                                                               *)
(*                                                                         *)
(* A text that is only tested for being blank is "blank" or "set".  A      *)
(* trimmed URL is its scheme and what the slashes after "scheme://" part,  *)
(* the host first: http://host/v1/ has the parts <<"host", "v1", "">>.     *)
(***************************************************************************)
EXTENDS Naturals, Sequences, SequencesExt, FiniteSetsExt

CONSTANTS EndpointName      \* names of endpoints that are not blank

Text == {"blank", "set"}
BlankName == ""

\* Blank, not starting with http:// or https://, or starting so.
Scheme == {"blank", "other", "http"}
Url == [scheme : Scheme, parts : Seq(STRING)]

EndpointConfig == [name : EndpointName \cup {BlankName}, baseUrl : Url]
ControlPlaneConfig == [baseUrl : Scheme, nodeToken : Text]
WireGuardConfig == [interfaceName : Text, allowedIps : SUBSET Text]

\* Without [telemetry] metrics are enabled, on the default port.
LabmanConfig == [controlPlane : ControlPlaneConfig,
                 wireguard : WireGuardConfig,
                 endpoints : Seq(EndpointConfig),
                 disableMetrics : BOOLEAN,
                 metricsPort : Nat,
                 proxyPort : Nat]

-----------------------------------------------------------------------------
(* LabmanConfig::validate.  Which of several errors it reports is left out. *)

ValidControlPlane(cp) == cp.baseUrl = "http" /\ cp.nodeToken # "blank"

ValidWireGuard(wg) == wg.interfaceName # "blank" /\ "blank" \notin wg.allowedIps

EndsWithV1(parts) == parts # <<>> /\ Last(parts) = "v1"

\* The URL ends with /v1 or contains /v1/.  The test is made on the whole
\* text, so that a host of that name passes it as well: http://v1.
AcceptedBaseUrl(url) ==
    /\ url.scheme = "http"
    /\ \E i \in 1 .. Len(url.parts) : url.parts[i] = "v1"

DistinctNames(endpoints) ==
    \A i, j \in 1 .. Len(endpoints) : endpoints[i].name = endpoints[j].name => i = j

\* Mutant of ValidEndpoints: names may repeat.
ValidEndpointsMayRepeat(endpoints) ==
    \A i \in 1 .. Len(endpoints) :
        endpoints[i].name # BlankName /\ AcceptedBaseUrl(endpoints[i].baseUrl)

ValidEndpoints(endpoints) ==
    /\ DistinctNames(endpoints)
    /\ \A i \in 1 .. Len(endpoints) :
           endpoints[i].name # BlankName /\ AcceptedBaseUrl(endpoints[i].baseUrl)

Valid(config) ==
    /\ ValidControlPlane(config.controlPlane)
    /\ ValidEndpoints(config.endpoints)
    /\ ValidWireGuard(config.wireguard)

-----------------------------------------------------------------------------
(* The registry and the proxy.                                             *)

\* EndpointRegistry::from_config and build_core_endpoint succeed.
Buildable(endpoints) ==
    /\ DistinctNames(endpoints)
    /\ \A i \in 1 .. Len(endpoints) : endpoints[i].baseUrl.scheme = "http"

\* trim_end_matches('/').
Trimmed(parts) ==
    SubSeq(parts, 1, Max({0} \cup {i \in 1 .. Len(parts) : parts[i] # ""}))

\* Discovery asks for models below this URL: it appends /v1 unless the
\* trimmed one ends with it.
ModelsRoot(url) ==
    LET base == Trimmed(url.parts)
    IN  IF EndsWithV1(base) THEN base ELSE Append(base, "v1")

\* The proxy sends chat completions below this URL.
ChatRoot(url) == Trimmed(url.parts)
=============================================================================
