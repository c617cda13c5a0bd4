------------------------------ MODULE MCDaemon ------------------------------
(* Every combination of flags, with files whose ports are distinct or      *)
(* collide, with every value of one section, and with none, any one, or a  *)
(* good and any other endpoint.                                            *)
EXTENDS Daemon

MCEndpointName == {"gpu", "cpu"}

Plain == [controlPlane |-> [baseUrl |-> "http", nodeToken |-> "set"],
          wireguard |-> [interfaceName |-> "set", allowedIps |-> {"set"}],
          endpoints |-> <<[name |-> "gpu", baseUrl |-> [scheme |-> "http", parts |-> <<"host", "v1">>]]>>,
          disableMetrics |-> FALSE, metricsPort |-> 9090, proxyPort |-> 8080]

WithPorts ==
    {[Plain EXCEPT !.disableMetrics = disabled, !.metricsPort = metrics, !.proxyPort = proxy] :
        disabled \in BOOLEAN, metrics \in {9090, PortmanPort},
        proxy \in {8080, 9090, PortmanPort}}

WithSections ==
    {[Plain EXCEPT !.controlPlane = cp] : cp \in ControlPlaneConfig}
    \cup {[Plain EXCEPT !.wireguard = wg] : wg \in WireGuardConfig}

MCUrl ==
    {[scheme |-> scheme, parts |-> <<"host">>] : scheme \in {"blank", "other"}}
    \cup {[scheme |-> "http", parts |-> parts] :
              parts \in {<<"">>, <<"host">>, <<"v1">>, <<"host", "v1">>, <<"host", "v1", "">>,
                         <<"host", "v1", "more">>, <<"host", "api", "v2">>}}
MCEndpoint == [name : EndpointName \cup {BlankName}, baseUrl : MCUrl]

WithEndpoints ==
    {[Plain EXCEPT !.endpoints = eps] :
        eps \in {<<>>} \cup {<<e>> : e \in MCEndpoint}
               \cup {Append(Plain.endpoints, e) : e \in MCEndpoint}}

MCConfigs == WithPorts \cup WithSections \cup WithEndpoints

\* Two good files, a broken and a missing one in all places, and every
\* configuration in the last place.
Other == [Plain EXCEPT !.proxyPort = 9090]
MCDisks ==
    [Location -> {Plain, Other, Missing, Broken}]
    \cup {[l \in Location |-> IF l = "cwd" THEN content ELSE Missing] : content \in MCConfigs}
=============================================================================
