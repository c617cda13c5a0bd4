------------------------- MODULE MCEndpointRegistry -------------------------
(* Three endpoints.  The first two are the http and the https URL of one   *)
(* host under one tenant, so their slugs collide; the filters differ.      *)
EXTENDS EndpointRegistry

CONSTANTS m1, m2

MCModel == {m1, m2}
MCTenant == <<"", "", "t">>
MCUrlSlug == <<"host", "host", "gpu">>
MCInclude == <<{m1, m2}, {m1, m2}, {m1}>>
MCExclude == <<{}, {m2}, {}>>
=============================================================================
