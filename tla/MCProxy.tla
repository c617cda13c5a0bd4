------------------------------ MODULE MCProxy ------------------------------
(* Two clients, two endpoints behind one URL and tenant (so their slugs    *)
(* collide) with different filters.                                        *)
EXTENDS Proxy

CONSTANTS m1, m2, c1, c2

MCClient == {c1, c2}
MCTask == {Checker, c1, c2}
MCModel == {m1, m2}
MCTenant == <<"", "">>
MCUrlSlug == <<"host", "host">>
MCInclude == <<{m1}, {m1, m2}>>
MCExclude == <<{}, {m2}>>
=============================================================================
