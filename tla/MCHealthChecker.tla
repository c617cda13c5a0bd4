-------------------------- MODULE MCHealthChecker --------------------------
(* Three endpoints with different filters.  The first two share a slug.    *)
EXTENDS HealthChecker

CONSTANTS m1, m2

MCTask == {Checker}
MCModel == {m1, m2}
MCTenant == <<"", "", "t">>
MCUrlSlug == <<"host", "host", "gpu">>
MCInclude == <<{m1, m2}, {m1, m2}, {m1}>>
MCExclude == <<{}, {m2}, {}>>
=============================================================================
