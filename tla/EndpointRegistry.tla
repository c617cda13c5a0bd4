-------------------------- MODULE EndpointRegistry --------------------------
(***************************************************************************)
(* The EndpointRegistry of crate labman-endpoints: the configured LLM      *)
(* endpoints of a node, which of them answered the last health check, the  *)
(* models each of them advertised, and the two indices through which a     *)
(* request finds an endpoint.                                              *)
(*                                                                         *)
(* health_check_all_http and discover_models_all_http visit the endpoints  *)
(* one at a time and wait for an HTTP answer at each: every visit is a     *)
(* step.  Both take &mut self, so a pass excludes any other use of the     *)
(* registry; how the tasks of the daemon share it is module HealthChecker. *)
(***************************************************************************)
EXTENDS Naturals, Sequences

CONSTANTS
    NumEndpoints,   \* configured endpoints
    Model,          \* model identifiers an endpoint may advertise
    Tenant,         \* [Endpoint -> tenant string, "" when none is set]
    UrlSlug,        \* [Endpoint -> its base_url without the scheme]
    Include,        \* [Endpoint -> models its models_include lets through]
    Exclude,        \* [Endpoint -> models its models_exclude drops]
    MaxCopies,      \* bound: how often a listing may repeat an identifier
    NoRoute         \* no entry for this slug

\* `endpoints` is a HashMap: its iteration order is arbitrary, and the same
\* in every pass because entries are never added or removed after
\* from_config.  An endpoint is its position in that order.
Endpoint == 1 .. NumEndpoints

ASSUME EndpointsAssumption == NumEndpoints \in Nat
ASSUME FiltersAssumption == /\ Include \in [Endpoint -> SUBSET Model]
                            /\ Exclude \in [Endpoint -> SUBSET Model]
ASSUME CopiesAssumption == MaxCopies \in Nat

\* What encode_model_slug hashes.  The hash is taken to be injective, so the
\* triple stands for it: two endpoints collide exactly when tenant and
\* scheme-less URL agree.
SlugOf(e, m) == <<Tenant[e], UrlSlug[e], m>>
Slug == {SlugOf(e, m) : e \in Endpoint, m \in Model}

\* HashedModelMapping.
Route == [endpoint : Endpoint, model : Model]
RouteTo(e, m) == [endpoint |-> e, model |-> m]
ASSUME NoRouteAssumption == NoRoute \notin Route

\* An upstream's answer to GET {base_url}.
HealthAnswer == {"success", "not_found", "other_status", "request_error"}

VARIABLES
    healthy,      \* EndpointEntry.healthy
    discovered,   \* EndpointEntry.discovered_models
    modelIndex,   \* model_index, <<>> for a model without an entry
    hashIndex,    \* hash_index, NoRoute for a slug without an entry
    pass,         \* the async method that is running, or "none"
    pos           \* the next endpoint it will visit

registryVars == <<healthy, discovered, modelIndex, hashIndex, pass, pos>>

NoModelIndex == [m \in Model |-> <<>>]
NoHashIndex == [s \in Slug |-> NoRoute]

\* The models an endpoint returns, and how often each: identifiers are
\* whatever the upstream writes.  Their order makes no difference.
Listing == [Model -> 0 .. MaxCopies]

\* What the include and the exclude filter of e leave of a listing.
Filtered(e, listing) == {m \in Include[e] \ Exclude[e] : listing[m] > 0}

\* A push for every occurrence.
AddToModelIndex(e, models, listing) ==
    [m \in Model |-> IF m \in models
                     THEN modelIndex[m] \o [i \in 1 .. listing[m] |-> e]
                     ELSE modelIndex[m]]

\* Mutant of AddToHashIndex: an entry that exists is kept (or_insert).
AddToHashIndexKeepsFirst(e, models) ==
    [s \in Slug |-> IF s[3] \in models /\ s = SlugOf(e, s[3]) /\ hashIndex[s] = NoRoute
                    THEN RouteTo(e, s[3])
                    ELSE hashIndex[s]]

\* HashMap::insert: a slug two endpoints share keeps the later mapping.
AddToHashIndex(e, models) ==
    [s \in Slug |-> IF s[3] \in models /\ s = SlugOf(e, s[3])
                    THEN RouteTo(e, s[3])
                    ELSE hashIndex[s]]

-----------------------------------------------------------------------------

\* from_config: nothing is known about any endpoint.
RegistryInit ==
    /\ healthy = [e \in Endpoint |-> FALSE]
    /\ discovered = [e \in Endpoint |-> {}]
    /\ modelIndex = NoModelIndex
    /\ hashIndex = NoHashIndex
    /\ pass = "none"
    /\ pos = 1

\* health_check_all, the synchronous variant.
MarkAllHealthy ==
    /\ pass = "none"
    /\ healthy' = [e \in Endpoint |-> TRUE]
    /\ UNCHANGED <<discovered, modelIndex, hashIndex, pass, pos>>

BeginHealthCheck ==
    /\ pass = "none"
    /\ pass' = "health"
    /\ pos' = 1
    /\ UNCHANGED <<healthy, discovered, modelIndex, hashIndex>>

\* Mutant of ProbeAnswered: a request error starts the pass over.
ProbeAnsweredStartsOver(answer) ==
    /\ pass = "health"
    /\ pos \in Endpoint
    /\ healthy' = [healthy EXCEPT ![pos] = answer \in {"success", "not_found"}]
    /\ pos' = IF answer = "request_error" THEN 1 ELSE pos + 1
    /\ UNCHANGED <<discovered, modelIndex, hashIndex, pass>>

\* The answer to one health probe, or the error the client reports for it.
\* A 404 counts as reachable.
ProbeAnswered(answer) ==
    /\ pass = "health"
    /\ pos \in Endpoint
    /\ healthy' = [healthy EXCEPT ![pos] = answer \in {"success", "not_found"}]
    /\ pos' = pos + 1
    /\ UNCHANGED <<discovered, modelIndex, hashIndex, pass>>

EndHealthCheck ==
    /\ pass = "health"
    /\ pos \notin Endpoint
    /\ pass' = "none"
    /\ UNCHANGED <<healthy, discovered, modelIndex, hashIndex, pos>>

\* Mutants of BeginDiscovery: one of the indices is not cleared.
BeginDiscoveryKeepsHashIndex ==
    /\ pass = "none"
    /\ pass' = "discovery"
    /\ pos' = 1
    /\ modelIndex' = NoModelIndex
    /\ UNCHANGED <<healthy, discovered, hashIndex>>
BeginDiscoveryKeepsModelIndex ==
    /\ pass = "none"
    /\ pass' = "discovery"
    /\ pos' = 1
    /\ hashIndex' = NoHashIndex
    /\ UNCHANGED <<healthy, discovered, modelIndex>>

\* A discovery pass rebuilds both indices from scratch.
BeginDiscovery ==
    /\ pass = "none"
    /\ pass' = "discovery"
    /\ pos' = 1
    /\ modelIndex' = NoModelIndex
    /\ hashIndex' = NoHashIndex
    /\ UNCHANGED <<healthy, discovered>>

\* Mutant of SkipUnhealthy: what the endpoint advertised before is indexed.
SkipUnhealthyReindexes ==
    /\ pass = "discovery"
    /\ pos \in Endpoint
    /\ ~healthy[pos]
    /\ hashIndex' = AddToHashIndex(pos, discovered[pos])
    /\ pos' = pos + 1
    /\ UNCHANGED <<healthy, discovered, modelIndex, pass>>

\* An unhealthy endpoint is skipped; what it advertised before is kept.
SkipUnhealthy ==
    /\ pass = "discovery"
    /\ pos \in Endpoint
    /\ ~healthy[pos]
    /\ pos' = pos + 1
    /\ UNCHANGED <<healthy, discovered, modelIndex, hashIndex, pass>>

\* Mutant of ListingFailed: the next endpoint is skipped as well.
ListingFailedSkipsNext ==
    /\ pass = "discovery"
    /\ pos \in Endpoint
    /\ healthy[pos]
    /\ pos' = pos + 2
    /\ UNCHANGED <<healthy, discovered, modelIndex, hashIndex, pass>>

\* The request failed, the status was not 2xx, or the body did not parse.
ListingFailed ==
    /\ pass = "discovery"
    /\ pos \in Endpoint
    /\ healthy[pos]
    /\ pos' = pos + 1
    /\ UNCHANGED <<healthy, discovered, modelIndex, hashIndex, pass>>

\* The endpoint lists its models: they replace what it advertised before and
\* enter both indices.
ModelsListed(listing) ==
    /\ pass = "discovery"
    /\ pos \in Endpoint
    /\ healthy[pos]
    /\ discovered' = [discovered EXCEPT ![pos] = Filtered(pos, listing)]
    /\ modelIndex' = AddToModelIndex(pos, Filtered(pos, listing), listing)
    /\ hashIndex' = AddToHashIndex(pos, Filtered(pos, listing))
    /\ pos' = pos + 1
    /\ UNCHANGED <<healthy, pass>>

EndDiscovery ==
    /\ pass = "discovery"
    /\ pos \notin Endpoint
    /\ pass' = "none"
    /\ UNCHANGED <<healthy, discovered, modelIndex, hashIndex, pos>>

RegistryNext ==
    \/ MarkAllHealthy
    \/ BeginHealthCheck
    \/ \E answer \in HealthAnswer : ProbeAnswered(answer)
    \/ EndHealthCheck
    \/ BeginDiscovery
    \/ SkipUnhealthy
    \/ ListingFailed
    \/ \E listing \in Listing : ModelsListed(listing)
    \/ EndDiscovery

RegistrySpec == RegistryInit /\ [][RegistryNext]_registryVars

-----------------------------------------------------------------------------
(* Queries.                                                                *)

\* lookup_hashed_model.
Lookup(slug) == hashIndex[slug]

\* Endpoints the model index has for m.
Advertisers(m) == {modelIndex[m][i] : i \in 1 .. Len(modelIndex[m])}

\* select_endpoint_for_model: the first healthy endpoint of the index entry,
\* 0 when there is none.
SelectEndpoint(m) ==
    LET candidates == {i \in 1 .. Len(modelIndex[m]) : healthy[modelIndex[m][i]]}
    IN  IF candidates = {} THEN 0
        ELSE modelIndex[m][CHOOSE i \in candidates : \A j \in candidates : i <= j]

-----------------------------------------------------------------------------
(* Properties.                                                             *)

\* Every field has its type.
RegistryTypeOK ==
    /\ healthy \in [Endpoint -> BOOLEAN]
    /\ discovered \in [Endpoint -> SUBSET Model]
    /\ modelIndex \in [Model -> Seq(Endpoint)]
    /\ hashIndex \in [Slug -> Route \cup {NoRoute}]
    /\ pass \in {"none", "health", "discovery"}
    /\ pos \in 1 .. NumEndpoints + 1

\* What a route of the hash index promises: it is stored under the slug of
\* its own endpoint and model, that endpoint still advertises the model, its
\* filters let the model through, and while the index is rebuilt the endpoint
\* is a healthy one that this very pass has visited.
RouteSound(s) ==
    LET r == hashIndex[s]
    IN  r # NoRoute => /\ s = SlugOf(r.endpoint, r.model)
                       /\ r.model \in discovered[r.endpoint]
                       /\ r.model \in Include[r.endpoint]
                       /\ r.model \notin Exclude[r.endpoint]
                       /\ pass = "discovery" => /\ r.endpoint < pos
                                                /\ healthy[r.endpoint]

\* Every route lookup_hashed_model can return is sound, at every point of
\* every pass, also when listings failed or slugs collided.
RoutesSound == \A s \in Slug : RouteSound(s)

\* The advertisers of m whose slug for m is the one e has.
Sharing(e, m) == {f \in Advertisers(m) : SlugOf(f, m) = SlugOf(e, m)}

\* The two indices never disagree: a slug has a route exactly when some
\* endpoint with that slug is in the model index, and of several the route is
\* the last that the pass visited.
LastAdvertiserWins ==
    \A e \in Endpoint, m \in Model :
        IF Sharing(e, m) = {}
        THEN Lookup(SlugOf(e, m)) = NoRoute
        ELSE \E f \in Sharing(e, m) : /\ \A g \in Sharing(e, m) : g <= f
                                      /\ Lookup(SlugOf(e, m)) = RouteTo(f, m)

\* The model index lists the endpoints of a model in the order of the pass,
\* and only endpoints that still advertise the model: the index never holds
\* what an earlier pass put there.
ModelIndexSound ==
    \A m \in Model :
        /\ \A i, j \in 1 .. Len(modelIndex[m]) :
               i < j => modelIndex[m][i] <= modelIndex[m][j]
        /\ \A e \in Advertisers(m) : m \in discovered[e]
        /\ pass = "discovery" => \A e \in Advertisers(m) : e < pos /\ healthy[e]
=============================================================================
