------------------------ MODULE HealthCheckerProofs ------------------------
(***************************************************************************)
(* The registry, and the passes over it when it is shared, for every       *)
(* number of endpoints, every set of models and every assignment of        *)
(* tenants, URLs and filters.                                              *)
(*                                                                         *)
(* First the registry by itself: types, the soundness of both indices and  *)
(* their agreement.  Then the task that works on it.  What its steps do is *)
(* stated as lemmas about CheckerNext alone, for the task by itself and    *)
(* for the composition with the requests (ProxyProofs).                    *)
(*                                                                         *)
(* Between passes every endpoint that either index leads to is healthy:    *)
(* discovery puts only endpoints there that the health check before it     *)
(* found healthy, and nothing but a health check changes `healthy`.        *)
(***************************************************************************)
EXTENDS HealthChecker, SequenceTheorems, TLAPS

-----------------------------------------------------------------------------
(* The registry by itself: its slugs, its listings, its two indices.      *)

\* A slug determines the model it was made for.
LEMMA SlugModel ==
    ASSUME NEW e \in Endpoint, NEW m \in Model
    PROVE  /\ SlugOf(e, m) \in Slug
           /\ SlugOf(e, m)[3] = m
  BY DEF SlugOf, Slug

\* The third component of a slug is a model.
LEMMA SlugThird ==
    ASSUME NEW s \in Slug
    PROVE  s[3] \in Model
  <1>1. PICK e \in Endpoint, m \in Model : s = SlugOf(e, m)
    BY DEF Slug
  <1> QED BY <1>1, SlugModel

\* What survives the filters is a permitted model that was listed.
LEMMA FilteredPermitted ==
    ASSUME NEW e \in Endpoint, NEW listing \in Listing
    PROVE  /\ Filtered(e, listing) \in SUBSET Model
           /\ \A m \in Filtered(e, listing) : /\ m \in Include[e]
                                              /\ m \notin Exclude[e]
                                              /\ listing[m] \in Nat \ {0}
  BY FiltersAssumption, CopiesAssumption DEF Filtered, Listing

\* Pushing an endpoint n times appends n copies of it.
LEMMA AppendCopies ==
    ASSUME NEW q \in Seq(Endpoint), NEW e \in Endpoint, NEW n \in Nat,
           NEW r, r = q \o [i \in 1 .. n |-> e]
    PROVE  /\ r \in Seq(Endpoint)
           /\ Len(r) = Len(q) + n
           /\ \A i \in 1 .. Len(q) : r[i] = q[i]
           /\ \A i \in 1 .. Len(r) : i > Len(q) => r[i] = e
  <1> DEFINE copies == [i \in 1 .. n |-> e]
  <1>1. copies \in Seq(Endpoint) /\ Len(copies) = n
    OBVIOUS
  <1>2. \A i \in 1 .. n : copies[i] = e
    OBVIOUS
  <1>3. r = q \o copies
    OBVIOUS
  <1> HIDE DEF copies, Endpoint
  <1>4. r \in Seq(Endpoint) /\ Len(r) = Len(q) + n
    BY <1>1, <1>3
  <1>5. \A i \in 1 .. Len(q) : r[i] = q[i]
    BY <1>1, <1>3
  <1>6. ASSUME NEW i \in 1 .. Len(r), i > Len(q)
        PROVE  r[i] = e
    <2>1. i - Len(q) \in 1 .. n
      BY <1>1, <1>4, <1>6
    <2>2. r[i] = copies[i - Len(q)]
      BY <1>1, <1>3, <1>4, <1>6
    <2> QED BY <1>2, <2>1, <2>2
  <1> QED BY <1>4, <1>5, <1>6

\* Inserting the models of a listing keeps both indices well-typed.
LEMMA AddToIndicesType ==
    ASSUME NEW e \in Endpoint, NEW listing \in Listing, RegistryTypeOK
    PROVE  /\ AddToModelIndex(e, Filtered(e, listing), listing) \in [Model -> Seq(Endpoint)]
           /\ AddToHashIndex(e, Filtered(e, listing)) \in [Slug -> Route \cup {NoRoute}]
  <1> DEFINE models == Filtered(e, listing)
  <1>1. \A m \in Model : modelIndex[m] \in Seq(Endpoint)
    BY DEF RegistryTypeOK
  <1>2. \A m \in models : modelIndex[m] \o [i \in 1 .. listing[m] |-> e] \in Seq(Endpoint)
    BY <1>1, FilteredPermitted, AppendCopies
  <1>3. AddToModelIndex(e, models, listing) \in [Model -> Seq(Endpoint)]
    BY <1>1, <1>2 DEF AddToModelIndex
  <1>4. \A s \in Slug : s[3] \in models => RouteTo(e, s[3]) \in Route
    BY SlugThird DEF RouteTo, Route
  <1>5. AddToHashIndex(e, models) \in [Slug -> Route \cup {NoRoute}]
    BY <1>4 DEF AddToHashIndex, RegistryTypeOK
  <1> QED BY <1>3, <1>5

\* Every reachable state is well-typed: in particular a mapping never names
\* an endpoint that is not configured, so the handler's branch for that is dead.
THEOREM RegistryTypeCorrect == RegistrySpec => []RegistryTypeOK
  <1>1. RegistryInit => RegistryTypeOK
    BY EndpointsAssumption
    DEF RegistryInit, RegistryTypeOK, NoModelIndex, NoHashIndex, Endpoint
  <1>2. RegistryTypeOK /\ [RegistryNext]_registryVars => RegistryTypeOK'
    <2> SUFFICES ASSUME RegistryTypeOK, [RegistryNext]_registryVars
                 PROVE  RegistryTypeOK'
      OBVIOUS
    <2> USE EndpointsAssumption
    <2>1. CASE MarkAllHealthy
      BY <2>1 DEF MarkAllHealthy, RegistryTypeOK
    <2>2. CASE BeginHealthCheck
      BY <2>2 DEF BeginHealthCheck, RegistryTypeOK
    <2>3. CASE \E answer \in HealthAnswer : ProbeAnswered(answer)
      BY <2>3 DEF ProbeAnswered, RegistryTypeOK, Endpoint
    <2>4. CASE EndHealthCheck
      BY <2>4 DEF EndHealthCheck, RegistryTypeOK
    <2>5. CASE BeginDiscovery
      BY <2>5 DEF BeginDiscovery, RegistryTypeOK, NoModelIndex, NoHashIndex
    <2>6. CASE SkipUnhealthy
      BY <2>6 DEF SkipUnhealthy, RegistryTypeOK, Endpoint
    <2>7. CASE ListingFailed
      BY <2>7 DEF ListingFailed, RegistryTypeOK, Endpoint
    <2>8. CASE \E listing \in Listing : ModelsListed(listing)
      <3>1. PICK listing \in Listing : ModelsListed(listing)
        BY <2>8
      <3> DEFINE kept == Filtered(pos, listing)
      <3>2. pos \in Endpoint /\ kept \in SUBSET Model
        BY <3>1, FilteredPermitted DEF ModelsListed
      <3>3. /\ modelIndex' \in [Model -> Seq(Endpoint)]
            /\ hashIndex' \in [Slug -> Route \cup {NoRoute}]
        BY <3>1, <3>2, AddToIndicesType DEF ModelsListed
      <3>4. discovered' \in [Endpoint -> SUBSET Model]
        BY <3>1, <3>2 DEF ModelsListed, RegistryTypeOK
      <3>5. pos' \in 1 .. NumEndpoints + 1
        BY <3>1, <3>2 DEF ModelsListed, RegistryTypeOK, Endpoint
      <3> QED BY <3>1, <3>3, <3>4, <3>5 DEF ModelsListed, RegistryTypeOK
    <2>9. CASE EndDiscovery
      BY <2>9 DEF EndDiscovery, RegistryTypeOK
    <2>10. CASE UNCHANGED registryVars
      BY <2>10 DEF registryVars, RegistryTypeOK
    <2> QED
      BY <2>1, <2>2, <2>3, <2>4, <2>5, <2>6, <2>7, <2>8, <2>9, <2>10 DEF RegistryNext
  <1> QED BY <1>1, <1>2, PTL DEF RegistrySpec

-----------------------------------------------------------------------------

RegistryInv == RegistryTypeOK /\ RoutesSound

\* A listing changes the hash index at slugs of the visited endpoint only, and
\* what it puts there is sound.
LEMMA ListingKeepsRoutes ==
    ASSUME RegistryInv, NEW listing \in Listing, ModelsListed(listing)
    PROVE  RoutesSound'
  <1> DEFINE kept == Filtered(pos, listing)
  <1>1. /\ pos \in Endpoint /\ pass = "discovery" /\ healthy[pos]
        /\ hashIndex' = AddToHashIndex(pos, kept)
        /\ discovered' = [discovered EXCEPT ![pos] = kept]
        /\ pos' = pos + 1 /\ pass' = pass /\ healthy' = healthy
    BY DEF ModelsListed
  <1>2. /\ kept \in SUBSET Model
        /\ \A m \in kept : m \in Include[pos] /\ m \notin Exclude[pos]
    BY <1>1, FilteredPermitted
  <1>3. pos \in Nat
    BY <1>1, EndpointsAssumption DEF Endpoint
  <1> HIDE DEF kept
  <1> SUFFICES ASSUME NEW s \in Slug
               PROVE  RouteSound(s)'
    BY DEF RoutesSound
  <1>4. CASE s[3] \in kept /\ s = SlugOf(pos, s[3])
    <2>1. hashIndex'[s] = RouteTo(pos, s[3])
      BY <1>1, <1>4 DEF AddToHashIndex
    <2>2. discovered'[pos] = kept
      BY <1>1 DEF RegistryInv, RegistryTypeOK
    <2> QED BY <1>1, <1>2, <1>3, <1>4, <2>1, <2>2 DEF RouteSound, RouteTo
  <1>5. CASE ~(s[3] \in kept /\ s = SlugOf(pos, s[3]))
    <2> SUFFICES ASSUME hashIndex[s] # NoRoute
                 PROVE  RouteSound(s)'
      BY <1>1, <1>5 DEF AddToHashIndex, RouteSound
    <2>1. hashIndex'[s] = hashIndex[s]
      BY <1>1, <1>5 DEF AddToHashIndex
    <2>2. hashIndex[s].endpoint \in Endpoint /\ hashIndex[s].endpoint < pos
      BY <1>1 DEF RegistryInv, RoutesSound, RouteSound, RegistryTypeOK, Route
    <2>3. discovered'[hashIndex[s].endpoint] = discovered[hashIndex[s].endpoint]
      BY <1>1, <1>3, <2>2, EndpointsAssumption DEF RegistryInv, RegistryTypeOK, Endpoint
    <2>4. hashIndex[s].endpoint < pos + 1
      BY <1>3, <2>2, EndpointsAssumption DEF Endpoint
    <2> QED BY <1>1, <2>1, <2>3, <2>4 DEF RegistryInv, RoutesSound, RouteSound
  <1> QED BY <1>4, <1>5

\* Every other step leaves the routes alone or drops all of them.
LEMMA StepKeepsRoutes ==
    ASSUME RegistryInv, [RegistryNext]_registryVars
    PROVE  RoutesSound'
  <1> USE DEF RegistryInv, RoutesSound, RouteSound
  <1>1. CASE MarkAllHealthy
    BY <1>1 DEF MarkAllHealthy
  <1>2. CASE BeginHealthCheck
    BY <1>2 DEF BeginHealthCheck
  <1>3. CASE \E answer \in HealthAnswer : ProbeAnswered(answer)
    BY <1>3 DEF ProbeAnswered
  <1>4. CASE EndHealthCheck
    BY <1>4 DEF EndHealthCheck
  <1>5. CASE BeginDiscovery
    BY <1>5 DEF BeginDiscovery, NoHashIndex
  <1>6. CASE SkipUnhealthy \/ ListingFailed
    <2>1. /\ pos \in Endpoint /\ pass = "discovery" /\ pos' = pos + 1
          /\ UNCHANGED <<healthy, discovered, hashIndex, pass>>
      BY <1>6 DEF SkipUnhealthy, ListingFailed
    <2>2. \A s \in Slug : hashIndex[s] # NoRoute => hashIndex[s].endpoint \in Endpoint
      BY DEF RegistryTypeOK, Route
    <2>3. \A e \in Endpoint : e < pos => e < pos'
      BY <2>1, EndpointsAssumption DEF Endpoint
    <2> QED BY <2>1, <2>2, <2>3
  <1>7. CASE \E listing \in Listing : ModelsListed(listing)
    BY <1>7, ListingKeepsRoutes
  <1>8. CASE EndDiscovery
    BY <1>8 DEF EndDiscovery
  <1>9. CASE UNCHANGED registryVars
    BY <1>9 DEF registryVars
  <1> QED
    BY <1>1, <1>2, <1>3, <1>4, <1>5, <1>6, <1>7, <1>8, <1>9 DEF RegistryNext

\* Whatever the endpoints answer, in every order of the passes, a route that
\* lookup_hashed_model returns belongs to the slug, to an endpoint that still
\* advertises the model, and passes the filters of that endpoint.
THEOREM RoutesAlwaysSound == RegistrySpec => []RoutesSound
  <1>1. RegistryInit => RoutesSound
    BY DEF RegistryInit, RoutesSound, RouteSound, NoHashIndex
  <1>2. RegistryTypeOK /\ RoutesSound /\ [RegistryNext]_registryVars => RoutesSound'
    BY StepKeepsRoutes DEF RegistryInv
  <1>3. RegistrySpec => []RegistryTypeOK
    BY RegistryTypeCorrect
  <1> QED BY <1>1, <1>2, <1>3, PTL DEF RegistrySpec

-----------------------------------------------------------------------------

\* The advertisers after an endpoint has listed its models.
LEMMA ListingAdvertisers ==
    ASSUME RegistryTypeOK, NEW listing \in Listing, ModelsListed(listing),
           NEW m \in Model
    PROVE  Advertisers(m)' = IF m \in Filtered(pos, listing)
                             THEN Advertisers(m) \cup {pos} ELSE Advertisers(m)
  <1>1. /\ pos \in Endpoint
        /\ modelIndex'[m] = IF m \in Filtered(pos, listing)
                            THEN modelIndex[m] \o [i \in 1 .. listing[m] |-> pos]
                            ELSE modelIndex[m]
    BY DEF ModelsListed, AddToModelIndex
  <1>2. modelIndex[m] \in Seq(Endpoint)
    BY DEF RegistryTypeOK
  <1>3. CASE m \in Filtered(pos, listing)
    <2> DEFINE q == modelIndex[m]
               r == modelIndex'[m]
    <2>1. listing[m] \in Nat \ {0}
      BY <1>1, <1>3, FilteredPermitted
    <2>2. /\ Len(r) = Len(q) + listing[m]
          /\ \A i \in 1 .. Len(q) : r[i] = q[i]
          /\ \A i \in 1 .. Len(r) : i > Len(q) => r[i] = pos
      BY <1>1, <1>2, <1>3, <2>1, AppendCopies
    <2>3. Len(q) \in Nat
      BY <1>2
    <2> HIDE DEF q, r
    <2>4. 1 .. Len(q) \subseteq 1 .. Len(r) /\ Len(r) \in 1 .. Len(r) /\ Len(r) > Len(q)
      BY <2>1, <2>2, <2>3
    <2>5. \A i \in 1 .. Len(r) : i \in 1 .. Len(q) \/ i > Len(q)
      BY <2>3
    <2>6. {r[i] : i \in 1 .. Len(r)} = {q[i] : i \in 1 .. Len(q)} \cup {pos}
      BY <2>2, <2>4, <2>5
    <2> QED BY <1>3, <2>6 DEF Advertisers, q, r
  <1>4. CASE m \notin Filtered(pos, listing)
    BY <1>1, <1>4 DEF Advertisers
  <1> QED BY <1>3, <1>4

\* A listing appends the visited endpoint, which comes after all the others.
LEMMA ListingKeepsModelIndex ==
    ASSUME RegistryTypeOK, ModelIndexSound,
           NEW listing \in Listing, ModelsListed(listing)
    PROVE  ModelIndexSound'
  <1> DEFINE kept == Filtered(pos, listing)
  <1>1. /\ pos \in Endpoint /\ pass = "discovery" /\ healthy[pos]
        /\ modelIndex' = AddToModelIndex(pos, kept, listing)
        /\ discovered' = [discovered EXCEPT ![pos] = kept]
        /\ pos' = pos + 1 /\ pass' = pass /\ healthy' = healthy
    BY DEF ModelsListed
  <1>2. Endpoint \subseteq Nat
    BY EndpointsAssumption DEF Endpoint
  <1> SUFFICES ASSUME NEW m \in Model
               PROVE  /\ \A i, j \in 1 .. Len(modelIndex'[m]) :
                             i < j => modelIndex'[m][i] <= modelIndex'[m][j]
                      /\ \A e \in Advertisers(m)' :
                             m \in discovered'[e] /\ e < pos' /\ healthy'[e]
    BY DEF ModelIndexSound
  <1> DEFINE q == modelIndex[m]
             r == modelIndex'[m]
  <1>3. q \in Seq(Endpoint)
    BY DEF RegistryTypeOK
  <1>4. \A i \in 1 .. Len(q) : q[i] \in Endpoint /\ q[i] < pos
    BY <1>1, <1>3 DEF ModelIndexSound, Advertisers
  <1>5. \A i, j \in 1 .. Len(r) : i < j => r[i] <= r[j]
    <2>1. CASE m \in kept
      <3>1. r = q \o [i \in 1 .. listing[m] |-> pos] /\ listing[m] \in Nat
        BY <1>1, <2>1, FilteredPermitted DEF AddToModelIndex
      <3>2. /\ Len(r) = Len(q) + listing[m]
            /\ \A i \in 1 .. Len(q) : r[i] = q[i]
            /\ \A i \in 1 .. Len(r) : i > Len(q) => r[i] = pos
        BY <1>1, <1>3, <3>1, AppendCopies
      <3>3. \A i, j \in 1 .. Len(q) : i < j => q[i] <= q[j]
        BY DEF ModelIndexSound
      <3>4. Len(q) \in Nat /\ pos \in Nat
        BY <1>1, <1>2, <1>3
      <3>5. \A i \in 1 .. Len(r) : i \in 1 .. Len(q) \/ i > Len(q)
        BY <3>4
      <3> HIDE DEF q, r
      <3>6. ASSUME NEW i \in 1 .. Len(q)
            PROVE  q[i] \in Nat /\ q[i] <= pos
        <4>1. q[i] \in Endpoint /\ q[i] < pos
          BY <1>4
        <4>2. q[i] \in Nat
          BY <1>2, <4>1
        <4> QED BY <3>4, <4>1, <4>2
      <3> QED BY <3>2, <3>3, <3>4, <3>5, <3>6
    <2>2. CASE m \notin kept
      BY <1>1, <2>2 DEF AddToModelIndex, ModelIndexSound
    <2> QED BY <2>1, <2>2
  <1>6. \A e \in Advertisers(m) : /\ e \in Endpoint /\ e < pos
                                  /\ m \in discovered[e] /\ healthy[e]
    BY <1>1, <1>4 DEF ModelIndexSound, Advertisers
  <1>7. ASSUME NEW e \in Advertisers(m)'
        PROVE  m \in discovered'[e] /\ e < pos' /\ healthy'[e]
    <2>1. e \in Advertisers(m) \/ (e = pos /\ m \in kept)
      BY <1>7, ListingAdvertisers
    <2>2. CASE e \in Advertisers(m)
      <3>0. e \in Endpoint /\ e < pos
        BY <1>6, <2>2
      <3>1. e # pos /\ e < pos + 1
        BY <1>1, <3>0, EndpointsAssumption DEF Endpoint
      <3>2. discovered'[e] = discovered[e]
        BY <1>1, <1>6, <2>2, <3>1 DEF RegistryTypeOK
      <3> QED BY <1>1, <1>6, <2>2, <3>1, <3>2
    <2>3. CASE e = pos /\ m \in kept
      <3>1. discovered'[pos] = kept
        BY <1>1 DEF RegistryTypeOK
      <3>2. pos < pos + 1
        BY <1>1, <1>2
      <3> QED BY <1>1, <2>3, <3>1, <3>2
    <2> QED BY <2>1, <2>2, <2>3
  <1> QED BY <1>5, <1>7

\* Every step keeps the model index sound.
LEMMA StepKeepsModelIndex ==
    ASSUME RegistryTypeOK, ModelIndexSound, [RegistryNext]_registryVars
    PROVE  ModelIndexSound'
  <1> USE DEF ModelIndexSound, Advertisers
  <1>1. CASE MarkAllHealthy
    BY <1>1 DEF MarkAllHealthy
  <1>2. CASE BeginHealthCheck
    BY <1>2 DEF BeginHealthCheck
  <1>3. CASE \E answer \in HealthAnswer : ProbeAnswered(answer)
    BY <1>3 DEF ProbeAnswered
  <1>4. CASE EndHealthCheck
    BY <1>4 DEF EndHealthCheck
  <1>5. CASE BeginDiscovery
    BY <1>5 DEF BeginDiscovery, NoModelIndex
  <1>6. CASE SkipUnhealthy \/ ListingFailed
    <2>1. /\ pos \in Endpoint /\ pass = "discovery" /\ pos' = pos + 1
          /\ UNCHANGED <<healthy, discovered, modelIndex, pass>>
      BY <1>6 DEF SkipUnhealthy, ListingFailed
    <2>2. \A m \in Model : Advertisers(m) \subseteq Endpoint
      BY DEF RegistryTypeOK
    <2>3. \A e \in Endpoint : e < pos => e < pos'
      BY <2>1, EndpointsAssumption DEF Endpoint
    <2>4. \A m \in Model : \A e \in Advertisers(m) : e < pos /\ e < pos'
      BY <2>1, <2>2, <2>3
    <2> QED BY <2>1, <2>4
  <1>7. CASE \E listing \in Listing : ModelsListed(listing)
    BY <1>7, ListingKeepsModelIndex
  <1>8. CASE EndDiscovery
    BY <1>8 DEF EndDiscovery
  <1>9. CASE UNCHANGED registryVars
    BY <1>9 DEF registryVars
  <1> QED
    BY <1>1, <1>2, <1>3, <1>4, <1>5, <1>6, <1>7, <1>8, <1>9 DEF RegistryNext

\* The model index lists endpoints in the order of the pass, and only
\* while they advertise the model.
THEOREM ModelIndexAlwaysSound == RegistrySpec => []ModelIndexSound
  <1>1. RegistryInit => ModelIndexSound
    BY DEF RegistryInit, ModelIndexSound, Advertisers, NoModelIndex
  <1>2. RegistryTypeOK /\ ModelIndexSound /\ [RegistryNext]_registryVars
            => ModelIndexSound'
    BY StepKeepsModelIndex
  <1>3. RegistrySpec => []RegistryTypeOK
    BY RegistryTypeCorrect
  <1> QED BY <1>1, <1>2, <1>3, PTL DEF RegistrySpec

-----------------------------------------------------------------------------

\* The visited endpoint comes after every other that shares its slug, and it
\* is the one a listing writes into the hash index.
LEMMA ListingKeepsLastAdvertiser ==
    ASSUME RegistryTypeOK, ModelIndexSound, LastAdvertiserWins,
           NEW listing \in Listing, ModelsListed(listing)
    PROVE  LastAdvertiserWins'
  <1> DEFINE kept == Filtered(pos, listing)
  <1>1. /\ pos \in Endpoint /\ pass = "discovery"
        /\ hashIndex' = AddToHashIndex(pos, kept)
    BY DEF ModelsListed
  <1> SUFFICES ASSUME NEW e \in Endpoint, NEW m \in Model
               PROVE  IF Sharing(e, m)' = {}
                      THEN hashIndex'[SlugOf(e, m)] = NoRoute
                      ELSE \E f \in Sharing(e, m)' :
                               /\ \A g \in Sharing(e, m)' : g <= f
                               /\ hashIndex'[SlugOf(e, m)] = RouteTo(f, m)
    BY DEF LastAdvertiserWins, Lookup
  <1> DEFINE slug == SlugOf(e, m)
             joins == m \in kept /\ SlugOf(pos, m) = slug
  <1>2. slug \in Slug /\ slug[3] = m
    BY SlugModel
  <1>3. hashIndex'[slug] = IF joins THEN RouteTo(pos, m) ELSE hashIndex[slug]
    BY <1>1, <1>2 DEF AddToHashIndex
  <1>4. Sharing(e, m)' = IF joins THEN Sharing(e, m) \cup {pos} ELSE Sharing(e, m)
    <2>1. Advertisers(m)' = IF m \in kept THEN Advertisers(m) \cup {pos}
                            ELSE Advertisers(m)
      BY ListingAdvertisers
    <2> QED BY <2>1 DEF Sharing
  <1>5. \A g \in Sharing(e, m) : g <= pos
    <2>1. \A g \in Advertisers(m) : g \in Endpoint /\ g < pos
      BY <1>1 DEF RegistryTypeOK, ModelIndexSound, Advertisers
    <2> QED BY <1>1, <2>1, EndpointsAssumption DEF Sharing, Endpoint
  <1>6. pos <= pos
    BY <1>1, EndpointsAssumption DEF Endpoint
  <1>7. CASE joins
    <2>1. \A g \in Sharing(e, m)' : g <= pos
      BY <1>4, <1>5, <1>6, <1>7
    <2>2. pos \in Sharing(e, m)'
      BY <1>4, <1>7
    <2> QED BY <1>3, <1>7, <2>1, <2>2
  <1>8. CASE ~joins
    <2>1. Sharing(e, m)' = Sharing(e, m) /\ hashIndex'[slug] = hashIndex[slug]
      BY <1>3, <1>4, <1>8
    <2> QED BY <2>1 DEF LastAdvertiserWins, Lookup
  <1> QED BY <1>7, <1>8

\* Every step keeps the two indices in agreement.
LEMMA StepKeepsLastAdvertiser ==
    ASSUME RegistryTypeOK, ModelIndexSound, LastAdvertiserWins,
           [RegistryNext]_registryVars
    PROVE  LastAdvertiserWins'
  <1>1. CASE UNCHANGED <<modelIndex, hashIndex>>
    BY <1>1 DEF LastAdvertiserWins, Sharing, Advertisers, Lookup
  <1>2. CASE BeginDiscovery
    <2>1. \A m \in Model : Advertisers(m)' = {}
      BY <1>2 DEF BeginDiscovery, NoModelIndex, Advertisers
    <2>2. \A e \in Endpoint, m \in Model : hashIndex'[SlugOf(e, m)] = NoRoute
      BY <1>2, SlugModel DEF BeginDiscovery, NoHashIndex
    <2> QED BY <2>1, <2>2 DEF LastAdvertiserWins, Sharing, Lookup
  <1>3. CASE \E listing \in Listing : ModelsListed(listing)
    BY <1>3, ListingKeepsLastAdvertiser
  <1> QED
    BY <1>1, <1>2, <1>3
    DEF RegistryNext, MarkAllHealthy, BeginHealthCheck, ProbeAnswered,
        EndHealthCheck, SkipUnhealthy, ListingFailed, EndDiscovery, registryVars

\* The two indices agree in every state: a slug has a route exactly when an
\* endpoint with that slug is in the model index, and of several it is the
\* last that the pass visited.
THEOREM IndicesAlwaysAgree == RegistrySpec => []LastAdvertiserWins
  <1>1. RegistryInit => LastAdvertiserWins
    <2> SUFFICES ASSUME RegistryInit PROVE LastAdvertiserWins
      OBVIOUS
    <2>1. \A m \in Model : Advertisers(m) = {}
      BY DEF RegistryInit, NoModelIndex, Advertisers
    <2>2. \A e \in Endpoint, m \in Model : hashIndex[SlugOf(e, m)] = NoRoute
      BY SlugModel DEF RegistryInit, NoHashIndex
    <2> QED BY <2>1, <2>2 DEF LastAdvertiserWins, Sharing, Lookup
  <1>2. RegistryTypeOK /\ ModelIndexSound /\ LastAdvertiserWins
            /\ [RegistryNext]_registryVars => LastAdvertiserWins'
    BY StepKeepsLastAdvertiser
  <1>3. RegistrySpec => [](RegistryTypeOK /\ ModelIndexSound)
    BY RegistryTypeCorrect, ModelIndexAlwaysSound, PTL
  <1> QED BY <1>1, <1>2, <1>3, PTL DEF RegistrySpec

-----------------------------------------------------------------------------
(* The mutex: its operations keep its holder and its queue well-typed, and *)
(* each of them changes the set of queued tasks by one task at most,       *)
(* without ever queueing a task twice.                                     *)

\* Asking for the lock keeps the types.
LEMMA LockByType ==
    ASSUME MutexTypeOK, NEW task \in Task, LockBy(task)
    PROVE  MutexTypeOK'
  BY DEF MutexTypeOK, LockBy

\* So does giving it back.
LEMMA UnlockType ==
    ASSUME MutexTypeOK, Unlock
    PROVE  MutexTypeOK'
  <1>1. CASE waiters = <<>>
    BY <1>1 DEF MutexTypeOK, Unlock
  <1>2. CASE waiters # <<>>
    BY <1>2 DEF MutexTypeOK, Unlock
  <1> QED BY <1>1, <1>2

\* So does dropping a lock() future.
LEMMA AbandonType ==
    ASSUME MutexTypeOK, NEW task \in Task, Abandon(task)
    PROVE  MutexTypeOK'
  <1>1. CASE holder = task
    BY <1>1, UnlockType DEF Abandon
  <1>2. CASE holder # task
    <2>1. PICK i \in 1 .. Len(waiters) : waiters' = RemoveAt(waiters, i)
      BY <1>2 DEF Abandon
    <2>2. waiters \in Seq(Task) /\ Len(waiters) \in Nat
      BY DEF MutexTypeOK
    <2>3. /\ SubSeq(waiters, 1, i - 1) \in Seq(Task)
          /\ SubSeq(waiters, i + 1, Len(waiters)) \in Seq(Task)
      BY <2>2
    <2>4. waiters' \in Seq(Task)
      BY <2>1, <2>3 DEF RemoveAt
    <2> QED BY <1>2, <2>4 DEF Abandon, MutexTypeOK
  <1> QED BY <1>1, <1>2

-----------------------------------------------------------------------------
(* The queue as a set.                                                     *)

Queued == {waiters[i] : i \in 1 .. Len(waiters)}
QueuedOnce == \A i, j \in 1 .. Len(waiters) : waiters[i] = waiters[j] => i = j

\* A task that asks for the lock gets it, or joins the queue.
LEMMA LockByQueue ==
    ASSUME MutexTypeOK, QueuedOnce, NEW task \in Task, task \notin Queued, LockBy(task)
    PROVE  /\ QueuedOnce'
           /\ IF holder = Nobody
              THEN holder' = task /\ Queued' = Queued
              ELSE holder' = holder /\ Queued' = Queued \cup {task}
  <1>1. CASE holder = Nobody
    BY <1>1 DEF LockBy, Queued, QueuedOnce
  <1>2. CASE holder # Nobody
    <2>1. /\ waiters' = Append(waiters, task) /\ holder' = holder
          /\ waiters \in Seq(Task)
      BY <1>2 DEF LockBy, MutexTypeOK
    <2>2. /\ Len(waiters) \in Nat /\ Len(waiters') = Len(waiters) + 1
          /\ \A i \in 1 .. Len(waiters) : waiters'[i] = waiters[i]
          /\ waiters'[Len(waiters) + 1] = task
      BY <2>1
    <2>3. QueuedOnce'
      BY <2>2 DEF QueuedOnce, Queued
    <2>4. Queued' = Queued \cup {task}
      BY <2>2 DEF Queued
    <2> QED BY <1>2, <2>1, <2>3, <2>4
  <1> QED BY <1>1, <1>2

\* Giving the lock back hands it to a queued task, which leaves the queue; it
\* is free afterwards only if nobody was queued.
LEMMA UnlockQueue ==
    ASSUME MutexTypeOK, QueuedOnce, Unlock
    PROVE  /\ QueuedOnce'
           /\ Queued' = Queued \ {holder'}
           /\ IF Queued = {} THEN holder' = Nobody ELSE holder' \in Queued
  <1>0. waiters \in Seq(Task) /\ Len(waiters) \in Nat
    BY DEF MutexTypeOK
  <1>1. CASE waiters = <<>>
    BY <1>1 DEF Unlock, Queued, QueuedOnce
  <1>2. CASE waiters # <<>>
    <2>1. /\ Len(waiters) >= 1
          /\ Len(waiters') = Len(waiters) - 1
          /\ \A i \in 1 .. Len(waiters) - 1 : waiters'[i] = waiters[i + 1]
          /\ holder' = waiters[1]
      BY <1>0, <1>2 DEF Unlock
    <2>2. QueuedOnce'
      BY <1>0, <2>1 DEF QueuedOnce
    <2>3. holder' \in Queued
      BY <1>0, <2>1 DEF Queued
    <2>4. Queued' \subseteq Queued \ {holder'}
      BY <1>0, <2>1 DEF Queued, QueuedOnce
    <2>5. ASSUME NEW t \in Queued, t # holder'
          PROVE  t \in Queued'
      <3>1. PICK i \in 1 .. Len(waiters) : t = waiters[i]
        BY DEF Queued
      <3>2. i - 1 \in 1 .. Len(waiters') /\ waiters'[i - 1] = t
        BY <1>0, <2>1, <2>5, <3>1
      <3> QED BY <3>2 DEF Queued
    <2> QED BY <2>2, <2>3, <2>4, <2>5
  <1> QED BY <1>1, <1>2

\* A task that gives up waiting leaves the queue, and nobody else does.
LEMMA AbandonQueue ==
    ASSUME MutexTypeOK, QueuedOnce, NEW task \in Task, Abandon(task), holder # task
    PROVE  QueuedOnce' /\ Queued' = Queued \ {task} /\ holder' = holder
  <1>1. PICK k \in 1 .. Len(waiters) : /\ waiters[k] = task
                                       /\ waiters' = RemoveAt(waiters, k)
    BY DEF Abandon
  <1>2. waiters \in Seq(Task) /\ Len(waiters) \in Nat
    BY DEF MutexTypeOK
  <1>3. /\ Len(waiters') = Len(waiters) - 1
        /\ \A i \in 1 .. Len(waiters) - 1 :
               waiters'[i] = IF i < k THEN waiters[i] ELSE waiters[i + 1]
    <2> DEFINE before == SubSeq(waiters, 1, k - 1)
               after == SubSeq(waiters, k + 1, Len(waiters))
    <2>1. /\ before \in Seq(Task) /\ Len(before) = k - 1
          /\ \A i \in 1 .. k - 1 : before[i] = waiters[i]
      BY <1>2
    <2>2. /\ after \in Seq(Task) /\ Len(after) = Len(waiters) - k
          /\ \A i \in 1 .. Len(waiters) - k : after[i] = waiters[i + k]
      BY <1>2
    <2>3. waiters' = before \o after
      BY <1>1 DEF RemoveAt
    <2> HIDE DEF before, after
    <2>4. Len(waiters') = Len(waiters) - 1
      BY <1>2, <2>1, <2>2, <2>3
    <2>5. ASSUME NEW i \in 1 .. Len(waiters) - 1
          PROVE  waiters'[i] = IF i < k THEN waiters[i] ELSE waiters[i + 1]
      <3>1. CASE i < k
        BY <1>2, <2>1, <2>2, <2>3, <3>1
      <3>2. CASE i >= k
        <4>1. waiters'[i] = after[i - (k - 1)]
          BY <1>2, <2>1, <2>2, <2>3, <3>2
        <4>2. i - (k - 1) \in 1 .. Len(waiters) - k /\ i - (k - 1) + k = i + 1
          BY <1>2, <3>2
        <4> QED BY <2>2, <3>2, <4>1, <4>2
      <3> QED BY <3>1, <3>2
    <2> QED BY <2>4, <2>5
  <1>4. QueuedOnce'
    BY <1>2, <1>3 DEF QueuedOnce
  <1>5. Queued' \subseteq Queued \ {task}
    BY <1>1, <1>2, <1>3 DEF Queued, QueuedOnce
  <1>6. ASSUME NEW t \in Queued, t # task
        PROVE  t \in Queued'
    <2>1. PICK i \in 1 .. Len(waiters) : t = waiters[i]
      BY DEF Queued
    <2>2. CASE i < k
      BY <1>2, <1>3, <2>1, <2>2 DEF Queued
    <2>3. CASE i > k
      <3>1. i - 1 \in 1 .. Len(waiters') /\ waiters'[i - 1] = t
        BY <1>2, <1>3, <2>1, <2>3
      <3> QED BY <3>1 DEF Queued
    <2> QED BY <1>1, <1>6, <2>1, <2>2, <2>3
  <1> QED BY <1>4, <1>5, <1>6 DEF Abandon

-----------------------------------------------------------------------------
(* The passes.                                                             *)

\* The checker's steps are registry steps or leave the registry alone.
LEMMA CheckerStepIsRegistryStep ==
    ASSUME CheckerNext
    PROVE  [RegistryNext]_registryVars
  <1>1. CASE Tick \/ StopChecker
    BY <1>1 DEF Tick, StopChecker
  <1>2. CASE StartPass
    BY <1>2 DEF StartPass, RegistryNext
  <1>3. CASE Probe
    BY <1>3 DEF Probe, RegistryNext
  <1>4. CASE FinishHealthCheck
    BY <1>4 DEF FinishHealthCheck, RegistryNext
  <1>5. CASE StartDiscovery
    BY <1>5 DEF StartDiscovery, RegistryNext
  <1>6. CASE Discover
    BY <1>6 DEF Discover, RegistryNext
  <1>7. CASE FinishPass
    BY <1>7 DEF FinishPass, RegistryNext
  <1> QED
    BY <1>1, <1>2, <1>3, <1>4, <1>5, <1>6, <1>7 DEF CheckerNext, PassStep

\* The checker keeps the lock while it is in a pass.
LEMMA CheckerKeepsPassExclusive ==
    ASSUME PassExclusive, CheckerNext
    PROVE  PassExclusive'
  <1> USE DEF PassExclusive
  <1>1. CASE Tick
    BY <1>1 DEF Tick, registryVars
  <1>2. CASE StartPass
    BY <1>2 DEF StartPass, BeginHealthCheck, mutexVars
  <1>3. CASE Probe
    BY <1>3 DEF Probe, ProbeAnswered, mutexVars, checkerVars
  <1>4. CASE FinishHealthCheck
    BY <1>4 DEF FinishHealthCheck, EndHealthCheck, mutexVars
  <1>5. CASE StartDiscovery
    BY <1>5 DEF StartDiscovery, BeginDiscovery, mutexVars
  <1>6. CASE Discover
    BY <1>6 DEF Discover, SkipUnhealthy, ListingFailed, ModelsListed,
                mutexVars, checkerVars
  <1>7. CASE FinishPass
    BY <1>7 DEF FinishPass, EndDiscovery
  <1>8. CASE StopChecker
    BY <1>8 DEF StopChecker, registryVars, mutexVars
  <1> QED
    BY <1>1, <1>2, <1>3, <1>4, <1>5, <1>6, <1>7, <1>8 DEF CheckerNext, PassStep

\* The checker's steps keep the types but for the registry's own.
LEMMA CheckerKeepsTypes ==
    ASSUME CheckerTypeOK, CheckerNext, RegistryTypeOK'
    PROVE  CheckerTypeOK'
  <1> USE DEF CheckerTypeOK, CheckerState
  <1>1. CASE Tick
    BY <1>1, LockByType, CheckerAssumption DEF Tick
  <1>2. CASE StartPass
    BY <1>2 DEF StartPass, mutexVars, MutexTypeOK
  <1>3. CASE Probe \/ Discover
    BY <1>3 DEF Probe, Discover, mutexVars, checkerVars, MutexTypeOK
  <1>4. CASE FinishHealthCheck \/ StartDiscovery
    BY <1>4 DEF FinishHealthCheck, StartDiscovery, mutexVars, MutexTypeOK
  <1>5. CASE FinishPass
    BY <1>5, UnlockType DEF FinishPass
  <1>6. CASE StopChecker
    BY <1>6 DEF StopChecker, mutexVars, MutexTypeOK
  <1> QED
    BY <1>1, <1>2, <1>3, <1>4, <1>5, <1>6 DEF CheckerNext, PassStep

\* Every endpoint of the model index is healthy, except from the start of a
\* health check to the start of the discovery after it.
AdvertisersHealthy ==
    \/ checker \in {"health", "checked"}
    \/ \A m \in Model : \A e \in Advertisers(m) : healthy[e]

\* What the checker does to the health of the endpoints in the indices.
LEMMA CheckerKeepsHealthy ==
    ASSUME RoutesSound', ModelIndexSound', PassExclusive', CheckerNext
    PROVE  /\ RoutesHealthy => RoutesHealthy'
           /\ AdvertisersHealthy => AdvertisersHealthy'
  <1>1. CASE checker' \in {"health", "checked"}
    BY <1>1 DEF RoutesHealthy, AdvertisersHealthy
  <1>2. CASE checker' = "discovery"
    <2>1. pass' = "discovery"
      BY <1>2 DEF PassExclusive
    <2> QED
      BY <1>2, <2>1
      DEF RoutesSound, RouteSound, RoutesHealthy, ModelIndexSound, AdvertisersHealthy
  <1>3. CASE FinishPass
    BY <1>3 DEF FinishPass, EndDiscovery, RoutesHealthy, AdvertisersHealthy, Advertisers
  <1>4. CASE Tick \/ StopChecker
    BY <1>4 DEF Tick, StopChecker, registryVars, RoutesHealthy, AdvertisersHealthy,
                Advertisers
  <1>5. CASE StartPass \/ Probe \/ FinishHealthCheck \/ StartDiscovery \/ Discover
    BY <1>1, <1>2, <1>5
    DEF StartPass, Probe, FinishHealthCheck, StartDiscovery, Discover, checkerVars
  <1> QED BY <1>3, <1>4, <1>5 DEF CheckerNext, PassStep

-----------------------------------------------------------------------------
(* The task by itself.                                                     *)

\* Every step is a step of the registry alone or leaves it unchanged.
LEMMA CheckerRefinesRegistry == HealthCheckerSpec => RegistrySpec
  <1>1. CheckerInit => RegistryInit
    BY DEF CheckerInit
  <1>2. [CheckerNext \/ ServerEnds]_sharedVars => [RegistryNext]_registryVars
    BY CheckerStepIsRegistryStep DEF ServerEnds, sharedVars
  <1> QED BY <1>1, <1>2, PTL DEF HealthCheckerSpec, RegistrySpec

\* What the registry proofs give for the shared registry.
LEMMA SharedRegistryInvariants ==
    HealthCheckerSpec => [](/\ RegistryTypeOK
                            /\ RoutesSound
                            /\ ModelIndexSound
                            /\ LastAdvertiserWins)
  BY CheckerRefinesRegistry, RegistryTypeCorrect, RoutesAlwaysSound,
     ModelIndexAlwaysSound, IndicesAlwaysAgree, PTL

\* Outside of a health check, and of the moment after it, both indices lead
\* to healthy endpoints only; the strengthening of SelectionAgreesWithLookup.
LEMMA IndexedHealthy ==
    HealthCheckerSpec => [](PassExclusive /\ RoutesHealthy /\ AdvertisersHealthy)
  <1> DEFINE Inv == PassExclusive /\ RoutesHealthy /\ AdvertisersHealthy
  <1>1. CheckerInit => Inv
    BY DEF CheckerInit, RegistryInit, MutexInit, NoHashIndex, NoModelIndex,
           PassExclusive, RoutesHealthy, AdvertisersHealthy, Advertisers
  <1>2. Inv /\ RoutesSound' /\ ModelIndexSound' /\ [CheckerNext \/ ServerEnds]_sharedVars
            => Inv'
    <2> SUFFICES ASSUME Inv, RoutesSound', ModelIndexSound',
                        [CheckerNext \/ ServerEnds]_sharedVars
                 PROVE  Inv'
      OBVIOUS
    <2>1. CASE CheckerNext
      BY <2>1, CheckerKeepsPassExclusive, CheckerKeepsHealthy
    <2>2. CASE UNCHANGED <<registryVars, mutexVars, checker>>
      BY <2>2
      DEF registryVars, mutexVars, PassExclusive, RoutesHealthy, AdvertisersHealthy,
          Advertisers
    <2> QED BY <2>1, <2>2 DEF ServerEnds, sharedVars, checkerVars
  <1> QED BY <1>1, <1>2, SharedRegistryInvariants, PTL DEF HealthCheckerSpec

\* The route of every advertiser's slug leads to an advertiser of that slug,
\* and an endpoint that its own slug leads to is an advertiser.
LEMMA AdvertisedIsRouted ==
    ASSUME RegistryTypeOK, LastAdvertiserWins, NEW m \in Model
    PROVE  /\ \A e \in Advertisers(m) :
                  \E f \in Endpoint : /\ Lookup(SlugOf(f, m)) = RouteTo(f, m)
                                      /\ SlugOf(f, m) = SlugOf(e, m)
           /\ \A f \in Endpoint :
                  Lookup(SlugOf(f, m)) = RouteTo(f, m) => f \in Advertisers(m)
  <1>1. Advertisers(m) \subseteq Endpoint
    BY DEF Advertisers, RegistryTypeOK
  <1>2. ASSUME NEW e \in Advertisers(m)
        PROVE  \E f \in Endpoint : /\ Lookup(SlugOf(f, m)) = RouteTo(f, m)
                                    /\ SlugOf(f, m) = SlugOf(e, m)
    <2>1. e \in Endpoint /\ e \in Sharing(e, m)
      BY <1>1 DEF Sharing
    <2>2. PICK f \in Sharing(e, m) : Lookup(SlugOf(e, m)) = RouteTo(f, m)
      BY <2>1 DEF LastAdvertiserWins
    <2> QED BY <1>1, <2>2 DEF Sharing
  <1>3. ASSUME NEW f \in Endpoint, Lookup(SlugOf(f, m)) = RouteTo(f, m)
        PROVE  f \in Advertisers(m)
    <2>1. RouteTo(f, m) # NoRoute
      BY NoRouteAssumption DEF RouteTo, Route
    <2>2. PICK g \in Sharing(f, m) : Lookup(SlugOf(f, m)) = RouteTo(g, m)
      BY <1>3, <2>1 DEF LastAdvertiserWins
    <2>3. f = g
      BY <1>3, <2>2 DEF RouteTo
    <2> QED BY <2>2, <2>3 DEF Sharing
  <1> QED BY <1>2, <1>3

\* The scheduler's choice is the first of the advertisers when all of them are
\* healthy, and 0 only if there is none.
LEMMA SelectedIsFirst ==
    ASSUME RegistryTypeOK, ModelIndexSound, NEW m \in Model,
           \A e \in Advertisers(m) : healthy[e]
    PROVE  IF Advertisers(m) = {} THEN SelectEndpoint(m) = 0
           ELSE /\ SelectEndpoint(m) \in Advertisers(m)
                /\ \A f \in Advertisers(m) : SelectEndpoint(m) <= f
  <1> DEFINE candidates ==
                 {i \in 1 .. Len(modelIndex[m]) : healthy[modelIndex[m][i]]}
             chosen == CHOOSE i \in candidates : \A j \in candidates : i <= j
  <1>1. modelIndex[m] \in Seq(Endpoint) /\ Len(modelIndex[m]) \in Nat
    BY DEF RegistryTypeOK
  <1>2. candidates = 1 .. Len(modelIndex[m])
    BY DEF Advertisers
  <1>3. SelectEndpoint(m) = IF candidates = {} THEN 0 ELSE modelIndex[m][chosen]
    BY DEF SelectEndpoint
  <1>4. CASE candidates = {}
    BY <1>2, <1>3, <1>4 DEF Advertisers
  <1>5. CASE candidates # {}
    <2>1. 1 \in candidates /\ \A j \in candidates : 1 <= j
      BY <1>1, <1>2, <1>5
    <2>2. chosen \in candidates /\ \A j \in candidates : chosen <= j
      BY <2>1
    <2> HIDE DEF chosen
    <2>3. SelectEndpoint(m) \in Advertisers(m)
      BY <1>2, <1>3, <1>5, <2>2 DEF Advertisers
    <2>4. ASSUME NEW f \in Advertisers(m)
          PROVE  SelectEndpoint(m) <= f
      <3>1. PICK j \in 1 .. Len(modelIndex[m]) : f = modelIndex[m][j]
        BY DEF Advertisers
      <3>2. chosen \in 1 .. Len(modelIndex[m]) /\ chosen <= j
        BY <1>2, <2>2
      <3>3. /\ SelectEndpoint(m) = modelIndex[m][chosen]
            /\ modelIndex[m][chosen] \in Nat
        <4>1. modelIndex[m][chosen] \in Endpoint
          BY <1>1, <3>2
        <4>2. modelIndex[m][chosen] \in Nat
          BY <4>1 DEF Endpoint
        <4> QED BY <1>3, <1>5, <4>2
      <3>4. CASE chosen = j
        BY <3>1, <3>3, <3>4
      <3>5. CASE chosen < j
        BY <3>1, <3>2, <3>3, <3>5 DEF ModelIndexSound
      <3> QED BY <1>1, <3>2, <3>4, <3>5
    <2>5. Advertisers(m) # {}
      BY <2>3
    <2> QED BY <2>3, <2>4, <2>5
  <1> QED BY <1>4, <1>5

\* Between passes select_endpoint_for_model and lookup_hashed_model agree:
\* the one finds an endpoint for a model exactly when a route leads to one,
\* and it finds the first of those that the routes of the model stand for.
THEOREM SelectionAlwaysAgrees == HealthCheckerSpec => []SelectionAgreesWithLookup
  <1>1. /\ RegistryTypeOK /\ ModelIndexSound /\ LastAdvertiserWins /\ AdvertisersHealthy
        => SelectionAgreesWithLookup
    <2> SUFFICES ASSUME RegistryTypeOK, ModelIndexSound, LastAdvertiserWins,
                        AdvertisersHealthy,
                        checker \in {"select", "waiting", "stopped"}, NEW m \in Model
                 PROVE  LET e == SelectEndpoint(m)
                            routed == {f \in Endpoint :
                                           Lookup(SlugOf(f, m)) = RouteTo(f, m)}
                        IN  IF routed = {} THEN e = 0
                            ELSE /\ e \in Endpoint /\ healthy[e] /\ m \in discovered[e]
                                 /\ \A f \in routed : e <= f
                                 /\ \E f \in routed : SlugOf(f, m) = SlugOf(e, m)
      BY DEF SelectionAgreesWithLookup
    <2> DEFINE e == SelectEndpoint(m)
               routed == {f \in Endpoint : Lookup(SlugOf(f, m)) = RouteTo(f, m)}
    <2>1. \A f \in Advertisers(m) : healthy[f] /\ m \in discovered[f]
      BY DEF AdvertisersHealthy, ModelIndexSound
    <2>2. Advertisers(m) \subseteq Endpoint
      BY DEF Advertisers, RegistryTypeOK
    <2>3. IF Advertisers(m) = {} THEN e = 0
          ELSE e \in Advertisers(m) /\ \A f \in Advertisers(m) : e <= f
      BY <2>1, SelectedIsFirst
    <2>4. routed \subseteq Advertisers(m)
      BY AdvertisedIsRouted
    <2>5. \A g \in Advertisers(m) : \E f \in routed : SlugOf(f, m) = SlugOf(g, m)
      BY AdvertisedIsRouted
    <2> HIDE DEF e, routed
    <2>6. IF routed = {} THEN e = 0
          ELSE /\ e \in Endpoint /\ healthy[e] /\ m \in discovered[e]
               /\ \A f \in routed : e <= f
               /\ \E f \in routed : SlugOf(f, m) = SlugOf(e, m)
      <3>1. CASE Advertisers(m) = {}
        BY <2>3, <2>4, <3>1
      <3>2. CASE Advertisers(m) # {}
        <4>1. e \in Advertisers(m) /\ \A f \in routed : e <= f
          BY <2>3, <2>4, <3>2
        <4>2. PICK f \in routed : SlugOf(f, m) = SlugOf(e, m)
          BY <2>5, <4>1
        <4> QED BY <2>1, <2>2, <4>1, <4>2
      <3> QED BY <3>1, <3>2
    <2> QED BY <2>6 DEF e, routed
  <1> QED BY <1>1, SharedRegistryInvariants, IndexedHealthy, PTL
=============================================================================
