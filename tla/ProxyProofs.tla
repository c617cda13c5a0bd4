---------------------------- MODULE ProxyProofs ----------------------------
(***************************************************************************)
(* The proxy over the shared registry: the composition is a refinement of  *)
(* the registry alone and of the abstract routing table, and a slug is     *)
(* resolved only to a healthy endpoint.                                    *)
(*                                                                         *)
(* The argument is the lock: a pass keeps it from its first probe to its   *)
(* last listing, so whoever holds it otherwise finds the registry between  *)
(* passes.                                                                 *)
(***************************************************************************)
EXTENDS Proxy, HealthCheckerProofs

\* A request's steps leave the registry, the checker and the published index
\* alone, and never take the lock from the checker.
LEMMA RequestStepFrame ==
    ASSUME NEW c \in Client, HandlerStep(c) \/ UpstreamStep(c) \/ ClientStep(c)
    PROVE  /\ UNCHANGED <<registryVars, checkerVars, published>>
           /\ holder = Checker => holder' = Checker
  <1>1. Checker # Nobody /\ c # Checker
    BY NobodyAssumption, CheckerAssumption, ClientAssumption
  <1>2. CASE HandlerStep(c)
    BY <1>1, <1>2 DEF HandlerStep, ListModels, ResolveKnown, ResolveUnknown, HasLock
  <1>3. CASE UpstreamStep(c)
    BY <1>3
    DEF UpstreamStep, SendFails, HeadArrives, BodyRead, BodyFails, mutexVars
  <1>4. CASE ClientStep(c)
    <2>1. CASE \E r \in ChatRequest \cup {ListRequest} : Arrive(c, r)
      BY <1>1, <2>1 DEF Arrive, LockBy
    <2>2. CASE Delivered(c)
      BY <2>2 DEF Delivered, mutexVars
    <2>3. CASE Disconnect(c)
      BY <1>1, <2>3 DEF Disconnect, Abandon, mutexVars
    <2> QED BY <1>4, <2>1, <2>2, <2>3 DEF ClientStep
  <1> QED BY <1>2, <1>3, <1>4

\* Every step of the composition is a step of the registry alone or leaves
\* the registry unchanged: no request disturbs a pass.
LEMMA ProxyRefinesRegistry == ProxySpec => RegistrySpec
  <1>1. ProxyInit => RegistryInit
    BY DEF ProxyInit, CheckerInit
  <1>2. [ProxyNext]_vars => [RegistryNext]_registryVars
    <2>1. CASE RefreshStep
      BY <2>1, CheckerStepIsRegistryStep DEF RefreshStep
    <2>2. CASE \E c \in Client : HandlerStep(c) \/ UpstreamStep(c) \/ ClientStep(c)
      BY <2>2, RequestStepFrame
    <2>3. CASE UNCHANGED vars
      BY <2>3 DEF vars
    <2> QED BY <2>1, <2>2, <2>3 DEF ProxyNext
  <1> QED BY <1>1, <1>2, PTL DEF ProxySpec, RegistrySpec

-----------------------------------------------------------------------------

\* The pass that runs is the one the checker is in, and it holds the lock.
THEOREM PassAlwaysExclusive == ProxySpec => []PassExclusive
  <1>1. ProxyInit => PassExclusive
    BY DEF ProxyInit, CheckerInit, RegistryInit, MutexInit, PassExclusive
  <1>2. PassExclusive /\ [ProxyNext]_vars => PassExclusive'
    <2> SUFFICES ASSUME PassExclusive, [ProxyNext]_vars
                 PROVE  PassExclusive'
      OBVIOUS
    <2>1. CASE RefreshStep
      BY <2>1, CheckerKeepsPassExclusive DEF RefreshStep
    <2>2. CASE \E c \in Client : HandlerStep(c) \/ UpstreamStep(c) \/ ClientStep(c)
      <3>1. UNCHANGED <<pass, checker>> /\ (holder = Checker => holder' = Checker)
        BY <2>2, RequestStepFrame DEF registryVars, checkerVars
      <3> QED BY <3>1 DEF PassExclusive
    <2>3. CASE UNCHANGED vars
      BY <2>3 DEF vars, registryVars, mutexVars, checkerVars, PassExclusive
    <2> QED BY <2>1, <2>2, <2>3 DEF ProxyNext
  <1> QED BY <1>1, <1>2, PTL DEF ProxySpec

\* What the registry proofs give for the composition.
LEMMA RegistryInvariants ==
    ProxySpec => [](/\ RegistryTypeOK
                    /\ RoutesSound
                    /\ ModelIndexSound
                    /\ LastAdvertiserWins)
  BY ProxyRefinesRegistry, RegistryTypeCorrect, RoutesAlwaysSound,
     ModelIndexAlwaysSound, IndicesAlwaysAgree, PTL

\* Outside of a health check and the moment after it, every route leads to an
\* endpoint that is healthy.
THEOREM RoutesAlwaysHealthy == ProxySpec => []RoutesHealthy
  <1>1. ProxyInit => RoutesHealthy
    BY DEF ProxyInit, CheckerInit, RegistryInit, NoHashIndex, RoutesHealthy
  <1>2. /\ RoutesSound' /\ ModelIndexSound' /\ PassExclusive' /\ RoutesHealthy
        /\ [ProxyNext]_vars
        => RoutesHealthy'
    <2> SUFFICES ASSUME RoutesSound', ModelIndexSound', PassExclusive',
                        RoutesHealthy, [ProxyNext]_vars
                 PROVE  RoutesHealthy'
      OBVIOUS
    <2>1. CASE UNCHANGED <<healthy, hashIndex, checker>>
      BY <2>1 DEF RoutesHealthy
    <2>2. CASE RefreshStep
      BY <2>2, CheckerKeepsHealthy DEF RefreshStep
    <2>3. CASE \E c \in Client : HandlerStep(c) \/ UpstreamStep(c) \/ ClientStep(c)
      BY <2>1, <2>3, RequestStepFrame DEF registryVars, checkerVars
    <2>4. CASE UNCHANGED vars
      BY <2>1, <2>4 DEF vars, registryVars, checkerVars
    <2> QED BY <2>2, <2>3, <2>4 DEF ProxyNext
  <1> QED BY <1>1, <1>2, RegistryInvariants, PassAlwaysExclusive, PTL DEF ProxySpec

-----------------------------------------------------------------------------
(* Type correctness.                                                       *)

\* The checker's steps keep every type but the registry's own.
LEMMA RefreshKeepsTypes ==
    ASSUME ProxyTypeOK, RefreshStep, RegistryTypeOK'
    PROVE  ProxyTypeOK'
  <1>1. /\ UNCHANGED <<request, pc, target, response, recorded>>
        /\ published' \in [Slug -> Route \cup {NoRoute}]
    BY DEF RefreshStep, RegistryTypeOK, ProxyTypeOK, CheckerTypeOK
  <1>2. CheckerTypeOK'
    BY CheckerKeepsTypes DEF RefreshStep, ProxyTypeOK
  <1> QED BY <1>1, <1>2 DEF ProxyTypeOK

\* A response of the right type keeps the handlers' variables well-typed.
LEMMA RespondType ==
    ASSUME ProxyTypeOK, NEW c \in Client, NEW resp \in Response,
           NEW metric \in Metric, Respond(c, resp, metric)
    PROVE  /\ pc' \in [Client -> HandlerState]
           /\ response' \in [Client -> Response]
           /\ recorded' \in [Client -> Seq(Metric)]
  <1>1. Append(recorded[c], metric) \in Seq(Metric)
    BY DEF ProxyTypeOK
  <1> QED BY <1>1 DEF Respond, ProxyTypeOK, HandlerState

\* Forgetting a request keeps the types.
LEMMA ForgetType ==
    ASSUME ProxyTypeOK, NEW c \in Client, Forget(c)
    PROVE  /\ request' \in [Client -> ChatRequest \cup {ListRequest, NoRequest}]
           /\ pc' \in [Client -> HandlerState]
           /\ target' \in [Client -> Route \cup {NoRoute, Unresolved}]
           /\ response' \in [Client -> Response]
           /\ recorded' \in [Client -> Seq(Metric)]
  <1>1. <<>> \in Seq(Metric)
    OBVIOUS
  <1> QED BY <1>1 DEF Forget, ProxyTypeOK, HandlerState, Response

\* What the proofs need to know of a handler: nothing of an earlier request is
\* left in the connection, only a resolved request is forwarded, and the index
\* is what the last pass published except while it is rebuilt.
HandlersConsistent ==
    /\ \A c \in Client :
           /\ request[c] = NoRequest <=> pc[c] = "idle"
           /\ pc[c] \in {"idle", "locking"} => target[c] = Unresolved
           /\ request[c] = ListRequest => target[c] = Unresolved
           /\ pc[c] \in {"sending", "body", "streaming"} =>
                  request[c] \in ChatRequest /\ target[c] \in Route
    /\ checker # "discovery" => published = hashIndex

\* The slug of a chat request is one the index is defined on.
LEMMA RequestedSlug ==
    ASSUME ProxyTypeOK, HandlersConsistent, NEW c \in Client,
           pc[c] # "idle", request[c] # ListRequest
    PROVE  request[c] \in ChatRequest /\ request[c].slug \in Slug
  BY DEF ProxyTypeOK, HandlersConsistent, ChatRequest

\* Every step of a handler keeps the types.
LEMMA RequestKeepsTypes ==
    ASSUME ProxyTypeOK, HandlersConsistent, NEW c \in Client,
           HandlerStep(c) \/ UpstreamStep(c) \/ ClientStep(c)
    PROVE  ProxyTypeOK'
  <1>1. /\ UNCHANGED <<registryVars, checkerVars, published>>
        /\ c \in Task
    BY RequestStepFrame, ClientAssumption
  <1>2. SUFFICES /\ MutexTypeOK'
                 /\ request' \in [Client -> ChatRequest \cup {ListRequest, NoRequest}]
                 /\ pc' \in [Client -> HandlerState]
                 /\ target' \in [Client -> Route \cup {NoRoute, Unresolved}]
                 /\ response' \in [Client -> Response]
                 /\ recorded' \in [Client -> Seq(Metric)]
    BY <1>1 DEF ProxyTypeOK, CheckerTypeOK, RegistryTypeOK, registryVars, checkerVars
  <1> USE DEF ProxyTypeOK, CheckerTypeOK
  <1>3. CASE ListModels(c)
    BY <1>3, UnlockType, RespondType DEF ListModels, Response, Metric
  <1>4. CASE ResolveKnown(c)
    <2>1. Lookup(request[c].slug) \in Route
      BY <1>4, RequestedSlug DEF ResolveKnown, HasLock, Lookup, RegistryTypeOK
    <2>2. MutexTypeOK'
      BY <1>4, UnlockType DEF ResolveKnown
    <2> QED BY <1>4, <2>1, <2>2 DEF ResolveKnown, HandlerState
  <1>5. CASE ResolveUnknown(c)
    BY <1>5, UnlockType, RespondType DEF ResolveUnknown, Response, Metric
  <1>6. CASE SendFails(c)
    BY <1>6, RespondType DEF SendFails, Response, Metric, mutexVars, MutexTypeOK
  <1>7. CASE \E success \in BOOLEAN : HeadArrives(c, success)
    <2>1. PICK success \in BOOLEAN : HeadArrives(c, success)
      BY <1>7
    <2>2. /\ StatusResponse(success) \in Response
          /\ Append(recorded[c], StatusMetric(success)) \in Seq(Metric)
      BY DEF StatusResponse, StatusMetric, Response, Metric
    <2> QED BY <2>1, <2>2 DEF HeadArrives, HandlerState, mutexVars, MutexTypeOK
  <1>8. CASE BodyRead(c)
    <2>1. response[c] \in Response /\ StatusMetric(response[c] = "ok") \in Metric
      BY DEF StatusMetric, Metric
    <2> QED BY <1>8, <2>1, RespondType DEF BodyRead, mutexVars, MutexTypeOK
  <1>9. CASE BodyFails(c)
    BY <1>9, RespondType DEF BodyFails, Response, Metric, mutexVars, MutexTypeOK
  <1>10. CASE \E r \in ChatRequest \cup {ListRequest} : Arrive(c, r)
    <2>1. MutexTypeOK'
      BY <1>1, <1>10, LockByType DEF Arrive
    <2> QED BY <1>10, <2>1 DEF Arrive, HandlerState
  <1>11. CASE Delivered(c)
    BY <1>11, ForgetType DEF Delivered, mutexVars, MutexTypeOK
  <1>12. CASE Disconnect(c)
    <2>1. MutexTypeOK'
      BY <1>1, <1>12, AbandonType DEF Disconnect, mutexVars, MutexTypeOK
    <2> QED BY <1>12, <2>1, ForgetType DEF Disconnect
  <1> QED
    BY <1>3, <1>4, <1>5, <1>6, <1>7, <1>8, <1>9, <1>10, <1>11, <1>12
    DEF HandlerStep, UpstreamStep, ClientStep

-----------------------------------------------------------------------------
(* What the handlers know.                                                 *)

\* The part of HandlersConsistent about one client.
ClientConsistent(c) ==
    /\ request[c] = NoRequest <=> pc[c] = "idle"
    /\ pc[c] \in {"idle", "locking"} => target[c] = Unresolved
    /\ request[c] = ListRequest => target[c] = Unresolved
    /\ pc[c] \in {"sending", "body", "streaming"} =>
           request[c] \in ChatRequest /\ target[c] \in Route

\* A step of one client leaves what the others know alone.
LEMMA OtherClients ==
    ASSUME ProxyTypeOK, NEW c \in Client, NEW d \in Client \ {c},
           HandlerStep(c) \/ UpstreamStep(c) \/ ClientStep(c)
    PROVE  UNCHANGED <<request[d], pc[d], target[d]>>
  <1> USE DEF ProxyTypeOK
  <1>1. CASE HandlerStep(c)
    BY <1>1 DEF HandlerStep, ListModels, ResolveKnown, ResolveUnknown, Respond
  <1>2. CASE UpstreamStep(c)
    <2>1. UNCHANGED <<request, target>> /\ pc'[d] = pc[d]
      BY <1>2 DEF UpstreamStep, SendFails, HeadArrives, BodyRead, BodyFails, Respond
    <2> QED BY <2>1
  <1>3. CASE ClientStep(c)
    BY <1>3 DEF ClientStep, Arrive, Delivered, Disconnect, Forget
  <1> QED BY <1>1, <1>2, <1>3

\* A step of a client keeps its own knowledge consistent.
LEMMA OwnStepConsistent ==
    ASSUME ProxyTypeOK, HandlersConsistent, NEW c \in Client,
           HandlerStep(c) \/ UpstreamStep(c) \/ ClientStep(c)
    PROVE  ClientConsistent(c)'
  <1>1. ClientConsistent(c)
    BY DEF HandlersConsistent, ClientConsistent
  <1> USE RequestAssumption, UnresolvedAssumption DEF ProxyTypeOK, ClientConsistent
  <1>2. CASE ListModels(c)
    BY <1>1, <1>2 DEF ListModels, HasLock, Respond
  <1>3. CASE ResolveKnown(c)
    <2>1. request[c] \in ChatRequest /\ Lookup(request[c].slug) \in Route
      BY <1>3, RequestedSlug
      DEF ResolveKnown, HasLock, Lookup, CheckerTypeOK, RegistryTypeOK
    <2> QED BY <1>1, <1>3, <2>1 DEF ResolveKnown
  <1>4. CASE ResolveUnknown(c)
    BY <1>1, <1>4 DEF ResolveUnknown, HasLock, Respond
  <1>5. CASE SendFails(c) \/ BodyRead(c) \/ BodyFails(c)
    BY <1>1, <1>5 DEF SendFails, BodyRead, BodyFails, Respond
  <1>6. CASE \E success \in BOOLEAN : HeadArrives(c, success)
    BY <1>1, <1>6 DEF HeadArrives
  <1>7. CASE \E r \in ChatRequest \cup {ListRequest} : Arrive(c, r)
    BY <1>1, <1>7 DEF Arrive
  <1>8. CASE Delivered(c) \/ Disconnect(c)
    BY <1>8 DEF Delivered, Disconnect, Forget
  <1> QED
    BY <1>2, <1>3, <1>4, <1>5, <1>6, <1>7, <1>8
    DEF HandlerStep, UpstreamStep, ClientStep

\* The published index is the current one except during a rebuild.
LEMMA PublishedStep ==
    ASSUME checker # "discovery" => published = hashIndex, PassExclusive,
           RefreshStep
    PROVE  checker' # "discovery" => published' = hashIndex'
  <1>1. CASE FinishPass
    BY <1>1 DEF FinishPass, EndDiscovery, RefreshStep
  <1>2. CASE Tick \/ StopChecker
    BY <1>2 DEF Tick, StopChecker, RefreshStep, registryVars
  <1>3. CASE StartPass
    BY <1>3 DEF StartPass, BeginHealthCheck, RefreshStep
  <1>4. CASE Probe
    BY <1>4 DEF Probe, ProbeAnswered, RefreshStep, checkerVars
  <1>5. CASE FinishHealthCheck
    BY <1>5 DEF FinishHealthCheck, EndHealthCheck, RefreshStep
  <1>6. CASE StartDiscovery \/ Discover
    BY <1>6 DEF StartDiscovery, Discover, checkerVars
  <1> QED
    BY <1>1, <1>2, <1>3, <1>4, <1>5, <1>6 DEF RefreshStep, CheckerNext, PassStep

\* Every step keeps the handlers consistent.
LEMMA StepKeepsConsistent ==
    ASSUME ProxyTypeOK, HandlersConsistent, PassExclusive, [ProxyNext]_vars
    PROVE  HandlersConsistent'
  <1>1. CASE RefreshStep
    <2>1. checker' # "discovery" => published' = hashIndex'
      BY <1>1, PublishedStep DEF HandlersConsistent
    <2> QED BY <1>1, <2>1 DEF RefreshStep, HandlersConsistent
  <1>2. CASE \E c \in Client : HandlerStep(c) \/ UpstreamStep(c) \/ ClientStep(c)
    <2>1. PICK c \in Client : HandlerStep(c) \/ UpstreamStep(c) \/ ClientStep(c)
      BY <1>2
    <2>2. \A d \in Client \ {c} : ClientConsistent(d)'
      BY <2>1, OtherClients DEF HandlersConsistent, ClientConsistent
    <2>3. ClientConsistent(c)'
      BY <2>1, OwnStepConsistent
    <2>4. UNCHANGED <<checker, published, hashIndex>>
      BY <2>1, RequestStepFrame DEF checkerVars, registryVars
    <2> QED BY <2>2, <2>3, <2>4 DEF HandlersConsistent, ClientConsistent
  <1>3. CASE UNCHANGED vars
    BY <1>3 DEF vars, registryVars, checkerVars, proxyVars, HandlersConsistent
  <1> QED BY <1>1, <1>2, <1>3 DEF ProxyNext

ProxyInv == ProxyTypeOK /\ HandlersConsistent

\* The composition is type-correct, and every handler's knowledge is
\* consistent with where it is; the two are inductive together.
LEMMA ProxyInvariant == ProxySpec => [](ProxyTypeOK /\ HandlersConsistent)
  <1>1. ProxyInit => ProxyInv
    <2> SUFFICES ASSUME ProxyInit PROVE ProxyInv
      OBVIOUS
    <2>1. RegistryTypeOK
      BY EndpointsAssumption
      DEF ProxyInit, CheckerInit, RegistryInit, RegistryTypeOK, NoModelIndex,
          NoHashIndex, Endpoint
    <2>2. CheckerTypeOK
      BY <2>1, CheckerAssumption
      DEF ProxyInit, CheckerInit, MutexInit, CheckerTypeOK, CheckerState, MutexTypeOK
    <2>3. published = hashIndex
      BY DEF ProxyInit, CheckerInit, RegistryInit
    <2> QED
      BY <2>1, <2>2, <2>3, RequestAssumption, UnresolvedAssumption
      DEF ProxyInit, ProxyInv, ProxyTypeOK, HandlersConsistent, HandlerState,
          Response, RegistryTypeOK
  <1>2. ProxyInv /\ PassExclusive /\ RegistryTypeOK' /\ [ProxyNext]_vars => ProxyInv'
    <2> SUFFICES ASSUME ProxyInv, PassExclusive, RegistryTypeOK', [ProxyNext]_vars
                 PROVE  ProxyTypeOK'
      BY StepKeepsConsistent DEF ProxyInv
    <2>1. CASE RefreshStep
      BY <2>1, RefreshKeepsTypes DEF ProxyInv
    <2>2. CASE \E c \in Client : HandlerStep(c) \/ UpstreamStep(c) \/ ClientStep(c)
      BY <2>2, RequestKeepsTypes DEF ProxyInv
    <2>3. CASE UNCHANGED vars
      BY <2>3
      DEF vars, registryVars, mutexVars, checkerVars, proxyVars, ProxyInv,
          ProxyTypeOK, CheckerTypeOK, RegistryTypeOK, MutexTypeOK
    <2> QED BY <2>1, <2>2, <2>3 DEF ProxyNext
  <1>3. ProxySpec => [](RegistryTypeOK /\ PassExclusive)
    BY RegistryInvariants, PassAlwaysExclusive, PTL
  <1>4. ProxySpec => []ProxyInv
    BY <1>1, <1>2, <1>3, PTL DEF ProxySpec
  <1> QED BY <1>4, PTL DEF ProxyInv

\* The composition is type-correct.
THEOREM ProxyTypeCorrect == ProxySpec => []ProxyTypeOK
  BY ProxyInvariant, PTL

-----------------------------------------------------------------------------
(* Resolution.                                                             *)

\* Whoever resolves a slug holds the lock, so no pass is running.
LEMMA ResolveBetweenPasses ==
    ASSUME PassExclusive, NEW c \in Client, HasLock(c)
    PROVE  checker \notin {"health", "checked", "discovery"}
  BY NobodyAssumption, CheckerAssumption, ClientAssumption DEF PassExclusive, HasLock

\* A waiting handler's target changes only when it resolves its slug.
LEMMA TargetChange ==
    ASSUME ProxyInv, NEW c \in Client, ProxyNext,
           pc[c] = "locking", target'[c] # target[c]
    PROVE  ResolveKnown(c) \/ ResolveUnknown(c)
  <1>1. PICK d \in Client : HandlerStep(d) \/ UpstreamStep(d) \/ ClientStep(d)
    BY DEF ProxyNext, RefreshStep
  <1>2. d = c
    BY <1>1, OtherClients DEF ProxyInv
  <1>3. target[c] = Unresolved
    BY DEF ProxyInv, HandlersConsistent
  <1>4. CASE HandlerStep(c)
    BY <1>4 DEF HandlerStep, ListModels
  <1>5. CASE UpstreamStep(c)
    BY <1>5 DEF UpstreamStep, SendFails, HeadArrives, BodyRead, BodyFails
  <1>6. CASE ClientStep(c)
    BY <1>3, <1>6 DEF ClientStep, Arrive, Delivered, Disconnect, Forget,
                      ProxyInv, ProxyTypeOK
  <1> QED BY <1>1, <1>2, <1>4, <1>5, <1>6

\* A slug is resolved only to an endpoint that is healthy and advertises the
\* model at that moment, and refused only if the index knows nobody for it.
THEOREM ResolutionAlwaysSound == ProxySpec => ResolutionSound
  <1> DEFINE Safe == /\ ProxyInv /\ PassExclusive /\ RoutesSound
                     /\ LastAdvertiserWins /\ RoutesHealthy
  <1>1. Safe /\ [ProxyNext]_vars =>
            [\A c \in Client :
                pc[c] = "locking" /\ target'[c] # target[c] =>
                    IF target'[c] = NoRoute
                    THEN \A e \in Endpoint, m \in Model :
                             request[c].slug = SlugOf(e, m) => e \notin Advertisers(m)
                    ELSE /\ request[c].slug
                                = SlugOf(target'[c].endpoint, target'[c].model)
                         /\ healthy[target'[c].endpoint]
                         /\ target'[c].model \in discovered[target'[c].endpoint]]_vars
    <2> SUFFICES ASSUME Safe, ProxyNext, NEW c \in Client,
                        pc[c] = "locking", target'[c] # target[c]
                 PROVE  IF target'[c] = NoRoute
                        THEN \A e \in Endpoint, m \in Model :
                                 request[c].slug = SlugOf(e, m) => e \notin Advertisers(m)
                        ELSE /\ request[c].slug
                                    = SlugOf(target'[c].endpoint, target'[c].model)
                             /\ healthy[target'[c].endpoint]
                             /\ target'[c].model \in discovered[target'[c].endpoint]
      OBVIOUS
    <2>1. ResolveKnown(c) \/ ResolveUnknown(c)
      BY TargetChange
    <2>2. /\ HasLock(c) /\ request[c] # ListRequest
          /\ target'[c] = Lookup(request[c].slug)
      BY <2>1 DEF ResolveKnown, ResolveUnknown, ProxyInv, ProxyTypeOK
    <2>3. request[c].slug \in Slug
      BY <2>2, RequestedSlug DEF ProxyInv
    <2>4. checker \notin {"health", "checked"}
      BY <2>2, ResolveBetweenPasses
    <2>5. CASE target'[c] = NoRoute
      <3> SUFFICES ASSUME NEW e \in Endpoint, NEW m \in Model,
                          request[c].slug = SlugOf(e, m), e \in Advertisers(m)
                   PROVE  FALSE
        BY <2>5
      <3>1. e \in Sharing(e, m)
        BY DEF Sharing
      <3>2. PICK f \in Sharing(e, m) : Lookup(SlugOf(e, m)) = RouteTo(f, m)
        BY <3>1 DEF LastAdvertiserWins
      <3>3. RouteTo(f, m) \in Route
        <4>1. f \in Endpoint
          BY <3>2 DEF Sharing, Advertisers, ProxyInv, ProxyTypeOK, CheckerTypeOK,
                      RegistryTypeOK
        <4> QED BY <4>1 DEF RouteTo, Route
      <3> QED BY <2>2, <2>5, <3>2, <3>3, NoRouteAssumption
    <2>6. CASE target'[c] # NoRoute
      BY <2>2, <2>3, <2>4, <2>6 DEF Lookup, RoutesSound, RouteSound, RoutesHealthy
    <2> QED BY <2>5, <2>6
  <1>2. ProxySpec => []Safe
    BY ProxyInvariant, RegistryInvariants, PassAlwaysExclusive,
       RoutesAlwaysHealthy, PTL DEF ProxyInv
  <1> QED BY <1>1, <1>2, PTL DEF ProxySpec, ResolutionSound

-----------------------------------------------------------------------------
(* The abstract routing table.                                             *)

\* A sound index is a table the abstract specification allows.
LEMMA SoundIndexIsTable ==
    ASSUME RegistryTypeOK, RoutesSound
    PROVE  hashIndex \in Abstract!Tables
  BY DEF RegistryTypeOK, RoutesSound, RouteSound, Abstract!Tables, PermittedRoutes

\* The end of a pass replaces the table, every other step of the checker is
\* invisible.
LEMMA RefreshRefinesTable ==
    ASSUME RegistryTypeOK, RoutesSound, RefreshStep
    PROVE  [Abstract!TableNext]_(Abstract!tableVars)
  <1>1. UNCHANGED <<SlugAsked, target>>
    BY DEF RefreshStep, SlugAsked
  <1>2. CASE published' = published
    BY <1>1, <1>2 DEF Abstract!tableVars
  <1>3. CASE published' # published
    <2>1. published' = hashIndex
      BY <1>3 DEF RefreshStep
    <2>2. Abstract!Replace
      BY <1>1, <2>1, SoundIndexIsTable DEF Abstract!Replace
    <2> QED BY <2>2 DEF Abstract!TableNext
  <1> QED BY <1>2, <1>3

\* What a step of a client does to the abstract variables: it asks, is given
\* the answer of the table, leaves, or does nothing visible.
LEMMA RequestRefinesTable ==
    ASSUME ProxyInv, PassExclusive, NEW c \in Client,
           HandlerStep(c) \/ UpstreamStep(c) \/ ClientStep(c)
    PROVE  [Abstract!TableNext]_(Abstract!tableVars)
  <1>1. published' = published
    BY RequestStepFrame
  <1>2. /\ request \in [Client -> ChatRequest \cup {ListRequest, NoRequest}]
        /\ target \in [Client -> Route \cup {NoRoute, Unresolved}]
    BY DEF ProxyInv, ProxyTypeOK
  <1>3. \A r \in ChatRequest : r.slug \in Slug
    BY DEF ChatRequest
  <1>4. CASE ListModels(c) \/ UpstreamStep(c)
    <2>1. UNCHANGED <<request, target>>
      BY <1>4 DEF ListModels, UpstreamStep, SendFails, HeadArrives, BodyRead, BodyFails
    <2> QED BY <1>1, <2>1 DEF Abstract!tableVars, SlugAsked
  <1>5. CASE ResolveKnown(c) \/ ResolveUnknown(c)
    <2>1. /\ HasLock(c) /\ request[c] # ListRequest /\ request' = request
          /\ target' = [target EXCEPT ![c] = Lookup(request[c].slug)]
      BY <1>5, <1>2 DEF ResolveKnown, ResolveUnknown
    <2>2. published = hashIndex
      BY <2>1, ResolveBetweenPasses DEF ProxyInv, HandlersConsistent
    <2>3. request[c] \in ChatRequest /\ target[c] = Unresolved
      BY <2>1, RequestedSlug DEF ProxyInv, HandlersConsistent, HasLock
    <2>4. SlugAsked' = SlugAsked /\ SlugAsked[c] = request[c].slug
      BY <2>1, <2>3 DEF SlugAsked
    <2>5. SlugAsked[c] # NoRequest
      BY <1>3, <2>3, <2>4, RequestAssumption
    <2>6. Abstract!Give(c)
      BY <1>1, <2>1, <2>2, <2>3, <2>4, <2>5 DEF Abstract!Give, Lookup
    <2> QED BY <2>6 DEF Abstract!TableNext
  <1>6. CASE \E r \in ChatRequest \cup {ListRequest} : Arrive(c, r)
    <2>1. PICK r \in ChatRequest \cup {ListRequest} : Arrive(c, r)
      BY <1>6
    <2>2. /\ request' = [request EXCEPT ![c] = r] /\ target' = target
          /\ request[c] = NoRequest
      BY <2>1 DEF Arrive, ProxyInv, HandlersConsistent
    <2>3. CASE r \in ChatRequest
      <3>1. SlugAsked' = [SlugAsked EXCEPT ![c] = r.slug]
        BY <1>2, <2>2, <2>3 DEF SlugAsked
      <3>2. SlugAsked[c] = NoRequest
        BY <2>2, RequestAssumption DEF SlugAsked
      <3>3. Abstract!Ask(c, r.slug) /\ r.slug \in Slug
        BY <1>1, <1>3, <2>2, <2>3, <3>1, <3>2 DEF Abstract!Ask
      <3> QED BY <3>3 DEF Abstract!TableNext
    <2>4. CASE r = ListRequest
      <3>1. SlugAsked' = SlugAsked
        BY <1>2, <2>2, <2>4, RequestAssumption DEF SlugAsked
      <3> QED BY <1>1, <2>2, <3>1 DEF Abstract!tableVars
    <2> QED BY <2>3, <2>4
  <1>7. CASE Delivered(c) \/ Disconnect(c)
    <2>1. /\ request' = [request EXCEPT ![c] = NoRequest]
          /\ target' = [target EXCEPT ![c] = Unresolved]
      BY <1>7 DEF Delivered, Disconnect, Forget
    <2>2. SlugAsked' = [SlugAsked EXCEPT ![c] = NoRequest]
      BY <1>2, <2>1, RequestAssumption DEF SlugAsked
    <2>3. CASE SlugAsked[c] # NoRequest
      <3>1. Abstract!Leave(c)
        BY <1>1, <2>1, <2>2, <2>3 DEF Abstract!Leave
      <3> QED BY <3>1 DEF Abstract!TableNext
    <2>4. CASE SlugAsked[c] = NoRequest
      <3>1. request[c] \notin ChatRequest
        BY <1>3, <2>4, RequestAssumption DEF SlugAsked
      <3>2. target[c] = Unresolved
        BY <1>2, <3>1 DEF ProxyInv, HandlersConsistent
      <3>3. target' = target
        BY <1>2, <2>1, <3>2
      <3>4. SlugAsked' = SlugAsked
        BY <2>2, <2>4 DEF SlugAsked
      <3> QED BY <1>1, <3>3, <3>4 DEF Abstract!tableVars
    <2> QED BY <2>3, <2>4
  <1> QED BY <1>4, <1>5, <1>6, <1>7 DEF HandlerStep, ClientStep

\* Together, the checker and the handlers are a table replaced as a whole: no
\* request is answered from an index that is being rebuilt.
THEOREM ProxyRefinesTable == ProxySpec => ImplementsRoutingTable
  <1>1. ProxyInit => Abstract!TableInit
    BY RequestAssumption
    DEF ProxyInit, Abstract!TableInit, SlugAsked, NoHashIndex
  <1>2. ProxyInv /\ PassExclusive /\ RegistryTypeOK /\ RoutesSound /\ [ProxyNext]_vars
            => [Abstract!TableNext]_(Abstract!tableVars)
    <2>1. CASE UNCHANGED vars
      BY <2>1 DEF vars, proxyVars, Abstract!tableVars, SlugAsked
    <2> QED BY <2>1, RefreshRefinesTable, RequestRefinesTable DEF ProxyNext
  <1>3. ProxySpec => [](ProxyInv /\ PassExclusive /\ RegistryTypeOK /\ RoutesSound)
    BY ProxyInvariant, PassAlwaysExclusive, RegistryInvariants, PTL DEF ProxyInv
  <1> QED
    BY <1>1, <1>2, <1>3, PTL DEF ProxySpec, ImplementsRoutingTable, Abstract!TableSpec

-----------------------------------------------------------------------------
(* The queue of the lock.                                                  *)

\* The tasks in lock().await: those that wait and the one that was handed the
\* lock and has not run since.
Waiting == {c \in Client : pc[c] = "locking"}
              \cup (IF checker = "waiting" THEN {Checker} ELSE {})

\* The task whose guard lives across awaits: the checker in a pass.
InPass == IF checker \in {"health", "checked", "discovery"} THEN {Checker} ELSE {}

\* The strengthening of QueueMatchesTasks: the lock is held by a task that
\* knows of it.
QueueInv ==
    /\ QueuedOnce
    /\ Queued = Waiting \ {holder}
    /\ holder = Nobody => Queued = {}
    /\ holder \in Waiting \cup InPass \cup {Nobody}

\* A task that asks for the lock and neither waits nor holds it.
LEMMA AskKeepsQueue ==
    ASSUME QueueInv, MutexTypeOK, NEW task \in Task, task \notin Waiting,
           holder # task, LockBy(task), Waiting' = Waiting \cup {task},
           InPass' = InPass
    PROVE  QueueInv'
  <1>1. task \notin Queued /\ task # Nobody
    BY NobodyAssumption DEF QueueInv
  <1>2. /\ QueuedOnce'
        /\ IF holder = Nobody
           THEN holder' = task /\ Queued' = Queued
           ELSE holder' = holder /\ Queued' = Queued \cup {task}
    BY <1>1, LockByQueue DEF QueueInv
  <1>3. CASE holder = Nobody
    <2>1. Waiting \ {holder} = {}
      BY <1>3 DEF QueueInv
    <2>2. Nobody \notin Waiting
      BY NobodyAssumption, CheckerAssumption, ClientAssumption DEF Waiting
    <2> QED BY <1>1, <1>2, <1>3, <2>1, <2>2 DEF QueueInv
  <1>4. CASE holder # Nobody
    BY <1>1, <1>2, <1>4 DEF QueueInv
  <1> QED BY <1>3, <1>4

\* The holder gives the lock back.
LEMMA ReleaseKeepsQueue ==
    ASSUME QueueInv, MutexTypeOK, Unlock, Waiting' = Waiting \ {holder}
    PROVE  QueueInv'
  <1>1. /\ QueuedOnce'
        /\ Queued' = Queued \ {holder'}
        /\ IF Queued = {} THEN holder' = Nobody ELSE holder' \in Queued
    BY UnlockQueue DEF QueueInv
  <1>2. Waiting' = Queued
    BY DEF QueueInv
  <1>3. holder' \in Queued => holder' # Nobody
    BY <1>2, NobodyAssumption, CheckerAssumption, ClientAssumption DEF QueueInv, Waiting
  <1>4. Queued' = Waiting' \ {holder'}
    BY <1>1, <1>2
  <1>5. holder' = Nobody => Queued' = {}
    BY <1>1, <1>3
  <1>6. holder' \in Waiting' \cup InPass' \cup {Nobody}
    BY <1>1, <1>2
  <1> QED BY <1>1, <1>4, <1>5, <1>6 DEF QueueInv

\* A task that waits for another to give the lock back is dropped.
LEMMA DropKeepsQueue ==
    ASSUME QueueInv, MutexTypeOK, NEW task \in Task, Abandon(task),
           holder # task, Waiting' = Waiting \ {task}, InPass' = InPass
    PROVE  QueueInv'
  BY AbandonQueue DEF QueueInv

\* A step that leaves the mutex and the tasks in lock().await alone.
LEMMA OtherKeepsQueue ==
    ASSUME QueueInv, UNCHANGED mutexVars, Waiting' = Waiting, InPass \subseteq InPass'
    PROVE  QueueInv'
  <1>1. holder' = holder /\ Queued' = Queued /\ (QueuedOnce => QueuedOnce')
    BY DEF mutexVars, Queued, QueuedOnce
  <1> QED BY <1>1 DEF QueueInv

\* The checker waits, holds the lock through a pass, and gives it back.
LEMMA RefreshKeepsQueue ==
    ASSUME ProxyInv, PassExclusive, QueueInv, RefreshStep
    PROVE  QueueInv'
  <1> USE DEF Waiting, InPass
  <1>1. /\ pc' = pc /\ Checker \notin Client /\ Checker # Nobody
        /\ MutexTypeOK
    BY CheckerAssumption, ClientAssumption, NobodyAssumption
    DEF RefreshStep, ProxyInv, ProxyTypeOK, CheckerTypeOK
  <1>2. CASE Tick
    <2>1. Checker \notin Waiting /\ holder # Checker
      BY <1>1, <1>2 DEF Tick, QueueInv
    <2>2. Waiting' = Waiting \cup {Checker} /\ InPass' = InPass
      BY <1>1, <1>2 DEF Tick
    <2> HIDE DEF Waiting, InPass
    <2> QED BY <1>1, <1>2, <2>1, <2>2, AskKeepsQueue, CheckerAssumption DEF Tick
  <1>3. CASE StartPass
    BY <1>1, <1>3 DEF StartPass, QueueInv, mutexVars, Queued, QueuedOnce
  <1>4. CASE Probe \/ FinishHealthCheck \/ StartDiscovery \/ Discover
    <2>1. UNCHANGED mutexVars /\ Waiting' = Waiting /\ InPass \subseteq InPass'
      BY <1>1, <1>4
      DEF Probe, FinishHealthCheck, StartDiscovery, Discover, checkerVars
    <2> QED BY <2>1, OtherKeepsQueue
  <1>5. CASE FinishPass
    <2>1. Waiting' = Waiting \ {holder}
      BY <1>1, <1>5 DEF FinishPass, PassExclusive
    <2> HIDE DEF Waiting, InPass
    <2> QED BY <1>1, <1>5, <2>1, ReleaseKeepsQueue DEF FinishPass
  <1>6. CASE StopChecker
    <2>1. UNCHANGED mutexVars /\ Waiting' = Waiting /\ InPass \subseteq InPass'
      BY <1>1, <1>6 DEF StopChecker
    <2> QED BY <2>1, OtherKeepsQueue
  <1> QED
    BY <1>2, <1>3, <1>4, <1>5, <1>6 DEF RefreshStep, CheckerNext, PassStep

\* A handler asks, resolves and lets go, or is dropped where it waits.
LEMMA RequestKeepsQueue ==
    ASSUME ProxyInv, QueueInv, NEW c \in Client,
           HandlerStep(c) \/ UpstreamStep(c) \/ ClientStep(c)
    PROVE  QueueInv'
  <1>1. /\ c \in Task /\ c # Checker /\ c # Nobody /\ MutexTypeOK
        /\ pc \in [Client -> HandlerState]
        /\ checker' = checker
        /\ InPass' = InPass
    BY CheckerAssumption, ClientAssumption, NobodyAssumption, RequestStepFrame
    DEF ProxyInv, ProxyTypeOK, CheckerTypeOK, checkerVars, InPass
  <1>2. c \in Waiting <=> pc[c] = "locking"
    BY <1>1 DEF Waiting
  <1>3. CASE HandlerStep(c)
    <2>1. holder = c /\ Unlock
      BY <1>3 DEF HandlerStep, ListModels, ResolveKnown, ResolveUnknown, HasLock
    <2>2. Waiting' = Waiting \ {c}
      BY <1>1, <1>3
      DEF HandlerStep, ListModels, ResolveKnown, ResolveUnknown, Respond, Waiting
    <2> QED BY <1>1, <2>1, <2>2, ReleaseKeepsQueue
  <1>4. CASE UpstreamStep(c)
    <2>1. /\ UNCHANGED mutexVars /\ pc[c] # "locking"
          /\ \E state \in HandlerState \ {"locking"} : pc' = [pc EXCEPT ![c] = state]
      BY <1>4
      DEF UpstreamStep, SendFails, HeadArrives, BodyRead, BodyFails, Respond, HandlerState
    <2>2. Waiting' = Waiting
      BY <1>1, <2>1 DEF Waiting
    <2> QED BY <1>1, <2>1, <2>2, OtherKeepsQueue
  <1>5. CASE \E r \in ChatRequest \cup {ListRequest} : Arrive(c, r)
    <2>1. /\ pc[c] = "idle" /\ pc' = [pc EXCEPT ![c] = "locking"] /\ LockBy(c)
      BY <1>5 DEF Arrive
    <2>2. holder # c
      BY <1>1, <1>2, <2>1 DEF QueueInv, InPass
    <2>3. Waiting' = Waiting \cup {c}
      BY <1>1, <2>1 DEF Waiting
    <2> QED BY <1>1, <1>2, <2>1, <2>2, <2>3, AskKeepsQueue
  <1>6. CASE Delivered(c)
    <2>1. /\ pc[c] # "locking" /\ pc' = [pc EXCEPT ![c] = "idle"]
          /\ UNCHANGED mutexVars
      BY <1>6 DEF Delivered, Forget
    <2>2. Waiting' = Waiting
      BY <1>1, <2>1 DEF Waiting
    <2> QED BY <1>1, <2>1, <2>2, OtherKeepsQueue
  <1>7. CASE Disconnect(c)
    <2>1. pc' = [pc EXCEPT ![c] = "idle"]
      BY <1>7 DEF Disconnect, Forget
    <2>2. Waiting' = Waiting \ {c}
      BY <1>1, <2>1 DEF Waiting
    <2>3. CASE pc[c] = "locking" /\ holder = c
      <3>1. Unlock
        BY <1>7, <2>3 DEF Disconnect, Abandon
      <3> QED BY <1>1, <2>2, <2>3, <3>1, ReleaseKeepsQueue
    <2>4. CASE pc[c] = "locking" /\ holder # c
      BY <1>1, <1>7, <2>2, <2>4, DropKeepsQueue DEF Disconnect
    <2>5. CASE pc[c] # "locking"
      BY <1>1, <1>2, <1>7, <2>2, <2>5, OtherKeepsQueue DEF Disconnect
    <2> QED BY <2>3, <2>4, <2>5
  <1> QED BY <1>3, <1>4, <1>5, <1>6, <1>7 DEF ClientStep

\* In every state the queue holds each task in lock().await once, but for the
\* one that was handed the lock, and no other: neither a dropped handler nor
\* one that returned leaves anything behind in it.
THEOREM QueueAlwaysMatches == ProxySpec => []QueueMatchesTasks
  <1>1. ProxyInit => QueueInv
    BY CheckerAssumption, NobodyAssumption
    DEF ProxyInit, CheckerInit, MutexInit, QueueInv, Queued, QueuedOnce, Waiting, InPass
  <1>2. ProxyInv /\ PassExclusive /\ QueueInv /\ [ProxyNext]_vars => QueueInv'
    <2> SUFFICES ASSUME ProxyInv, PassExclusive, QueueInv, [ProxyNext]_vars
                 PROVE  QueueInv'
      OBVIOUS
    <2>1. CASE UNCHANGED vars
      BY <2>1, OtherKeepsQueue DEF vars, checkerVars, proxyVars, Waiting, InPass
    <2> QED BY <2>1, RefreshKeepsQueue, RequestKeepsQueue DEF ProxyNext
  <1>3. QueueInv => QueueMatchesTasks
    <2> SUFFICES ASSUME QueueInv PROVE QueueMatchesTasks
      OBVIOUS
    <2>1. holder \in Client => pc[holder] = "locking"
      BY CheckerAssumption, ClientAssumption, NobodyAssumption
      DEF QueueInv, Waiting, InPass
    <2> QED BY <2>1 DEF QueueInv, Queued, QueuedOnce, Waiting, QueueMatchesTasks
  <1>4. ProxySpec => [](ProxyInv /\ PassExclusive)
    BY ProxyInvariant, PassAlwaysExclusive, PTL DEF ProxyInv
  <1> QED BY <1>1, <1>2, <1>3, <1>4, PTL DEF ProxySpec

-----------------------------------------------------------------------------
(* The metrics.                                                            *)

\* The response a metric event stands for.
ResponseOf(metric) ==
    CASE metric = "end_success" -> "ok"
      [] metric = "end_failure" -> "upstream_failure"
      [] metric = "hashed_model_not_found" -> "bad_request"
      [] OTHER -> "bad_gateway"

\* The part of MetricsMatchResponses about one client, with its
\* strengthening: a handler that reads the body holds the upstream's status.
ClientMetrics(c) ==
    /\ IF pc[c] \in {"answered", "streaming"}
       THEN Len(recorded[c]) = 1 /\ response[c] = ResponseOf(recorded[c][1])
       ELSE recorded[c] = <<>>
    /\ pc[c] = "body" => response[c] \in {"ok", "upstream_failure"}

\* A handler that has recorded nothing returns with one event that fits.
LEMMA RespondMetrics ==
    ASSUME ProxyTypeOK, NEW c \in Client, recorded[c] = <<>>,
           NEW metric \in Metric, Respond(c, ResponseOf(metric), metric)
    PROVE  ClientMetrics(c)'
  <1>1. /\ pc'[c] = "answered" /\ response'[c] = ResponseOf(metric)
        /\ recorded'[c] = Append(<<>>, metric)
    BY DEF Respond, ProxyTypeOK
  <1> QED BY <1>1 DEF ClientMetrics

\* A step of one client leaves what the others were told alone.
LEMMA OtherClientsMetrics ==
    ASSUME ProxyTypeOK, NEW c \in Client, NEW d \in Client \ {c}, ClientMetrics(d),
           HandlerStep(c) \/ UpstreamStep(c) \/ ClientStep(c)
    PROVE  ClientMetrics(d)'
  <1> USE DEF ProxyTypeOK
  <1>1. CASE HandlerStep(c)
    BY <1>1 DEF HandlerStep, ListModels, ResolveKnown, ResolveUnknown, Respond,
                ClientMetrics
  <1>2. CASE UpstreamStep(c)
    <2>1. UNCHANGED <<pc[d], response[d], recorded[d]>>
      BY <1>2 DEF UpstreamStep, SendFails, HeadArrives, BodyRead, BodyFails, Respond
    <2> QED BY <2>1 DEF ClientMetrics
  <1>3. CASE ClientStep(c)
    BY <1>3 DEF ClientStep, Arrive, Delivered, Disconnect, Forget, ClientMetrics
  <1> QED BY <1>1, <1>2, <1>3

\* Every path of a handler records one event, and the right one.
LEMMA OwnStepMetrics ==
    ASSUME ProxyTypeOK, NEW c \in Client, ClientMetrics(c),
           HandlerStep(c) \/ UpstreamStep(c) \/ ClientStep(c)
    PROVE  ClientMetrics(c)'
  <1>1. /\ pc[c] \notin {"answered", "streaming"} => recorded[c] = <<>>
        /\ pc[c] = "body" => response[c] \in {"ok", "upstream_failure"}
    BY DEF ClientMetrics
  <1>2. CASE ListModels(c)
    BY <1>1, <1>2, RespondMetrics DEF ListModels, HasLock, ResponseOf, Metric
  <1>3. CASE ResolveKnown(c)
    BY <1>1, <1>3 DEF ResolveKnown, HasLock, ClientMetrics, ProxyTypeOK
  <1>4. CASE ResolveUnknown(c)
    BY <1>1, <1>4, RespondMetrics DEF ResolveUnknown, HasLock, ResponseOf, Metric
  <1>5. CASE SendFails(c)
    BY <1>1, <1>5, RespondMetrics DEF SendFails, ResponseOf, Metric
  <1>6. CASE \E success \in BOOLEAN : HeadArrives(c, success)
    <2>1. PICK success \in BOOLEAN : HeadArrives(c, success)
      BY <1>6
    <2>2. /\ recorded[c] = <<>>
          /\ response'[c] = StatusResponse(success)
          /\ StatusResponse(success) \in {"ok", "upstream_failure"}
          /\ StatusResponse(success) = ResponseOf(StatusMetric(success))
      BY <1>1, <2>1
      DEF HeadArrives, StatusResponse, StatusMetric, ResponseOf, ProxyTypeOK
    <2>3. \/ pc'[c] = "streaming" /\ recorded'[c] = Append(<<>>, StatusMetric(success))
          \/ pc'[c] = "body" /\ recorded'[c] = <<>>
      BY <2>1, <2>2 DEF HeadArrives, ProxyTypeOK
    <2>4. Len(Append(<<>>, StatusMetric(success))) = 1
          /\ Append(<<>>, StatusMetric(success))[1] = StatusMetric(success)
      OBVIOUS
    <2>5. CASE pc'[c] = "streaming" /\ recorded'[c] = Append(<<>>, StatusMetric(success))
      BY <2>2, <2>4, <2>5 DEF ClientMetrics
    <2>6. CASE pc'[c] = "body" /\ recorded'[c] = <<>>
      BY <2>2, <2>6 DEF ClientMetrics
    <2> QED BY <2>3, <2>5, <2>6
  <1>7. CASE BodyRead(c)
    <2>1. response[c] = ResponseOf(StatusMetric(response[c] = "ok"))
      BY <1>1, <1>7 DEF BodyRead, ResponseOf, StatusMetric
    <2>2. StatusMetric(response[c] = "ok") \in Metric /\ recorded[c] = <<>>
      BY <1>1, <1>7 DEF BodyRead, StatusMetric, Metric
    <2>3. Respond(c, ResponseOf(StatusMetric(response[c] = "ok")),
                  StatusMetric(response[c] = "ok"))
      BY <1>7, <2>1 DEF BodyRead
    <2> QED BY <2>2, <2>3, RespondMetrics
  <1>8. CASE BodyFails(c)
    BY <1>1, <1>8, RespondMetrics DEF BodyFails, ResponseOf, Metric
  <1>9. CASE \E r \in ChatRequest \cup {ListRequest} : Arrive(c, r)
    BY <1>1, <1>9 DEF Arrive, ClientMetrics, ProxyTypeOK
  <1>10. CASE Delivered(c) \/ Disconnect(c)
    BY <1>10 DEF Delivered, Disconnect, Forget, ClientMetrics, ProxyTypeOK
  <1> QED
    BY <1>2, <1>3, <1>4, <1>5, <1>6, <1>7, <1>8, <1>9, <1>10
    DEF HandlerStep, UpstreamStep, ClientStep

\* Whatever the upstream does and whenever the client leaves, a response that
\* was returned has one metric event and it is the one for that response; a
\* request without a response has none.
THEOREM MetricsAlwaysMatch == ProxySpec => []MetricsMatchResponses
  <1> DEFINE Inv == \A c \in Client : ClientMetrics(c)
  <1>1. ProxyInit => Inv
    BY DEF ProxyInit, ClientMetrics
  <1>2. ProxyTypeOK /\ Inv /\ [ProxyNext]_vars => Inv'
    <2> SUFFICES ASSUME ProxyTypeOK, Inv, [ProxyNext]_vars, NEW c \in Client
                 PROVE  ClientMetrics(c)'
      OBVIOUS
    <2>1. CASE UNCHANGED <<pc, response, recorded>>
      BY <2>1 DEF ClientMetrics
    <2>2. CASE \E d \in Client : HandlerStep(d) \/ UpstreamStep(d) \/ ClientStep(d)
      BY <2>2, OtherClientsMetrics, OwnStepMetrics
    <2> QED BY <2>1, <2>2 DEF ProxyNext, RefreshStep, vars, proxyVars
  <1>3. Inv => MetricsMatchResponses
    BY DEF ClientMetrics, ResponseOf, MetricsMatchResponses
  <1> QED BY <1>1, <1>2, <1>3, ProxyTypeCorrect, PTL DEF ProxySpec
=============================================================================
