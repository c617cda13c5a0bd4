------------------------------- MODULE Proxy -------------------------------
(***************************************************************************)
(* The HTTP handlers of crate labman-proxy, each request a task of its     *)
(* own, over the registry the health checker refreshes.                    *)
(*                                                                         *)
(* A handler keeps the registry locked only while it looks a slug up; it   *)
(* forwards to what it found after the lock is gone.  hyper drops the      *)
(* handler's future at its current await when the client disconnects.  The *)
(* module covers the daemon while its servers run: the end of the process  *)
(* drops every task at once.                                               *)
(***************************************************************************)
EXTENDS HealthChecker

CONSTANTS
    Client,         \* connections, each with one request at a time
    NoRequest,      \* the connection has no request
    ListRequest,    \* GET /v1/models
    Unresolved      \* the handler has not looked its slug up

ASSUME ClientAssumption == Client \subseteq Task \ {Checker}
ASSUME UnresolvedAssumption == Unresolved \notin Route \cup {NoRoute}

\* POST /v1/chat/completions, with the fields of the body the handler reads.
ChatRequest == [slug : Slug, stream : BOOLEAN]

ASSUME RequestAssumption == /\ NoRequest \notin ChatRequest
                            /\ ListRequest \notin ChatRequest
                            /\ NoRequest # ListRequest
                            /\ NoRequest \notin Slug

VARIABLES
    request,    \* the request being served, per client
    pc,         \* where its handler is, see HandlerState
    target,     \* what the slug resolved to
    response,   \* what the client got, see Response
    recorded,   \* the metric events recorded for the request
    published   \* history: the hash index when the last pass ended

proxyVars == <<request, pc, target, response, recorded, published>>
vars == <<registryVars, mutexVars, checkerVars, proxyVars>>

\* The awaits of the handlers; in "streaming" the handler has returned and
\* hyper pulls the body from the upstream.
HandlerState == {"idle", "locking", "sending", "body", "streaming", "answered"}
Response == {"none", "ok", "upstream_failure", "bad_request", "bad_gateway"}
Metric == {"end_success", "end_failure", "hashed_model_not_found",
           "upstream_request_error", "upstream_body_read_error"}

ProxyInit ==
    /\ CheckerInit
    /\ request = [c \in Client |-> NoRequest]
    /\ pc = [c \in Client |-> "idle"]
    /\ target = [c \in Client |-> Unresolved]
    /\ response = [c \in Client |-> "none"]
    /\ recorded = [c \in Client |-> <<>>]
    /\ published = NoHashIndex

-----------------------------------------------------------------------------

\* A request arrives for one of the handlers, its body parsed; the first
\* await of both is the lock.
Arrive(c, r) ==
    /\ server = "up"
    /\ pc[c] = "idle"
    /\ request' = [request EXCEPT ![c] = r]
    /\ pc' = [pc EXCEPT ![c] = "locking"]
    /\ LockBy(c)
    /\ UNCHANGED <<registryVars, checkerVars, target, response, recorded, published>>

HasLock(c) == pc[c] = "locking" /\ holder = c

\* The handler returns to the client: the response and its one metric.
Respond(c, resp, metric) ==
    /\ pc' = [pc EXCEPT ![c] = "answered"]
    /\ response' = [response EXCEPT ![c] = resp]
    /\ recorded' = [recorded EXCEPT ![c] = Append(@, metric)]

\* get_models.
ListModels(c) ==
    /\ HasLock(c)
    /\ request[c] = ListRequest
    /\ Unlock
    /\ Respond(c, "ok", "end_success")
    /\ UNCHANGED <<registryVars, checkerVars, request, target, published>>

\* Mutant of ResolveKnown: the guard lives until the handler returns.
ResolveKnownKeepsLock(c) ==
    /\ HasLock(c)
    /\ request[c] # ListRequest
    /\ Lookup(request[c].slug) # NoRoute
    /\ target' = [target EXCEPT ![c] = Lookup(request[c].slug)]
    /\ pc' = [pc EXCEPT ![c] = "sending"]
    /\ UNCHANGED <<registryVars, mutexVars, checkerVars, request, response, recorded, published>>

\* post_chat_completions looks the slug up and releases the lock.
ResolveKnown(c) ==
    /\ HasLock(c)
    /\ request[c] # ListRequest
    /\ Lookup(request[c].slug) # NoRoute
    /\ target' = [target EXCEPT ![c] = Lookup(request[c].slug)]
    /\ pc' = [pc EXCEPT ![c] = "sending"]
    /\ Unlock
    /\ UNCHANGED <<registryVars, checkerVars, request, response, recorded, published>>

\* Mutant of ResolveUnknown: the early return leaks the guard.
ResolveUnknownKeepsLock(c) ==
    /\ HasLock(c)
    /\ request[c] # ListRequest
    /\ Lookup(request[c].slug) = NoRoute
    /\ target' = [target EXCEPT ![c] = NoRoute]
    /\ Respond(c, "bad_request", "hashed_model_not_found")
    /\ UNCHANGED <<registryVars, mutexVars, checkerVars, request, published>>

\* There is no mapping.  (The other 400, a mapping to an endpoint that is not
\* configured, cannot happen: RegistryTypeOK.)
ResolveUnknown(c) ==
    /\ HasLock(c)
    /\ request[c] # ListRequest
    /\ Lookup(request[c].slug) = NoRoute
    /\ target' = [target EXCEPT ![c] = NoRoute]
    /\ Unlock
    /\ Respond(c, "bad_request", "hashed_model_not_found")
    /\ UNCHANGED <<registryVars, checkerVars, request, published>>

\* send().await returns an error.
SendFails(c) ==
    /\ pc[c] = "sending"
    /\ Respond(c, "bad_gateway", "upstream_request_error")
    /\ UNCHANGED <<registryVars, mutexVars, checkerVars, request, target, published>>

StatusResponse(success) == IF success THEN "ok" ELSE "upstream_failure"
StatusMetric(success) == IF success THEN "end_success" ELSE "end_failure"

\* The upstream's response head arrives.  A streamed response is recorded and
\* returned at once, its body still to come; otherwise the handler waits for
\* the body, and response holds the status it will pass on.
HeadArrives(c, success) ==
    /\ pc[c] = "sending"
    /\ response' = [response EXCEPT ![c] = StatusResponse(success)]
    /\ IF request[c].stream
       THEN /\ pc' = [pc EXCEPT ![c] = "streaming"]
            /\ recorded' = [recorded EXCEPT ![c] = Append(@, StatusMetric(success))]
       ELSE /\ pc' = [pc EXCEPT ![c] = "body"]
            /\ UNCHANGED recorded
    /\ UNCHANGED <<registryVars, mutexVars, checkerVars, request, target, published>>

\* Mutant of BodyRead: a body that was read counts as a success.
BodyReadIsSuccess(c) ==
    /\ pc[c] = "body"
    /\ Respond(c, response[c], "end_success")
    /\ UNCHANGED <<registryVars, mutexVars, checkerVars, request, target, published>>

\* bytes().await returns the buffered body.
BodyRead(c) ==
    /\ pc[c] = "body"
    /\ Respond(c, response[c], StatusMetric(response[c] = "ok"))
    /\ UNCHANGED <<registryVars, mutexVars, checkerVars, request, target, published>>

BodyFails(c) ==
    /\ pc[c] = "body"
    /\ Respond(c, "bad_gateway", "upstream_body_read_error")
    /\ UNCHANGED <<registryVars, mutexVars, checkerVars, request, target, published>>

\* The connection is ready for its next request.
Forget(c) ==
    /\ pc' = [pc EXCEPT ![c] = "idle"]
    /\ request' = [request EXCEPT ![c] = NoRequest]
    /\ target' = [target EXCEPT ![c] = Unresolved]
    /\ response' = [response EXCEPT ![c] = "none"]
    /\ recorded' = [recorded EXCEPT ![c] = <<>>]

\* The response is delivered: buffered, or the stream came to its end or
\* broke off; nobody looks at how a stream ended.
Delivered(c) ==
    /\ pc[c] \in {"answered", "streaming"}
    /\ Forget(c)
    /\ UNCHANGED <<registryVars, mutexVars, checkerVars, published>>

\* The client disconnects while the handler waits: its future is dropped, in
\* lock().await with its place in the queue.
Disconnect(c) ==
    /\ pc[c] \in {"locking", "sending", "body"}
    /\ Forget(c)
    /\ IF pc[c] = "locking" THEN Abandon(c) ELSE UNCHANGED mutexVars
    /\ UNCHANGED <<registryVars, checkerVars, published>>

HandlerStep(c) ==
    \/ ListModels(c)
    \/ ResolveKnown(c)
    \/ ResolveUnknown(c)

UpstreamStep(c) ==
    \/ SendFails(c)
    \/ \E success \in BOOLEAN : HeadArrives(c, success)
    \/ BodyRead(c)
    \/ BodyFails(c)

ClientStep(c) ==
    \/ \E r \in ChatRequest \cup {ListRequest} : Arrive(c, r)
    \/ Delivered(c)
    \/ Disconnect(c)

\* A step of the checker; the history variable follows the end of a pass.
RefreshStep ==
    /\ CheckerNext
    /\ published' = IF checker = "discovery" /\ checker' = "select"
                    THEN hashIndex ELSE published
    /\ UNCHANGED <<request, pc, target, response, recorded>>

ProxyNext ==
    \/ RefreshStep
    \/ \E c \in Client : HandlerStep(c) \/ UpstreamStep(c) \/ ClientStep(c)

ProxySpec == ProxyInit /\ [][ProxyNext]_vars

\* The endpoints answer every probe and every listing sooner or later, and a
\* handler that holds the lock is scheduled.
ProxyFairness ==
    /\ WF_vars(PassStep /\ RefreshStep)
    /\ \A c \in Client : WF_vars(HandlerStep(c))

FairProxySpec == ProxySpec /\ ProxyFairness
-----------------------------------------------------------------------------
(* Properties.                                                             *)

\* Every variable has its type.
ProxyTypeOK ==
    /\ CheckerTypeOK
    /\ request \in [Client -> ChatRequest \cup {ListRequest, NoRequest}]
    /\ pc \in [Client -> HandlerState]
    /\ target \in [Client -> Route \cup {NoRoute, Unresolved}]
    /\ response \in [Client -> Response]
    /\ recorded \in [Client -> Seq(Metric)]
    /\ published \in [Slug -> Route \cup {NoRoute}]

\* The metrics say of every response what the client got, once: no path of
\* the handler records two events, none answers without an event, and a
\* request that is still waiting has none.
MetricsMatchResponses ==
    \A c \in Client :
        IF pc[c] \in {"answered", "streaming"}
        THEN /\ Len(recorded[c]) = 1
             /\ response[c] = CASE recorded[c][1] = "end_success" -> "ok"
                               [] recorded[c][1] = "end_failure" -> "upstream_failure"
                               [] recorded[c][1] = "hashed_model_not_found" -> "bad_request"
                               [] OTHER -> "bad_gateway"
        ELSE recorded[c] = <<>>

\* A handler that waits for the lock is in the queue once or was handed the
\* lock, and nobody else is: a disconnected client leaves no ghost behind
\* that would keep the registry locked for ever.
QueueMatchesTasks ==
    LET waiting == {c \in Client : pc[c] = "locking"}
                       \cup (IF checker = "waiting" THEN {Checker} ELSE {})
        queued == {waiters[i] : i \in 1 .. Len(waiters)}
    IN  /\ \A i, j \in 1 .. Len(waiters) : waiters[i] = waiters[j] => i = j
        /\ queued = waiting \ {holder}
        /\ holder = Nobody => queued = {}
        /\ holder \in Client => pc[holder] = "locking"

\* A slug is resolved only to an endpoint that is healthy and advertises the
\* model at that moment, whatever the passes and the other requests do in
\* between; a slug with such an endpoint, listed in the last pass, is never
\* refused.
ResolutionSound ==
    [][\A c \in Client :
          pc[c] = "locking" /\ target'[c] # target[c] =>
              IF target'[c] = NoRoute
              THEN \A e \in Endpoint, m \in Model :
                       request[c].slug = SlugOf(e, m) => e \notin Advertisers(m)
              ELSE /\ request[c].slug = SlugOf(target'[c].endpoint, target'[c].model)
                   /\ healthy[target'[c].endpoint]
                   /\ target'[c].model \in discovered[target'[c].endpoint]]_vars

\* The whole is a table that is replaced atomically: no request sees the
\* index of a pass that has not ended, although the pass clears it first and
\* then waits for one endpoint after the other.
PermittedRoutes ==
    [s \in Slug |-> {r \in Route : /\ s = SlugOf(r.endpoint, r.model)
                                   /\ r.model \in Include[r.endpoint]
                                   /\ r.model \notin Exclude[r.endpoint]}]
SlugAsked == [c \in Client |-> IF request[c] \in ChatRequest
                               THEN request[c].slug ELSE NoRequest]
Abstract == INSTANCE RoutingTable
    WITH Asker <- Client, Question <- Slug, Answer <- Route,
         Permitted <- PermittedRoutes, NoAnswer <- NoRoute,
         NoQuestion <- NoRequest, Pending <- Unresolved,
         table <- published, asked <- SlugAsked, answer <- target
ImplementsRoutingTable == Abstract!TableSpec

\* Every request leaves the queue for the lock, however many requests and
\* passes compete for it: the queue is fair and every holder lets go.
LockServed == \A c \in Client : pc[c] = "locking" ~> pc[c] # "locking"
=============================================================================
