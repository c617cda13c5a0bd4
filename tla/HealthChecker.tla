--------------------------- MODULE HealthChecker ---------------------------
(***************************************************************************)
(* The registry shared by the tasks of the daemon, and the task that       *)
(* refreshes it: the initial pass of run_server_blocking, then             *)
(* spawn_periodic_health_check.                                            *)
(*                                                                         *)
(* A pass takes the lock once, probes every endpoint, rediscovers every    *)
(* endpoint and only then releases it: the lock is held across all of      *)
(* these HTTP requests, none of which has a timeout.                       *)
(***************************************************************************)
EXTENDS EndpointRegistry, AsyncMutex

CONSTANTS
    Checker,            \* the task that runs the passes
    ImmediateShutdown   \* the shutdown future given to the task is ready at
                        \* once, as the empty async block of
                        \* run_server_blocking is

ASSUME CheckerAssumption == Checker \in Task
ASSUME ShutdownAssumption == ImmediateShutdown \in BOOLEAN

VARIABLES
    checker,    \* where the task is, see CheckerState
    server      \* "starting", "up" or "down": the daemon's servers

checkerVars == <<checker, server>>

\* "select": in select!, between passes.  "waiting": in lock().await.
\* "health", "checked", "discovery": in a pass, holding the lock.
CheckerState ==
    {"select", "waiting", "health", "checked", "discovery", "stopped"}

\* The first pass takes the lock before any other task exists.
CheckerInit ==
    /\ RegistryInit
    /\ MutexInit(Checker)
    /\ checker = "waiting"
    /\ server = "starting"

ShutdownReady == ImmediateShutdown \/ server = "down"

\* select! takes the tick branch (the first tick is immediate).
Tick ==
    /\ checker = "select"
    /\ checker' = "waiting"
    /\ LockBy(Checker)
    /\ UNCHANGED <<registryVars, server>>

StartPass ==
    /\ checker = "waiting"
    /\ holder = Checker
    /\ checker' = "health"
    /\ BeginHealthCheck
    /\ UNCHANGED <<mutexVars, server>>

Probe ==
    /\ checker = "health"
    /\ \E answer \in HealthAnswer : ProbeAnswered(answer)
    /\ UNCHANGED <<mutexVars, checkerVars>>

\* Mutant of FinishHealthCheck: the lock is taken per method, not per pass.
FinishHealthCheckUnlocks ==
    /\ checker = "health"
    /\ checker' = "checked"
    /\ EndHealthCheck
    /\ Unlock
    /\ UNCHANGED server

\* health_check_all_http always returns Ok, so discovery always follows.
FinishHealthCheck ==
    /\ checker = "health"
    /\ checker' = "checked"
    /\ EndHealthCheck
    /\ UNCHANGED <<mutexVars, server>>

\* Mutant of StartDiscovery: discovery runs without the lock.
StartDiscoveryUnlocks ==
    /\ checker = "checked"
    /\ checker' = "discovery"
    /\ BeginDiscovery
    /\ Unlock
    /\ UNCHANGED server

StartDiscovery ==
    /\ checker = "checked"
    /\ checker' = "discovery"
    /\ BeginDiscovery
    /\ UNCHANGED <<mutexVars, server>>

Discover ==
    /\ checker = "discovery"
    /\ \/ SkipUnhealthy
       \/ ListingFailed
       \/ \E listing \in Listing : ModelsListed(listing)
    /\ UNCHANGED <<mutexVars, checkerVars>>

\* Mutant of FinishPass: the next pass starts without a look at shutdown.
FinishPassSkipsSelect ==
    /\ checker = "discovery"
    /\ checker' = "waiting"
    /\ EndDiscovery
    /\ UNCHANGED mutexVars
    /\ server' = IF server = "starting" THEN "up" ELSE server

\* The guard is dropped.  After the first pass the servers are started and
\* the periodic task is spawned.
FinishPass ==
    /\ checker = "discovery"
    /\ checker' = "select"
    /\ EndDiscovery
    /\ Unlock
    /\ server' = IF server = "starting" THEN "up" ELSE server

\* select! takes the shutdown branch; with both branches ready it picks one
\* at random.
StopChecker ==
    /\ checker = "select"
    /\ ShutdownReady
    /\ checker' = "stopped"
    /\ UNCHANGED <<registryVars, mutexVars, server>>

\* A step of a pass, up to the release of the lock.
PassStep ==
    \/ StartPass
    \/ Probe
    \/ FinishHealthCheck
    \/ StartDiscovery
    \/ Discover
    \/ FinishPass

\* One of the servers finishes.
ServerEnds ==
    /\ server = "up"
    /\ server' = "down"
    /\ UNCHANGED <<registryVars, mutexVars, checker>>

CheckerNext == Tick \/ PassStep \/ StopChecker

sharedVars == <<registryVars, mutexVars, checkerVars>>

HealthCheckerSpec == CheckerInit /\ [][CheckerNext \/ ServerEnds]_sharedVars

\* The endpoints answer every request sooner or later, the interval elapses,
\* and select! does not pick the tick branch for ever when the shutdown
\* branch is ready as well.
CheckerFairness ==
    /\ WF_sharedVars(Tick)
    /\ WF_sharedVars(PassStep)
    /\ SF_sharedVars(StopChecker)

FairHealthCheckerSpec == HealthCheckerSpec /\ CheckerFairness

-----------------------------------------------------------------------------
(* Properties.                                                             *)

\* The task, the server state and the mutex have their types.
CheckerTypeOK ==
    /\ RegistryTypeOK
    /\ checker \in CheckerState
    /\ server \in {"starting", "up", "down"}
    /\ MutexTypeOK

\* No task but the checker uses the registry during a pass: while the task is
\* in one, and in between its two methods, it is the task that has the lock,
\* and the method that runs is the one the task is in.
PassExclusive ==
    /\ checker \in {"health", "checked", "discovery"} => holder = Checker
    /\ pass = CASE checker = "health" -> "health"
                [] checker = "discovery" -> "discovery"
                [] OTHER -> "none"

\* Whenever the lock is free for others, every route leads to an endpoint
\* that was healthy in the pass that made the route: unhealthy endpoints drop
\* out of the index although their discovered_models are kept.
RoutesHealthy ==
    \/ checker \in {"health", "checked"}
    \/ \A s \in Slug : hashIndex[s] # NoRoute => healthy[hashIndex[s].endpoint]

\* Between passes the scheduler's view (select_endpoint_for_model) and the
\* proxy's view (lookup_hashed_model) of a model agree.  The scheduler finds
\* no endpoint exactly when no route leads to one; the endpoint it finds is
\* healthy and advertises the model, comes before every endpoint that is
\* routed to or is one itself, and has the slug of one: it is the first that
\* a pass put into the index, where the route leads to the last of its slug.
SelectionAgreesWithLookup ==
    checker \in {"select", "waiting", "stopped"} =>
        \A m \in Model :
            LET e == SelectEndpoint(m)
                routed == {f \in Endpoint : Lookup(SlugOf(f, m)) = RouteTo(f, m)}
            IN  IF routed = {} THEN e = 0
                ELSE /\ e \in Endpoint /\ healthy[e] /\ m \in discovered[e]
                     /\ \A f \in routed : e <= f
                     /\ \E f \in routed : SlugOf(f, m) = SlugOf(e, m)

\* As long as shutdown does not resolve the registry is refreshed again and
\* again, whatever the endpoints answer: no answer ends the task.
RefreshedForever == []<>(checker = "discovery") \/ <>ShutdownReady

\* "The task will run until the provided `shutdown` future resolves": it
\* then does stop.
StopsOnShutdown == ShutdownReady ~> checker = "stopped"

\* run_server_blocking on the shutdown future: "Shutdown is currently tied to
\* server lifetime; when the server future completes, this future will also
\* complete."  The task would not stop while the servers run.
CheckerOutlivesServers == checker = "stopped" => server = "down"
=============================================================================
