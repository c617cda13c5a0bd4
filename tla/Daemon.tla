------------------------------- MODULE Daemon -------------------------------
(***************************************************************************)
(* The lifecycle of labmand (bin/labman-daemon): what main and             *)
(* run_server_blocking do from the command line to the exit code, and the  *)
(* three servers they run.  What happens inside the initial pass, the      *)
(* health checker, the proxy and the Portman server are modules of their   *)
(* own; here each is a stage or a task that binds, serves and may end.     *)
(***************************************************************************)
EXTENDS Configuration

CONSTANTS
    Configs,    \* what a configuration file may say
    Missing,    \* exists() is false: there is no file, or no way to see it
    Broken,     \* exists() is true, but reading or parsing fails
    Disks,      \* what the three places may hold
    NoConfig    \* nothing is loaded yet

\* The path of --config, /etc/labman/labman.toml and ./labman.toml.
Location == {"given", "etc", "cwd"}

ASSUME ConfigAssumption ==
    /\ Configs \subseteq LabmanConfig
    /\ {Missing, Broken, NoConfig} \cap Configs = {} /\ Missing # Broken
    /\ Disks \subseteq [Location -> Configs \cup {Missing, Broken}]

\* labman-server (/metrics), labman-proxy and the Portman WebSocket server.
Service == {"server", "proxy", "portman"}

\* The Portman listener has a fixed port.
PortmanPort == 9100

Cli == [logLevel : {"ok", "malformed"},     \* absent or well-formed, or not
        config : {"absent", "given"},
        checkConfig : BOOLEAN, printConfig : BOOLEAN,
        bindAddr : {"absent", "valid", "malformed"}]

VARIABLES
    cli,        \* the flags main was started with
    files,      \* what the places for a configuration file hold
    config,     \* the configuration that was loaded
    main,       \* the stage main is in, see Stage
    exitCode,   \* 0 or 1 once main is "exited", NoCode before
    error,      \* what main or run_server_blocking gave up over, see Cause
    task,       \* per server: see TaskState
    signalled   \* shutdown_tx has been used

vars == <<cli, files, config, main, exitCode, error, task, signalled>>

Stage == {"telemetry", "loading", "validating", "checked", "resolving",
          "runtime", "registry", "initial_pass", "spawning", "selecting",
          "dropping", "exited"}
TaskState == {"off", "binding", "serving", "ended", "aborted"}
NoCode == 2

\* The errors main reports before it exits, told apart by their origin.
Cause == {"none", "telemetry", "file", "invalid", "address", "runtime", "registry", "server"}

\* Ended tasks: their JoinHandle is ready.
Ended == {s \in Service : task[s] = "ended"}

Init ==
    /\ cli \in Cli
    /\ files \in Disks
    /\ config = NoConfig
    /\ main = "telemetry"
    /\ exitCode = NoCode
    /\ error = "none"
    /\ task = [s \in Service |-> "off"]
    /\ signalled = FALSE

GiveUp(cause) ==
    /\ main' = "exited"
    /\ exitCode' = 1
    /\ error' = cause
    /\ UNCHANGED <<cli, files, config, task, signalled>>

Advance(from, to) ==
    /\ main = from
    /\ main' = to
    /\ UNCHANGED <<cli, files, config, exitCode, error, task, signalled>>

-----------------------------------------------------------------------------
(* main.                                                                   *)

\* A malformed --log-level is the only way telemetry::init fails here.
InitTelemetry ==
    /\ cli.logLevel = "ok"
    /\ Advance("telemetry", "loading")

\* Mutant of Source: a broken file is passed over like a missing one.
SourceSkipsBroken ==
    IF cli.config = "given" THEN "given"
    ELSE IF files["etc"] \notin {Missing, Broken} THEN "etc" ELSE "cwd"

\* load_from_path of --config, or load_default: the first of its places for
\* which exists() is true.
Source ==
    IF cli.config = "given" THEN "given"
    ELSE IF files["etc"] # Missing THEN "etc" ELSE "cwd"

LoadConfig ==
    /\ main = "loading"
    /\ files[Source] \notin {Missing, Broken}
    /\ config' = files[Source]
    /\ main' = "validating"
    /\ UNCHANGED <<cli, files, exitCode, error, task, signalled>>

Validate ==
    /\ main = "validating"
    /\ Valid(config)
    /\ Advance("validating", "checked")

\* What is read is not usable.
StartupFails ==
    \/ main = "telemetry" /\ cli.logLevel = "malformed" /\ GiveUp("telemetry")
    \/ main = "loading" /\ files[Source] \in {Missing, Broken} /\ GiveUp("file")
    \/ main = "validating" /\ ~Valid(config) /\ GiveUp("invalid")

\* --check-config ends here.
CheckConfig ==
    /\ main = "checked"
    /\ cli.checkConfig
    /\ main' = "exited"
    /\ exitCode' = 0
    /\ UNCHANGED <<cli, files, config, error, task, signalled>>

\* --print-config prints the summary and goes on.
Proceed ==
    /\ ~cli.checkConfig
    /\ Advance("checked", "resolving")

\* resolve_bind_addr: the flag first, then metrics_port unless metrics are
\* disabled.
AddressUsable ==
    \/ cli.bindAddr = "valid"
    \/ cli.bindAddr = "absent" /\ ~config.disableMetrics

ResolveBindAddr ==
    /\ main = "resolving"
    /\ AddressUsable
    /\ Advance("resolving", "runtime")

NoBindAddr ==
    /\ main = "resolving"
    /\ ~AddressUsable
    /\ GiveUp("address")

-----------------------------------------------------------------------------
(* run_server_blocking.                                                    *)

\* The Tokio runtime is built, or the operating system refuses its threads
\* or its I/O driver and the function returns Err at once.
BuildRuntime ==
    \/ Advance("runtime", "registry")
    \/ main = "runtime" /\ GiveUp("runtime")

\* EndpointRegistry::from_config; if it refuses an endpoint, the async block
\* returns Err.
BuildRegistry ==
    /\ main = "registry"
    /\ IF Buildable(config.endpoints)
       THEN main' = "initial_pass" /\ UNCHANGED error
       ELSE main' = "dropping" /\ error' = "registry"
    /\ UNCHANGED <<cli, files, config, exitCode, task, signalled>>

\* The first health check and discovery; they may take for ever.
InitialPass == Advance("initial_pass", "spawning")

SpawnServers ==
    /\ main = "spawning"
    /\ main' = "selecting"
    /\ task' = [s \in Service |-> "binding"]
    /\ UNCHANGED <<cli, files, config, exitCode, error, signalled>>

\* The port a server asks for.  An address from --bind-addr is taken to be
\* free.
Port(s) == CASE s = "server" -> IF cli.bindAddr = "valid" THEN 0 ELSE config.metricsPort
             [] s = "proxy" -> config.proxyPort
             [] s = "portman" -> PortmanPort

TaskBecomes(s, state) ==
    /\ task' = [task EXCEPT ![s] = state]
    /\ UNCHANGED <<cli, files, config, main, exitCode, error, signalled>>

\* Mutant of Bind: the bind is retried for ever.
BindRetries(s) ==
    /\ task[s] = "binding"
    /\ TaskBecomes(s, IF \E t \in Service \ {s} : task[t] = "serving" /\ Port(t) = Port(s)
                      THEN "binding" ELSE "serving")

\* A port that another of the servers listens on cannot be bound.
Bind(s) ==
    /\ task[s] = "binding"
    /\ TaskBecomes(s, IF \E t \in Service \ {s} : task[t] = "serving" /\ Port(t) = Port(s)
                      THEN "ended" ELSE "serving")

\* bind fails for another reason, accept fails, or the task panics.
ServerFails(s) ==
    /\ task[s] \in {"binding", "serving"}
    /\ TaskBecomes(s, "ended")

\* The Portman server alone has a graceful shutdown.
PortmanShutsDown ==
    /\ signalled
    /\ task["portman"] = "serving"
    /\ TaskBecomes("portman", "ended")

\* Mutants of Select: the end of the proxy alone is a success; Portman is not
\* told to shut down; main waits for all three (join! instead of select!).
SelectAcceptsProxyEnd ==
    /\ main = "selecting"
    /\ Ended # {}
    /\ main' = "dropping"
    /\ error' = IF Ended = {"proxy"} THEN "none" ELSE "server"
    /\ signalled' = TRUE
    /\ UNCHANGED <<cli, files, config, exitCode, task>>
SelectForgetsSignal ==
    /\ main = "selecting"
    /\ Ended # {}
    /\ main' = "dropping"
    /\ error' = "server"
    /\ UNCHANGED <<cli, files, config, exitCode, task, signalled>>
SelectJoins ==
    /\ main = "selecting"
    /\ Ended = Service
    /\ main' = "dropping"
    /\ error' = "server"
    /\ signalled' = TRUE
    /\ UNCHANGED <<cli, files, config, exitCode, task>>

\* select! on the three handles: the first to end decides.  A server or
\* Portman ending in any way and a failing proxy give Err.  (The proxy's
\* run never returns Ok, so its arm for that is dead.)
Select ==
    /\ main = "selecting"
    /\ Ended # {}
    /\ main' = "dropping"
    /\ error' = "server"
    /\ signalled' = TRUE
    /\ UNCHANGED <<cli, files, config, exitCode, task>>

\* Mutant of DropRuntime: the exit code counts the servers that ended.
DropRuntimeCounts ==
    /\ main = "dropping"
    /\ main' = "exited"
    /\ exitCode' = IF error # "none" THEN Cardinality(Ended) ELSE 0
    /\ task' = [s \in Service |-> IF task[s] \in {"binding", "serving"}
                                  THEN "aborted" ELSE task[s]]
    /\ UNCHANGED <<cli, files, config, error, signalled>>

\* The runtime is dropped, which aborts the tasks that are left, and main
\* exits with the result.
DropRuntime ==
    /\ main = "dropping"
    /\ main' = "exited"
    /\ exitCode' = IF error # "none" THEN 1 ELSE 0
    /\ task' = [s \in Service |-> IF task[s] \in {"binding", "serving"}
                                  THEN "aborted" ELSE task[s]]
    /\ UNCHANGED <<cli, files, config, error, signalled>>

MainStep ==
    \/ InitTelemetry \/ LoadConfig \/ Validate \/ StartupFails
    \/ CheckConfig \/ Proceed \/ ResolveBindAddr \/ NoBindAddr
    \/ BuildRuntime \/ BuildRegistry \/ SpawnServers
    \/ Select \/ DropRuntime

Next ==
    \/ MainStep
    \/ InitialPass
    \/ \E s \in Service : Bind(s) \/ ServerFails(s)
    \/ PortmanShutsDown

Spec == Init /\ [][Next]_vars

\* main and the bind calls run; whether the initial pass ends is up to the
\* endpoints, and servers need not fail.
Fairness == WF_vars(MainStep) /\ \A s \in Service : WF_vars(Bind(s))
FairSpec == Spec /\ Fairness

-----------------------------------------------------------------------------
(* Properties.                                                             *)

\* Every variable has its type.
TypeOK ==
    /\ cli \in Cli /\ files \in Disks
    /\ config \in Configs \cup {NoConfig}
    /\ main \in Stage
    /\ exitCode \in {0, 1, NoCode}
    /\ error \in Cause /\ signalled \in BOOLEAN
    /\ task \in [Service -> TaskState]

\* Exit code 0 means a configuration check that passed and nothing else: the
\* file that a start would use is valid, and a daemon that got as far as
\* building its registry never reports success, whichever server ends and
\* however.
SuccessMeansChecked ==
    exitCode = 0 =>
        /\ cli.checkConfig /\ Valid(config)
        /\ \A s \in Service : task[s] = "off"

\* The process never exits with a server still at work, and it exits because
\* of a server only after the Portman server was told to shut down.
NothingOutlivesMain ==
    main = "exited" =>
        /\ \A s \in Service : task[s] \notin {"binding", "serving"}
        /\ (\E s \in Service : task[s] # "off") => signalled /\ exitCode = 1

\* The servers run what the operator configured: the file --config names,
\* otherwise the one in /etc, and the one in the working directory only if
\* exists() is false of that.  A file that is there and cannot be read or
\* parsed is never passed over for another.
ServesTheConfiguredFile ==
    (\E s \in Service : task[s] # "off") =>
        \/ cli.config = "given" /\ config = files["given"]
        \/ cli.config = "absent" /\ config = files["etc"]
        \/ cli.config = "absent" /\ config = files["cwd"] /\ files["etc"] = Missing

\* What a configuration that --check-config approves can still fail for: an
\* address (a malformed flag, or none beside disabled metrics), the runtime,
\* or a server that was started and ended.  The registry is not among them:
\* the checks of labman-config and those of labman-endpoints, made in two
\* crates and at two times, agree.
ApprovedConfigStarts ==
    exitCode = 1 /\ config \in Configs /\ Valid(config) =>
        \/ /\ error = "address"
           /\ \/ cli.bindAddr = "malformed"
              \/ cli.bindAddr = "absent" /\ config.disableMetrics
        \/ error = "runtime" /\ \A s \in Service : task[s] = "off"
        \/ error = "server" /\ Ended # {}

\* "when either the HTTP server, proxy, or Portman WS server finishes (with
\* error or cleanly), we shut down the others": whichever server ends, at
\* whatever moment, the whole process ends.
OneForAll == Ended # {} ~> main = "exited"

\* Servers whose ports collide bring the daemon down: the one that binds
\* second fails, whatever the order.
CollisionIsFatal ==
    (\E s, t \in Service : s # t /\ task[s] # "off" /\ Port(s) = Port(t)) ~> main = "exited"

\* build_core_endpoint: "we assume the caller has validated the `/v1` suffix".
\* On that assumption discovery, which puts the suffix where it is missing,
\* and the proxy, which does not, use one API root of an endpoint.
RootsAgree ==
    main = "selecting" =>
        \A i \in 1 .. Len(config.endpoints) :
            LET url == config.endpoints[i].baseUrl
            IN  ModelsRoot(url) = ChatRoot(url)

\* The flag: "Print loaded configuration summary and exit without starting
\* the daemon."
PrintConfigDoesNotStart ==
    cli.printConfig => \A s \in Service : task[s] = "off"
=============================================================================
