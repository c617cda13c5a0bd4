----------------------------- MODULE DaemonProofs -----------------------------
(***************************************************************************)
(* The lifecycle of the daemon, for every set of configuration files, any  *)
(* number of endpoints and any ports.  One invariant carries the safety    *)
(* properties: what main knows in each of its stages, and how it can have  *)
(* come to its exit code.                                                  *)
(***************************************************************************)
EXTENDS Daemon, TLAPS

\* What labman-config accepts labman-endpoints can build: the two crates
\* check names and schemes each in their own way.
LEMMA ValidIsBuildable ==
    ASSUME NEW c, Valid(c)
    PROVE  Buildable(c.endpoints)
  BY DEF Valid, ValidEndpoints, AcceptedBaseUrl, Buildable

\* A server has been spawned.
Started == \E s \in Service : task[s] # "off"
AtWork == \E s \in Service : task[s] \in {"binding", "serving"}

\* What is loaded is what the places for the file say, and no stage after
\* the validation is reached with a configuration that is not valid.
ConfigKnown ==
    /\ config # NoConfig => config = files[Source]
    /\ main \in {"telemetry", "loading"} => config = NoConfig
    /\ main \notin {"telemetry", "loading", "exited"} => config \in Configs
    /\ main \notin {"telemetry", "loading", "validating", "exited"} => Valid(config)

\* Servers run only under a loaded configuration, and the runtime is dropped
\* only after one of them ended and the others were told.
ServersKnown ==
    /\ Started => main \in {"selecting", "dropping", "exited"} /\ config \in Configs
    /\ main = "dropping" => error = "server" /\ signalled

\* What each error says of the flags, the configuration and the servers.
\* That the registry refused an endpoint is never among them.
CauseKnown ==
    /\ error = "none" => exitCode # 1
    /\ error # "none" => main \in {"dropping", "exited"}
    /\ error \in {"telemetry", "file"} => config = NoConfig
    /\ error = "invalid" => ~Valid(config)
    /\ error = "address" => ~AddressUsable
    /\ error = "runtime" => ~Started
    /\ error = "server" => Ended # {}
    /\ error # "registry"

\* main ends with 1 before a server was spawned, with 1 after they all
\* stopped, or with 0 after a check of the configuration.
ExitKnown ==
    IF main # "exited" THEN exitCode = NoCode
    ELSE \/ exitCode = 1 /\ ~Started
         \/ exitCode = 1 /\ ~AtWork /\ signalled
         \/ exitCode = 0 /\ ~Started /\ cli.checkConfig /\ Valid(config)

DaemonInv == TypeOK /\ ConfigKnown /\ ServersKnown /\ CauseKnown /\ ExitKnown

\* The invariant holds when main starts.
LEMMA InitInv == Init => DaemonInv
  <1> SUFFICES ASSUME Init PROVE DaemonInv
    OBVIOUS
  <1>1. ~Started
    BY DEF Init, Started
  <1>2. TypeOK
    BY DEF Init, TypeOK, Stage, Cause, TaskState, NoCode
  <1>3. ConfigKnown /\ ServersKnown /\ CauseKnown /\ ExitKnown
    BY <1>1 DEF Init, ConfigKnown, ServersKnown, CauseKnown, ExitKnown, NoCode
  <1> QED BY <1>2, <1>3 DEF DaemonInv

\* The stages up to the validation.
LEMMA StartKeepsInv ==
    ASSUME DaemonInv, InitTelemetry \/ LoadConfig \/ Validate \/ StartupFails
    PROVE  DaemonInv'
  <1> USE DEF DaemonInv, TypeOK, Stage, Cause, ExitKnown, NoCode
  <1>1. /\ UNCHANGED <<cli, files, task, signalled>>
        /\ Started' = Started /\ Source' = Source /\ Ended' = Ended
    BY DEF InitTelemetry, LoadConfig, Validate, StartupFails, Advance, GiveUp, Started,
           Source, Ended
  <1>2. main \in {"telemetry", "loading", "validating"}
    BY DEF InitTelemetry, LoadConfig, Validate, StartupFails, Advance
  <1>3. ~Started /\ error = "none" /\ exitCode = NoCode
    BY <1>2 DEF ServersKnown, CauseKnown
  <1>4. ServersKnown'
    BY <1>1, <1>3
    DEF InitTelemetry, LoadConfig, Validate, StartupFails, Advance, GiveUp, ServersKnown
  <1>5. CASE InitTelemetry
    BY <1>1, <1>3, <1>4, <1>5 DEF InitTelemetry, Advance, ConfigKnown, CauseKnown
  <1>6. CASE LoadConfig
    <2>1. Source \in Location
      BY DEF Source, Location
    <2>2. files[Source] \in Configs \cup {Missing, Broken}
      BY <2>1, ConfigAssumption
    <2> QED BY <1>1, <1>3, <1>4, <1>6, <2>2 DEF LoadConfig, ConfigKnown, CauseKnown
  <1>7. CASE Validate
    BY <1>1, <1>3, <1>4, <1>7 DEF Validate, Advance, ConfigKnown, CauseKnown
  <1>8. CASE StartupFails
    <2>1. ConfigKnown' /\ TypeOK' /\ ExitKnown'
      BY <1>1, <1>3, <1>8 DEF StartupFails, GiveUp, ConfigKnown
    <2>2. CauseKnown'
      BY <1>1, <1>3, <1>8 DEF StartupFails, GiveUp, ConfigKnown, CauseKnown
    <2> QED BY <1>4, <2>1, <2>2
  <1> QED BY <1>5, <1>6, <1>7, <1>8

\* The stages from the valid configuration to the servers.
LEMMA SetupKeepsInv ==
    ASSUME DaemonInv,
           \/ CheckConfig \/ Proceed \/ ResolveBindAddr \/ NoBindAddr
           \/ BuildRuntime \/ BuildRegistry \/ InitialPass
    PROVE  DaemonInv'
  <1> USE DEF DaemonInv, TypeOK, Stage, Cause, ExitKnown, NoCode, ConfigKnown, ServersKnown
  <1>1. /\ UNCHANGED <<cli, files, config, task, signalled>>
        /\ Started' = Started /\ Source' = Source
        /\ Ended' = Ended /\ AddressUsable' = AddressUsable
    BY DEF CheckConfig, Proceed, ResolveBindAddr, NoBindAddr, BuildRuntime, BuildRegistry,
           InitialPass, Advance, GiveUp, Started, Source, Ended, AddressUsable
  <1>2. main \in {"checked", "resolving", "runtime", "registry", "initial_pass"}
    BY DEF CheckConfig, Proceed, ResolveBindAddr, NoBindAddr, BuildRuntime, BuildRegistry,
           InitialPass, Advance
  <1>3. ~Started /\ error = "none" /\ exitCode = NoCode /\ Valid(config)
    BY <1>2 DEF CauseKnown
  <1>4. CASE CheckConfig
    BY <1>1, <1>3, <1>4 DEF CheckConfig, CauseKnown
  <1>5. CASE NoBindAddr
    BY <1>1, <1>3, <1>5 DEF NoBindAddr, GiveUp, CauseKnown
  <1>6. CASE Proceed \/ ResolveBindAddr \/ InitialPass
    BY <1>1, <1>3, <1>6 DEF Proceed, ResolveBindAddr, InitialPass, Advance, CauseKnown
  <1>7. CASE BuildRuntime
    BY <1>1, <1>3, <1>7 DEF BuildRuntime, Advance, GiveUp, CauseKnown
  <1>8. CASE BuildRegistry
    BY <1>1, <1>3, <1>8, ValidIsBuildable DEF BuildRegistry, CauseKnown
  <1> QED BY <1>4, <1>5, <1>6, <1>7, <1>8

\* main spawns the servers, hears of the first end and drops the rest.
LEMMA ServeKeepsInv ==
    ASSUME DaemonInv, SpawnServers \/ Select \/ DropRuntime
    PROVE  DaemonInv'
  <1> USE DEF DaemonInv, TypeOK, Stage, Cause, TaskState, ExitKnown, NoCode,
              ConfigKnown, ServersKnown
  <1>1. UNCHANGED <<cli, files, config>> /\ Source' = Source
    BY DEF SpawnServers, Select, DropRuntime, Source
  <1>2. CASE SpawnServers
    BY <1>1, <1>2 DEF SpawnServers, CauseKnown
  <1>3. CASE Select
    <2>1. Started' = Started /\ Ended' = Ended
      BY <1>3 DEF Select, Started, Ended
    <2> QED BY <1>1, <1>3, <2>1 DEF Select, CauseKnown
  <1>4. CASE DropRuntime
    <2>1. task' \in [Service -> TaskState] /\ ~AtWork'
      BY <1>4 DEF DropRuntime, AtWork
    <2>2. Started' = Started /\ Ended' = Ended
      BY <1>4 DEF DropRuntime, Started, Ended
    <2> QED BY <1>1, <1>4, <2>1, <2>2 DEF DropRuntime, CauseKnown
  <1> QED BY <1>2, <1>3, <1>4

\* A server binds, fails or shuts down.
LEMMA ServerKeepsInv ==
    ASSUME DaemonInv, NEW s \in Service,
           Bind(s) \/ ServerFails(s) \/ (s = "portman" /\ PortmanShutsDown)
    PROVE  DaemonInv'
  <1> USE DEF DaemonInv, TypeOK, Stage, Cause, TaskState, ExitKnown, NoCode,
              ConfigKnown, ServersKnown
  <1>1. PICK state \in {"serving", "ended"} : TaskBecomes(s, state)
    BY DEF Bind, ServerFails, PortmanShutsDown
  <1>2. /\ UNCHANGED <<cli, files, config, main, exitCode, error, signalled>>
        /\ task' = [task EXCEPT ![s] = state]
        /\ Source' = Source /\ AddressUsable' = AddressUsable
    BY <1>1 DEF TaskBecomes, Source, AddressUsable
  <1>3. task[s] \in {"binding", "serving"}
    BY DEF Bind, ServerFails, PortmanShutsDown
  <1>4. Started /\ AtWork
    BY <1>3 DEF Started, AtWork
  <1>5. main # "exited"
    BY <1>4
  <1>6. Ended \subseteq Ended'
    BY <1>2, <1>3 DEF Ended
  <1>7. CauseKnown'
    BY <1>2, <1>4, <1>5, <1>6 DEF CauseKnown
  <1> QED BY <1>2, <1>4, <1>5, <1>7

\* main's stages, its exit code and its servers are what they should be in
\* every state of every start: the invariant behind the theorems below.
LEMMA DaemonInvariant == Spec => []DaemonInv
  <1>1. DaemonInv /\ [Next]_vars => DaemonInv'
    <2> SUFFICES ASSUME DaemonInv, [Next]_vars PROVE DaemonInv'
      OBVIOUS
    <2>1. CASE MainStep
      BY <2>1, StartKeepsInv, SetupKeepsInv, ServeKeepsInv DEF MainStep
    <2>2. CASE InitialPass
      BY <2>2, SetupKeepsInv
    <2>3. CASE \E s \in Service : Bind(s) \/ ServerFails(s)
      BY <2>3, ServerKeepsInv
    <2>4. CASE PortmanShutsDown
      BY <2>4, ServerKeepsInv DEF Service
    <2>5. CASE UNCHANGED vars
      BY <2>5
      DEF vars, DaemonInv, TypeOK, ConfigKnown, ServersKnown, CauseKnown, ExitKnown,
          Started, AtWork, Ended, Source, AddressUsable
    <2> QED BY <2>1, <2>2, <2>3, <2>4, <2>5 DEF Next
  <1> QED BY <1>1, InitInv, PTL DEF Spec

\* Every variable of the daemon keeps its type.
THEOREM DaemonTypeCorrect == Spec => []TypeOK
  BY DaemonInvariant, PTL DEF DaemonInv

\* Exit code 0 means that --check-config found the file valid; a daemon that
\* went on to its registry never reports success.
THEOREM SuccessAlwaysMeansChecked == Spec => []SuccessMeansChecked
  <1>1. DaemonInv => SuccessMeansChecked
    BY DEF DaemonInv, ExitKnown, NoCode, Started, SuccessMeansChecked
  <1> QED BY <1>1, DaemonInvariant, PTL

\* No server outlives the process, and none is aborted before the Portman
\* server was told to shut down.
THEOREM NothingEverOutlivesMain == Spec => []NothingOutlivesMain
  <1>1. DaemonInv => NothingOutlivesMain
    <2> SUFFICES ASSUME DaemonInv, main = "exited"
                 PROVE  ~AtWork /\ (Started => signalled /\ exitCode = 1)
      BY DEF NothingOutlivesMain, AtWork, Started
    <2>1. AtWork => Started
      BY DEF AtWork, Started
    <2> QED BY <2>1 DEF DaemonInv, ExitKnown
  <1> QED BY <1>1, DaemonInvariant, PTL

\* The servers run the file of the first place that has one, whatever the
\* places hold: a broken file stops the start.
THEOREM AlwaysServesTheConfiguredFile == Spec => []ServesTheConfiguredFile
  <1>1. DaemonInv => ServesTheConfiguredFile
    <2> SUFFICES ASSUME DaemonInv, Started
                 PROVE  \/ cli.config = "given" /\ config = files["given"]
                        \/ cli.config = "absent" /\ config = files["etc"]
                        \/ /\ cli.config = "absent"
                           /\ config = files["cwd"] /\ files["etc"] = Missing
      BY DEF ServesTheConfiguredFile, Started
    <2>1. config = files[Source]
      BY ConfigAssumption DEF DaemonInv, ServersKnown, ConfigKnown
    <2>2. cli.config \in {"absent", "given"}
      BY DEF DaemonInv, TypeOK, Cli
    <2> QED BY <2>1, <2>2 DEF Source
  <1> QED BY <1>1, DaemonInvariant, PTL

\* A daemon whose configuration is valid gives up over its address, its
\* runtime or the end of a server, and over nothing else: from_config accepts
\* every list of endpoints that validate accepts.
THEOREM ApprovedConfigAlwaysStarts == Spec => []ApprovedConfigStarts
  <1>1. DaemonInv => ApprovedConfigStarts
    <2> SUFFICES ASSUME DaemonInv, exitCode = 1, config \in Configs, Valid(config)
                 PROVE  \/ /\ error = "address"
                           /\ \/ cli.bindAddr = "malformed"
                              \/ cli.bindAddr = "absent" /\ config.disableMetrics
                        \/ error = "runtime" /\ \A s \in Service : task[s] = "off"
                        \/ error = "server" /\ Ended # {}
      BY DEF ApprovedConfigStarts
    <2>1. config # NoConfig
      BY ConfigAssumption
    <2>2. error \in {"address", "runtime", "server"}
      BY <2>1 DEF DaemonInv, TypeOK, Cause, CauseKnown
    <2>3. CASE error = "address"
      <3>1. ~AddressUsable /\ cli.bindAddr \in {"absent", "valid", "malformed"}
        BY <2>3 DEF DaemonInv, TypeOK, CauseKnown, Cli
      <3> QED BY <2>3, <3>1 DEF AddressUsable
    <2>4. CASE error \in {"runtime", "server"}
      BY <2>4 DEF DaemonInv, CauseKnown, Started
    <2> QED BY <2>2, <2>3, <2>4
  <1> QED BY <1>1, DaemonInvariant, PTL
===============================================================================
