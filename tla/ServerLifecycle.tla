-------------------------- MODULE ServerLifecycle --------------------------
(***************************************************************************)
(* A server process from its start to its exit: main resolves the          *)
(* configuration, loads the engines, binds its ports and starts the gRPC   *)
(* listener beside TemplateServer::serve; the interrupt signal cancels     *)
(* their shared shutdown token, and serve takes the HTTP side down in      *)
(* steps: health, accept loop, admission gate, open connections, workload  *)
(* cleanup.  All of them share one deadline, save the drain of the gate    *)
(* and the gRPC listener, which have a timer of their own.                 *)
(***************************************************************************)
EXTENDS Integers, FiniteSets, Configuration

CONSTANTS
  Connections,   \* HTTP connections, each with one request at a time
  Inputs,        \* command lines, environments and files to start with
  NoInputs       \* nobody reads them any more

\* A source names fields of the configuration only, with numbers that have no
\* sign for its limits, or is refused as a whole.
IsLayer(values) ==
  /\ DOMAIN values \subseteq Fields
  /\ \A f \in Limits \cap DOMAIN values : values[f] \in Nat

IsInput(i) ==
  /\ IsLayer(i.options.values)
  /\ i.environment.values = Malformed \/ IsLayer(i.environment.values)
  /\ {i.options.config, i.environment.config} \subseteq Paths \cup {NoPath}
  /\ \A p \in Paths : i.files[p] = Malformed \/ IsLayer(i.files[p])

ASSUME InputsAssumption == \A i \in Inputs : IsInput(i)

VARIABLES
  inputs,      \* what the configuration is resolved from
  config,      \* RuntimeConfig, Refused while there is none
  backend,     \* the engines are loaded
  listening,   \* the task that waits for the interrupt has been polled
  phase, work, stopped, open,   \* the gate, see DrainContract: work is the
                                \* connections with an admitted request
  main,        \* where main, and serve inside it, are
  process,     \* HealthRegistry: the process state
  component,   \* HealthRegistry: the voice_engines component is ready
  shutdown,    \* the process's shutdown token
  closing,     \* http_shutdown, the accept loop's signal
  conns,       \* open connections
  clock,       \* 1: `deadline' has passed; 2: so has the drain's timer
  forced,      \* http_forced
  force,       \* the token the workload's cleanup was given
  cleanup,     \* the future of Workload::shutdown
  result,      \* what serve, then main, returns
  grpc, rpcs   \* the gRPC task, and whether an RPC is open on it

bootVars == <<inputs, config, backend, listening>>
gateVars == <<phase, work, stopped, open>>
healthVars == <<process, component>>
httpVars == <<closing, conns>>
cleanupVars == <<force, cleanup>>
grpcVars == <<grpc, rpcs>>
serveVars == <<main, process, closing, forced, cleanupVars, result>>
vars == <<bootVars, gateVars, main, healthVars, shutdown, httpVars, clock, forced,
          cleanupVars, result, grpcVars>>

Gate == INSTANCE DrainContract WITH Operations <- Connections

Starts == {"boot", "load", "bindHttp", "bindGrpc", "serve"}
Mains == Starts \cup {"selecting", "ended", "stopping", "closing", "gate", "draining",
          "joining", "cleanup", "cleaning", "finish", "served", "joinGrpc", "exited"}
GrpcEnded == {"absent", "stopped", "failed"}

TypeOK ==
  /\ config = Refused \/ DOMAIN config = Fields
  /\ backend \in BOOLEAN /\ listening \in BOOLEAN
  /\ Gate!ContractTypeOK
  /\ main \in Mains
  /\ process \in {"Starting", "Running", "Draining", "Stopped"}
  /\ component \in BOOLEAN /\ shutdown \in BOOLEAN /\ closing \in BOOLEAN
  /\ forced \in BOOLEAN /\ force \in BOOLEAN /\ rpcs \in BOOLEAN
  /\ conns \subseteq Connections
  /\ clock \in 0..2
  /\ cleanup \in {"none", "pending", "done", "dropped"}
  /\ result \in {"none", "ok", "server_error", "http_timeout", "cleanup_timeout",
                 "config_error", "bind_error", "grpc_failed", "killed"}
  /\ grpc \in GrpcEnded \cup {"serving", "draining"}

Init ==
  /\ inputs \in Inputs
  /\ config = Refused
  /\ backend = FALSE
  /\ listening = FALSE
  /\ Gate!ContractInit
  /\ main = "boot"
  /\ process = "Starting"
  /\ component = FALSE
  /\ shutdown = FALSE
  /\ closing = FALSE
  /\ conns = {}
  /\ clock = 0
  /\ forced = FALSE
  /\ force = FALSE
  /\ cleanup = "none"
  /\ result = "none"
  /\ grpc = "absent"
  /\ rpcs = FALSE

-----------------------------------------------------------------------------
(***************************************************************************)
(* Start.  Without engines the server is live, not ready, and without a    *)
(* gRPC listener; a configuration that is no good or a port that cannot be *)
(* bound ends the process.                                                 *)
(***************************************************************************)
Exit(why) ==
  /\ main' = "exited"
  /\ result' = why

Configure ==
  /\ main = "boot"
  /\ config' = Resolve(inputs.options, inputs.environment, inputs.files)
  /\ inputs' = NoInputs
  /\ IF config' = Refused THEN Exit("config_error") ELSE main' = "load" /\ UNCHANGED result
  /\ UNCHANGED <<backend, listening, gateVars, healthVars, shutdown, httpVars, clock, forced,
                 cleanupVars, grpcVars>>

LoadEngines ==
  /\ main = "load"
  /\ backend' \in BOOLEAN
  /\ main' = "bindHttp"
  /\ UNCHANGED <<inputs, config, listening, gateVars, healthVars, shutdown, httpVars, clock,
                 forced, cleanupVars, result, grpcVars>>

BindHttp ==
  /\ main = "bindHttp"
  /\ \/ main' = (IF backend THEN "bindGrpc" ELSE "serve") /\ UNCHANGED result
     \/ Exit("bind_error")
  /\ UNCHANGED <<bootVars, gateVars, healthVars, shutdown, httpVars, clock, forced,
                 cleanupVars, grpcVars>>

BindGrpc ==
  /\ main = "bindGrpc"
  /\ \/ main' = "serve" /\ grpc' = "serving" /\ UNCHANGED result
     \/ Exit("bind_error") /\ UNCHANGED grpc
  /\ UNCHANGED <<bootVars, gateVars, healthVars, shutdown, httpVars, clock, forced,
                 cleanupVars, rpcs>>

\* TemplateServer::with_limits: the workload's routes say whether it is ready.
Serve ==
  /\ main = "serve"
  /\ component' = backend
  /\ process' = "Running"
  /\ main' = "selecting"
  /\ UNCHANGED <<bootVars, gateVars, shutdown, httpVars, clock, forced, cleanupVars, result,
                 grpcVars>>

\* The task is spawned once the HTTP port is bound, and polled by some worker.
Listen ==
  /\ main \notin {"boot", "load", "bindHttp", "exited"}
  /\ ~listening
  /\ listening' = TRUE
  /\ UNCHANGED <<inputs, config, backend, gateVars, serveVars, component, shutdown, conns,
                 clock, grpcVars>>

\* The first interrupt that is listened for; later ones do nothing.
Signal ==
  /\ main # "exited"
  /\ listening
  /\ ~shutdown
  /\ shutdown' = TRUE
  /\ UNCHANGED <<bootVars, gateVars, serveVars, component, conns, clock, grpcVars>>

\* Until then an interrupt does what it does by default.
Killed ==
  /\ main # "exited"
  /\ ~listening
  /\ Exit("killed")
  /\ UNCHANGED <<bootVars, gateVars, healthVars, shutdown, httpVars, clock, forced,
                 cleanupVars, grpcVars>>

-----------------------------------------------------------------------------
(***************************************************************************)
(* Connections.  The accept loop runs inside the server future, which      *)
(* serve polls in its select and again when it joins; the connections      *)
(* have tasks of their own.                                                *)
(***************************************************************************)
Accept(c) ==
  /\ main \in {"selecting", "joining"}
  /\ c \notin conns
  /\ conns' = conns \cup {c}
  /\ UNCHANGED <<bootVars, gateVars, serveVars, component, shutdown, clock, grpcVars>>

Request(c) ==
  /\ main # "exited"
  /\ c \in conns
  /\ Gate!Admit(c)
  /\ UNCHANGED <<bootVars, serveVars, component, shutdown, conns, clock, grpcVars>>

Finish(c) ==
  /\ main # "exited"
  /\ Gate!Leave(c)
  /\ UNCHANGED <<bootVars, serveVars, component, shutdown, conns, clock, grpcVars>>

Close(c) ==
  /\ main # "exited"
  /\ c \in conns \ work
  /\ conns' = conns \ {c}
  /\ UNCHANGED <<bootVars, gateVars, serveVars, component, shutdown, clock, grpcVars>>

\* Whoever made the gate terminal cancels its token next.
Announce ==
  /\ main # "exited"
  /\ ~stopped
  /\ Gate!Announce
  /\ UNCHANGED <<bootVars, serveVars, component, shutdown, conns, clock, grpcVars>>

\* The drain's timer is started after `deadline' was taken, with the same
\* length.
Tick ==
  /\ \/ main \in {"gate", "draining", "joining", "cleanup", "cleaning"} /\ clock = 0
     \/ main = "draining" /\ clock = 1
  /\ clock' = clock + 1
  /\ UNCHANGED <<bootVars, gateVars, serveVars, component, shutdown, conns, grpcVars>>

-----------------------------------------------------------------------------
(***************************************************************************)
(* serve: the server ends by itself.                                       *)
(***************************************************************************)
ServerEnds ==
  /\ main = "selecting"
  /\ main' = "ended"
  /\ process' = "Draining"
  /\ result' = "server_error"
  /\ UNCHANGED <<bootVars, gateVars, component, shutdown, httpVars, clock, forced, cleanupVars, grpcVars>>

StopNow ==
  /\ main = "ended"
  /\ Gate!Force
  /\ main' = "stopping"
  /\ UNCHANGED <<bootVars, healthVars, shutdown, httpVars, clock, forced, cleanupVars, result, grpcVars>>

Stopped ==
  /\ main = "stopping"
  /\ stopped
  /\ main' = "cleanup"
  /\ UNCHANGED <<bootVars, gateVars, healthVars, shutdown, httpVars, clock, forced, cleanupVars, result, grpcVars>>

-----------------------------------------------------------------------------
(***************************************************************************)
(* serve: the shutdown token is cancelled.                                 *)
(***************************************************************************)

\* Bug: readiness is withdrawn only at the end.
ShutdownSeenQuietly ==
  /\ main = "selecting"
  /\ shutdown
  /\ main' = "closing"
  /\ UNCHANGED <<bootVars, gateVars, healthVars, shutdown, httpVars, clock, forced, cleanupVars, result, grpcVars>>

ShutdownSeen ==
  /\ main = "selecting"
  /\ shutdown
  /\ main' = "closing"
  /\ process' = "Draining"
  /\ UNCHANGED <<bootVars, gateVars, component, shutdown, httpVars, clock, forced, cleanupVars, result, grpcVars>>

CloseHttp ==
  /\ main = "closing"
  /\ main' = "gate"
  /\ closing' = TRUE
  /\ UNCHANGED <<bootVars, gateVars, healthVars, shutdown, conns, clock, forced, cleanupVars, result, grpcVars>>

StartDrain ==
  /\ main = "gate"
  /\ Gate!StartDrain
  /\ main' = "draining"
  /\ UNCHANGED <<bootVars, healthVars, shutdown, httpVars, clock, forced, cleanupVars, result, grpcVars>>

DrainTimesOut ==
  /\ main = "draining"
  /\ clock = 2
  /\ Gate!Force
  /\ UNCHANGED <<bootVars, serveVars, component, shutdown, conns, clock, grpcVars>>

DrainReturns ==
  /\ main = "draining"
  /\ stopped
  /\ main' = "joining"
  /\ forced' = (phase = "Forced")
  /\ UNCHANGED <<bootVars, gateVars, healthVars, shutdown, httpVars, clock, cleanupVars, result, grpcVars>>

\* Bug: a join that timed out counts as one that did not.
JoinIgnoresTimeout ==
  /\ main = "joining"
  /\ conns = {} \/ clock > 0
  /\ main' = "cleanup"
  /\ force' = forced
  /\ UNCHANGED <<bootVars, gateVars, healthVars, shutdown, httpVars, clock, forced, cleanup, result, grpcVars>>

\* Bug: the cleanup of a forced shutdown is not told.
JoinWithoutForce ==
  /\ main = "joining"
  /\ \/ conns = {} /\ UNCHANGED forced
     \/ conns # {} /\ clock > 0 /\ forced' = TRUE
  /\ main' = "cleanup"
  /\ UNCHANGED <<bootVars, gateVars, healthVars, shutdown, httpVars, clock, force, cleanup, result, grpcVars>>

\* timeout_at looks at the server first, at the deadline next.  The gate is
\* terminal by now and its token cancelled: stop_now changes nothing.
Join ==
  /\ main = "joining"
  /\ \/ conns = {} /\ UNCHANGED forced
     \/ conns # {} /\ clock > 0 /\ forced' = TRUE
  /\ main' = "cleanup"
  /\ force' = forced'
  /\ UNCHANGED <<bootVars, gateVars, healthVars, shutdown, httpVars, clock, cleanup, result, grpcVars>>

-----------------------------------------------------------------------------
(***************************************************************************)
(* poll_workload_shutdown: the cleanup is polled once whatever the time    *)
(* is, then until the deadline, and dropped after its token is cancelled.  *)
(***************************************************************************)
Dropped == cleanup' = "dropped" /\ force' = TRUE /\ main' = "finish"
Cleaned == cleanup' = "done" /\ UNCHANGED force /\ main' = "finish"

PollCleanup ==
  /\ main = "cleanup"
  /\ \/ Cleaned
     \/ clock > 0 /\ Dropped
     \/ clock = 0 /\ cleanup' = "pending" /\ UNCHANGED force /\ main' = "cleaning"
  /\ UNCHANGED <<bootVars, gateVars, healthVars, shutdown, httpVars, clock, forced, result, grpcVars>>

CleanupFinishes ==
  /\ main = "cleaning"
  /\ Cleaned
  /\ UNCHANGED <<bootVars, gateVars, healthVars, shutdown, httpVars, clock, forced, result, grpcVars>>

\* Bug: the deadline covers only the first poll.
CleanupUnbounded ==
  /\ main = "cleaning" /\ clock > 1
  /\ Dropped
  /\ UNCHANGED <<bootVars, gateVars, healthVars, shutdown, httpVars, clock, forced, result, grpcVars>>

CleanupLate ==
  /\ main = "cleaning"
  /\ clock > 0
  /\ Dropped
  /\ UNCHANGED <<bootVars, gateVars, healthVars, shutdown, httpVars, clock, forced, result, grpcVars>>

FinishServe ==
  /\ main = "finish"
  /\ main' = "served"
  /\ process' = "Stopped"
  /\ result' = IF forced THEN "http_timeout"
               ELSE IF cleanup = "dropped" THEN "cleanup_timeout"
               ELSE IF result = "none" THEN "ok" ELSE result
  /\ UNCHANGED <<bootVars, gateVars, component, shutdown, httpVars, clock, forced, cleanupVars, grpcVars>>

CancelAll ==
  /\ main = "served"
  /\ main' = "joinGrpc"
  /\ shutdown' = TRUE
  /\ UNCHANGED <<bootVars, gateVars, healthVars, httpVars, clock, forced, cleanupVars, result, grpcVars>>

JoinGrpc ==
  /\ main = "joinGrpc"
  /\ grpc \in GrpcEnded
  /\ main' = "exited"
  /\ result' = IF grpc = "failed" THEN "grpc_failed" ELSE result
  /\ UNCHANGED <<bootVars, gateVars, healthVars, shutdown, httpVars, clock, forced, cleanupVars, grpcVars>>

-----------------------------------------------------------------------------
(***************************************************************************)
(* grpc::serve, on a task of its own.  It sees the shutdown token twice:   *)
(* as the listener's shutdown signal and in its own select.                *)
(***************************************************************************)
GrpcGoto(where) ==
  /\ main # "exited"
  /\ grpc' = where
  /\ UNCHANGED <<bootVars, gateVars, serveVars, component, shutdown, conns, clock, rpcs>>

RpcsChange ==
  /\ main # "exited"
  /\ rpcs \/ grpc = "serving"
  /\ rpcs' = ~rpcs
  /\ UNCHANGED <<bootVars, gateVars, serveVars, component, shutdown, conns, clock, grpc>>

GrpcFails == grpc \in {"serving", "draining"} /\ GrpcGoto("failed")

GrpcSeesShutdown == grpc = "serving" /\ shutdown /\ GrpcGoto("draining")

GrpcFinishes == grpc \in {"serving", "draining"} /\ shutdown /\ ~rpcs /\ GrpcGoto("stopped")

GrpcLate == grpc = "draining" /\ rpcs /\ GrpcGoto("failed")

-----------------------------------------------------------------------------
ServeStep ==
  \/ StopNow \/ Stopped
  \/ ShutdownSeen \/ CloseHttp \/ StartDrain \/ DrainTimesOut \/ DrainReturns \/ Join
  \/ PollCleanup \/ CleanupLate \/ FinishServe

MainStep == Configure \/ LoadEngines \/ BindHttp \/ BindGrpc \/ Serve \/ CancelAll \/ JoinGrpc

GrpcStep == GrpcSeesShutdown \/ GrpcFinishes \/ GrpcLate

Next ==
  \/ Listen \/ Signal \/ Killed \/ ServerEnds \/ CleanupFinishes
  \/ \E c \in Connections : Accept(c) \/ Request(c) \/ Finish(c) \/ Close(c)
  \/ Announce \/ Tick
  \/ ServeStep \/ MainStep
  \/ RpcsChange \/ GrpcFails \/ GrpcStep

(***************************************************************************)
(* Clocks advance and the executor polls serve, main and the gRPC task     *)
(* when they can go on.  Nothing makes a connection close, an RPC end or   *)
(* the workload's cleanup finish.                                          *)
(***************************************************************************)
Fairness ==
  /\ WF_vars(ServeStep)
  /\ WF_vars(MainStep)
  /\ WF_vars(GrpcStep)
  /\ WF_vars(Announce)
  /\ WF_vars(Tick)

Spec == Init /\ [][Next]_vars /\ Fairness

-----------------------------------------------------------------------------
(***************************************************************************)
(* /health/ready says yes only while the gate admits: the two are changed  *)
(* in different places and read by other threads in between.               *)
(***************************************************************************)
Ready == process = "Running" /\ component

ReadyMeansAdmitting == Ready => phase = "Accepting"

(***************************************************************************)
(* Ports are bound, and engines offered, only under a configuration that   *)
(* is safe whatever layers it came from; a gRPC listener exists only       *)
(* beside engines.                                                         *)
(***************************************************************************)
BoundAsAllowed ==
  /\ main \notin {"boot", "exited"} =>
       /\ {config["bind"], config["grpc_bind"]} \subseteq Loopback
       /\ config["bind"] # config["grpc_bind"]
  /\ grpc # "absent" \/ component => backend

(***************************************************************************)
(* What each stage of main has established.  The stop follows the verdict  *)
(* of the gate, the cleanup follows the stop, and on the way to exit       *)
(* status 0 nothing was forced at any of the stages.                       *)
(***************************************************************************)
Opening == Starts \cup {"selecting", "ended", "closing", "gate"}
BeforeCleanup == Opening \cup {"stopping", "draining", "joining", "cleanup"}
Unforced == result = "none" /\ ~forced
CleanSoFar == phase = "Graceful" /\ conns = {} /\ ~force

GateFollowsMain ==
  /\ main \in Opening => phase = "Accepting"
  /\ process = "Running" => main \in {"selecting", "exited"}
  /\ stopped => phase \in Gate!Terminal
  /\ main \in {"joining", "cleanup", "cleaning", "finish"} => stopped
  /\ main = "joining" => (forced <=> phase = "Forced")

EnginesFollowMain ==
  /\ main = "boot" => IsInput(inputs)
  /\ main \in {"boot", "load"} => grpc = "absent" /\ ~component
  /\ main = "bindGrpc" => backend
  /\ grpc \in {"absent", "stopped"} => ~rpcs

ResultFollowsMain ==
  /\ main \in {"ended", "stopping"} => result = "server_error"
  /\ main \in BeforeCleanup \cup {"cleaning", "finish"} => result \in {"none", "server_error"}
  /\ main \in BeforeCleanup => cleanup = "none"
  /\ main \in Opening \cup {"stopping", "draining"} => ~forced
  /\ main \in {"cleanup", "cleaning", "finish"} /\ forced => force
  /\ main \in {"cleanup", "cleaning"} /\ Unforced => CleanSoFar
  /\ main = "finish" /\ Unforced /\ cleanup = "done" => CleanSoFar
  /\ main = "finish" => cleanup \in {"done", "dropped"}
  /\ main \in {"served", "joinGrpc"} /\ result = "ok" => CleanSoFar /\ cleanup = "done"

LifecycleInv ==
  /\ TypeOK
  /\ ReadyMeansAdmitting
  /\ BoundAsAllowed
  /\ GateFollowsMain
  /\ EnginesFollowMain
  /\ ResultFollowsMain

(***************************************************************************)
(* Every field has the value of the highest layer that names it, and the   *)
(* process refuses to start exactly when a source it reads is malformed or *)
(* one of these values is out of bounds: a bad value that a higher layer   *)
(* replaces does no harm, save in the environment, and two layers that are *)
(* good alone may not be together.                                         *)
(***************************************************************************)
FilesRead(i) ==
  LET path == IF i.options.config = NoPath THEN i.environment.config ELSE i.options.config
  IN {i.files[p] : p \in {path} \ {NoPath}}

Sources(i) == <<{Defaults}, FilesRead(i), {i.environment.values}, {i.options.values}>>
Naming(f, i) == {n \in 1..4 : \E l \in Sources(i)[n] : f \in DOMAIN l}
Highest(f, i) == CHOOSE n \in Naming(f, i) : \A m \in Naming(f, i) : m <= n
Effective(f, i) == CHOOSE v \in {l[f] : l \in Sources(i)[Highest(f, i)]} : TRUE

OutOfBounds(i) ==
  \/ Effective("artifact_root", i) = NoRoot
  \/ Effective("bind", i) \notin Loopback
  \/ Effective("grpc_bind", i) \notin Loopback \ {Effective("bind", i)}
  \/ \E f \in Limits : Effective(f, i) = 0 \/ Effective(f, i) > Maximum[f]

ByPrecedence(i, values) ==
  IF Malformed \in FilesRead(i) \cup {i.environment.values} \/ OutOfBounds(i)
  THEN values = Refused
  ELSE DOMAIN values = Fields /\ \A f \in Fields : values[f] = Effective(f, i)

ConfigurationByPrecedence == [][inputs' # inputs => ByPrecedence(inputs, config')]_vars

(***************************************************************************)
(* What Workload::shutdown is promised: it is polled after admission has   *)
(* stopped and the stop token is cancelled, its force token is already     *)
(* cancelled when the HTTP drain was forced, and a cleanup that is dropped *)
(* has had its token cancelled.                                            *)
(***************************************************************************)
CleanupContract ==
  cleanup # "none" =>
    /\ phase \in Gate!Terminal
    /\ stopped
    /\ forced \/ cleanup = "dropped" => force

(***************************************************************************)
(* Exit status 0 means that nothing was cut off: every admitted request    *)
(* left, every connection closed, the cleanup ran to its end unforced, and *)
(* the gRPC listener ended with no RPC open.                               *)
(***************************************************************************)
CleanExitIsClean ==
  main = "exited" /\ result = "ok" =>
    /\ phase = "Graceful"
    /\ conns = {}
    /\ cleanup = "done" /\ ~force
    /\ grpc # "failed" /\ ~rpcs

(***************************************************************************)
(* After the interrupt the process ends, although connections stay open,   *)
(* RPCs never end and the cleanup hangs.                                   *)
(***************************************************************************)
ShutdownEnds == shutdown ~> main = "exited"
=============================================================================
