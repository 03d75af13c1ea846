--------------------------- MODULE ProcessProofs ---------------------------
(***************************************************************************)
(* What holds of the processes of the program, for every profile of        *)
(* artifacts, any number of them and of connections, and whatever the      *)
(* configuration is resolved from.                                         *)
(*                                                                         *)
(* The lifecycle of a server: nothing counts there, the gate is its        *)
(* contract, and the stages of main carry what one step tells a later one. *)
(*                                                                         *)
(* The artifact store, whoever else looks at it: the lock makes what a     *)
(* setup saw at an artifact's path still true when it acts on it, so good  *)
(* objects stay where they are, objects appear whole, and a loader of the  *)
(* engines can rely on what was verified without the lock.                 *)
(***************************************************************************)
EXTENDS ServerLifecycle, EngineLoader, TLAPS

\* The layers name fields only, and together they name each of them.
LEMMA LayersCoverFields ==
  ASSUME NEW file, NEW environment, NEW options,
         DOMAIN file \subseteq Fields, DOMAIN environment \subseteq Fields,
         DOMAIN options \subseteq Fields
  PROVE  DOMAIN Overlay(Defaults, Overlay(Overlay(file, environment), options)) = Fields
BY DefaultsAssumption DEF Overlay

\* What the process goes on with has every field and is valid.
LEMMA ResolvedIsValid ==
  ASSUME NEW i, IsInput(i), NEW values,
         values = Resolve(i.options, i.environment, i.files), values # Refused
  PROVE  DOMAIN values = Fields /\ Valid(values)
<1> DEFINE file == File(i.options, i.environment, i.files)
           layers == Overlay(Overlay(file, i.environment.values), i.options.values)
<1>1. file # Malformed /\ i.environment.values # Malformed /\ values = ResolveLayers(layers)
  BY DEF Resolve
<1>2. values = Overlay(Defaults, layers) /\ Valid(values)
  BY <1>1 DEF ResolveLayers
<1>3. DOMAIN file \subseteq Fields
  <2>1. DOMAIN Nothing \subseteq Fields
    BY DEF Nothing
  <2>2. \A p \in Paths : i.files[p] = Malformed \/ DOMAIN i.files[p] \subseteq Fields
    BY DEF IsInput, IsLayer
  <2> QED
    BY <1>1, <2>1, <2>2 DEF File, IsInput
<1>4. DOMAIN i.environment.values \subseteq Fields /\ DOMAIN i.options.values \subseteq Fields
  BY <1>1 DEF IsInput, IsLayer
<1> HIDE DEF file
<1> QED
  BY <1>2, <1>3, <1>4, LayersCoverFields

\* What is read when the layers are good, and the sources they are read from.
LEMMA SourcesRead ==
  ASSUME NEW i, IsInput(i)
  PROVE  LET file == File(i.options, i.environment, i.files)
             good == Malformed \notin {file, i.environment.values}
             S == Sources(i)
         IN  /\ good <=> Malformed \notin FilesRead(i) \cup {i.environment.values}
             /\ S[1] = {Defaults} /\ S[3] = {i.environment.values} /\ S[4] = {i.options.values}
             /\ S[2] = {file} \/ (S[2] = {} /\ file = Nothing)
             /\ good => IsLayer(file) /\ IsLayer(i.environment.values)
<1> DEFINE file == File(i.options, i.environment, i.files)
           path == IF i.options.config = NoPath THEN i.environment.config ELSE i.options.config
<1>1. path \in Paths \cup {NoPath}
  BY DEF IsInput
<1>2. file = (IF path # NoPath THEN i.files[path] ELSE Nothing)
  BY DEF File
<1>3. FilesRead(i) = {i.files[p] : p \in {path} \ {NoPath}}
  BY DEF FilesRead
<1>4. IsLayer(Nothing) /\ Malformed # Nothing
  BY DefaultsAssumption DEF Nothing, IsLayer
<1> HIDE DEF path
<1>5. \/ FilesRead(i) = {file}
      \/ FilesRead(i) = {} /\ file = Nothing
  BY <1>2, <1>3
<1>6. file # Malformed => IsLayer(file)
  BY <1>1, <1>2, <1>4 DEF IsInput
<1>7. i.environment.values # Malformed => IsLayer(i.environment.values)
  BY DEF IsInput
<1> HIDE DEF file
<1>8. Sources(i)[2] = FilesRead(i) /\ Sources(i)[1] = {Defaults}
      /\ Sources(i)[3] = {i.environment.values} /\ Sources(i)[4] = {i.options.values}
  BY DEF Sources
<1> QED
  BY <1>4, <1>5, <1>6, <1>7, <1>8 DEF file

\* The layer that has the last word about a field.
LEMMA LastWord ==
  ASSUME NEW i, NEW f, NEW n \in 1..4, NEW l, Sources(i)[n] = {l}, f \in DOMAIN l,
         \A m \in Naming(f, i) : m <= n
  PROVE  Effective(f, i) = l[f]
<1>1. n \in Naming(f, i) /\ \A m \in Naming(f, i) : m \in Nat
  BY DEF Naming
<1>2. Highest(f, i) = n
  BY <1>1 DEF Highest
<1>3. {k[f] : k \in Sources(i)[n]} = {l[f]}
  OBVIOUS
<1> QED
  BY <1>2, <1>3 DEF Effective

\* To lay one source over the next is to ask the last one first.
LEMMA EffectiveIsMerged ==
  ASSUME NEW i, IsInput(i), NEW file, file = File(i.options, i.environment, i.files),
         Malformed \notin {file, i.environment.values}, NEW f \in Fields
  PROVE  Effective(f, i) =
           Overlay(Defaults, Overlay(Overlay(file, i.environment.values), i.options.values))[f]
<1> DEFINE e == i.environment.values
           o == i.options.values
           merged == Overlay(Defaults, Overlay(Overlay(file, e), o))
<1> SUFFICES Effective(f, i) = merged[f]
  OBVIOUS
<1>1. /\ Sources(i)[1] = {Defaults} /\ Sources(i)[3] = {e} /\ Sources(i)[4] = {o}
      /\ Sources(i)[2] = {file} \/ (Sources(i)[2] = {} /\ file = Nothing)
  BY SourcesRead
<1>2. f \in DOMAIN Defaults
  BY DefaultsAssumption
<1>3. DOMAIN Nothing = {}
  BY DEF Nothing
<1>4. \A m \in Naming(f, i) : m \in 1..4 /\ \E l \in Sources(i)[m] : f \in DOMAIN l
  BY DEF Naming
<1> HIDE DEF e, o
<1>5. merged[f] = IF f \in DOMAIN o THEN o[f] ELSE IF f \in DOMAIN e THEN e[f]
                  ELSE IF f \in DOMAIN file THEN file[f] ELSE Defaults[f]
  BY <1>2 DEF Overlay
<1> HIDE DEF merged
<1>6. CASE f \in DOMAIN o
  <2>1. \A m \in Naming(f, i) : m <= 4
    BY <1>4
  <2> QED
    BY <1>1, <1>5, <1>6, <2>1, 4 \in 1..4, LastWord
<1>7. CASE f \notin DOMAIN o /\ f \in DOMAIN e
  <2>1. \A m \in Naming(f, i) : m <= 3
    BY <1>1, <1>4, <1>7
  <2> QED
    BY <1>1, <1>5, <1>7, <2>1, LastWord
<1>8. CASE f \notin DOMAIN o /\ f \notin DOMAIN e /\ f \in DOMAIN file
  <2>1. \A m \in Naming(f, i) : m <= 2
    BY <1>1, <1>4, <1>8
  <2>2. Sources(i)[2] = {file}
    BY <1>1, <1>3, <1>8
  <2> QED
    BY <1>5, <1>8, <2>1, <2>2, LastWord
<1>9. CASE f \notin DOMAIN o /\ f \notin DOMAIN e /\ f \notin DOMAIN file
  <2>1. \A m \in Naming(f, i) : m <= 1
    BY <1>1, <1>4, <1>9
  <2> QED
    BY <1>1, <1>2, <1>5, <1>9, <2>1, LastWord
<1> QED
  BY <1>6, <1>7, <1>8, <1>9

LEMMA ResolvedByPrecedence ==
  ASSUME NEW i, IsInput(i)
  PROVE  ByPrecedence(i, Resolve(i.options, i.environment, i.files))
<1> DEFINE file == File(i.options, i.environment, i.files)
           e == i.environment.values
           o == i.options.values
           merged == Overlay(Defaults, Overlay(Overlay(file, e), o))
           values == Resolve(i.options, i.environment, i.files)
<1>1. Malformed \in {file, e} <=> Malformed \in FilesRead(i) \cup {e}
  BY SourcesRead
<1>2. CASE Malformed \in {file, e}
  <2>1. values = Refused
    BY <1>2 DEF Resolve
  <2> QED
    BY <1>1, <1>2, <2>1 DEF ByPrecedence
<1>3. CASE Malformed \notin {file, e}
  <2>1. values = IF Valid(merged) THEN merged ELSE Refused
    BY <1>3 DEF Resolve, ResolveLayers
  <2>2. IsLayer(file) /\ IsLayer(e) /\ IsLayer(o)
    BY <1>3, SourcesRead DEF IsInput
  <2>3. DOMAIN merged = Fields
    BY <2>2, LayersCoverFields DEF IsLayer
  <2>4. \A f \in Fields : Effective(f, i) = merged[f]
    BY <1>3, EffectiveIsMerged
  <2>6. ASSUME NEW f \in Limits
        PROVE  merged[f] \in Nat /\ Maximum[f] \in Nat
    <3>1. f \in Fields /\ Defaults[f] \in Nat /\ Maximum[f] \in Nat
      BY DefaultsAssumption DEF Fields
    <3>2. \A l : IsLayer(l) /\ f \in DOMAIN l => l[f] \in Nat
      BY DEF IsLayer
    <3>3. merged[f] = IF f \in DOMAIN o THEN o[f] ELSE IF f \in DOMAIN e THEN e[f]
                      ELSE IF f \in DOMAIN file THEN file[f] ELSE Defaults[f]
      <4> HIDE DEF e, o, file
      <4>1. f \in DOMAIN Defaults
        BY <3>1, DefaultsAssumption
      <4> QED
        BY <4>1 DEF Overlay
    <3> HIDE DEF merged, e, o, file
    <3> QED
      BY <2>2, <3>1, <3>2, <3>3
  <2> HIDE DEF merged, values
  <2>7. /\ merged["artifact_root"] = Effective("artifact_root", i)
        /\ merged["bind"] = Effective("bind", i)
        /\ merged["grpc_bind"] = Effective("grpc_bind", i)
        /\ \A f \in Limits : merged[f] = Effective(f, i)
    BY <2>4 DEF Fields
  <2>8. \A f \in Limits : merged[f] \notin 1..Maximum[f] <=> merged[f] = 0 \/ merged[f] > Maximum[f]
    BY <2>6
  <2>9. Valid(merged) <=> ~OutOfBounds(i)
    BY <2>7, <2>8 DEF Valid, OutOfBounds
  <2> QED
    BY <1>1, <1>3, <2>1, <2>3, <2>4, <2>9 DEF ByPrecedence, values
<1> QED
  BY <1>2, <1>3

-----------------------------------------------------------------------------
\* A process starts with everything closed and its inputs unread.
LEMMA LifecycleInvInit == Init => LifecycleInv
<1> SUFFICES ASSUME Init PROVE LifecycleInv
  OBVIOUS
<1>1. TypeOK
  <2>1. Gate!ContractTypeOK
    BY DEF Init, Gate!ContractInit, Gate!ContractTypeOK, Gate!Phases
  <2>2. clock \in 0..2
    BY DEF Init
  <2>3. main \in Mains /\ grpc \in GrpcEnded
    BY DEF Init, Mains, Starts, GrpcEnded
  <2> QED
    BY <2>1, <2>2, <2>3 DEF Init, TypeOK
<1>2. ReadyMeansAdmitting /\ BoundAsAllowed
  BY DEF Init, ReadyMeansAdmitting, Ready, BoundAsAllowed
<1>3. GateFollowsMain /\ EnginesFollowMain
  BY InputsAssumption DEF Init, Gate!ContractInit, GateFollowsMain, EnginesFollowMain
<1>4. ResultFollowsMain
  BY DEF Init, ResultFollowsMain, BeforeCleanup, Opening
<1> QED
  BY <1>1, <1>2, <1>3, <1>4 DEF LifecycleInv

\* The steps of main before serve.
LEMMA LifecycleInvStart ==
  ASSUME LifecycleInv,
         Configure \/ LoadEngines \/ BindHttp \/ BindGrpc \/ Serve \/ Killed
  PROVE  LifecycleInv'
<1> USE DEF LifecycleInv
<1>1. gateVars' = gateVars /\ UNCHANGED <<shutdown, httpVars, clock, forced, cleanupVars, rpcs>>
  BY DEF Configure, LoadEngines, BindHttp, BindGrpc, Serve, Killed, Exit, grpcVars
<1>2. main \in Starts \/ Killed
  BY DEF Configure, LoadEngines, BindHttp, BindGrpc, Serve, Starts
<1>3. config' = config \/ Configure
  BY DEF LoadEngines, BindHttp, BindGrpc, Serve, Killed, bootVars
<1>4. Configure /\ config' # Refused => DOMAIN config' = Fields /\ Valid(config')
  BY ResolvedIsValid DEF Configure, EnginesFollowMain
<1>5. TypeOK'
  BY <1>1, <1>4 DEF TypeOK, Gate!ContractTypeOK, gateVars, httpVars, cleanupVars, bootVars, healthVars,
     grpcVars, Configure, LoadEngines, BindHttp, BindGrpc, Serve, Killed, Exit, Mains, Starts, GrpcEnded
<1>6. ReadyMeansAdmitting'
  BY <1>1 DEF ReadyMeansAdmitting, Ready, GateFollowsMain, Opening, Starts, gateVars, healthVars,
     Configure, LoadEngines, BindHttp, BindGrpc, Serve, Killed
<1>7. BoundAsAllowed'
  BY <1>3, <1>4 DEF BoundAsAllowed, EnginesFollowMain, Valid, bootVars, healthVars, grpcVars,
     Configure, LoadEngines, BindHttp, BindGrpc, Serve, Killed, Exit
<1>8. GateFollowsMain'
  BY <1>1 DEF GateFollowsMain, Opening, Starts, gateVars, healthVars,
     Configure, LoadEngines, BindHttp, BindGrpc, Serve, Killed, Exit
<1>9. EnginesFollowMain'
  BY <1>1 DEF EnginesFollowMain, healthVars, grpcVars, bootVars,
     Configure, LoadEngines, BindHttp, BindGrpc, Serve, Killed, Exit
<1>10. ResultFollowsMain'
  BY <1>1 DEF ResultFollowsMain, BeforeCleanup, Opening, Starts, Unforced, CleanSoFar, gateVars,
     httpVars, cleanupVars,
     Configure, LoadEngines, BindHttp, BindGrpc, Serve, Killed, Exit
<1> QED
  BY <1>5, <1>6, <1>7, <1>8, <1>9, <1>10
\* The interrupt, and the tasks of the connections and of the gRPC listener.
LEMMA LifecycleInvTasks ==
  ASSUME LifecycleInv,
         \/ Listen \/ Signal \/ Tick
         \/ \E c \in Connections : Accept(c) \/ Close(c)
         \/ RpcsChange \/ GrpcFails \/ GrpcStep
  PROVE  LifecycleInv'
<1> USE DEF LifecycleInv
<1>1. UNCHANGED <<inputs, config, backend, gateVars, serveVars, component>>
  BY DEF Listen, Signal, Tick, Accept, Close, RpcsChange, GrpcFails, GrpcStep, GrpcSeesShutdown,
     GrpcFinishes, GrpcLate, GrpcGoto, bootVars
<1> USE DEF gateVars, serveVars, cleanupVars
<1>2. /\ conns' \subseteq conns \/ main \in {"selecting", "joining"}
      /\ conns' \subseteq Connections
  BY DEF Listen, Signal, Tick, Accept, Close, RpcsChange, GrpcFails, GrpcStep, GrpcSeesShutdown,
     GrpcFinishes, GrpcLate, GrpcGoto, TypeOK
<1>3. /\ grpc' = grpc \/ grpc \in {"serving", "draining"}
      /\ grpc' \in GrpcEnded \cup {"serving", "draining"}
      /\ grpc' = "absent" => grpc = "absent"
      /\ grpc' \in {"absent", "stopped"} => ~rpcs'
  BY DEF Listen, Signal, Tick, Accept, Close, RpcsChange, GrpcFails, GrpcStep, GrpcSeesShutdown,
     GrpcFinishes, GrpcLate, GrpcGoto, TypeOK, EnginesFollowMain, grpcVars, GrpcEnded
<1>4. /\ listening' \in {listening, TRUE} /\ shutdown' \in {shutdown, TRUE}
      /\ rpcs' = rpcs \/ rpcs' = ~rpcs
  BY DEF Listen, Signal, Tick, Accept, Close, RpcsChange, GrpcFails, GrpcStep, GrpcSeesShutdown,
     GrpcFinishes, GrpcLate, GrpcGoto, grpcVars, bootVars
<1>9. clock' \in 0..2
  <2>1. CASE Tick
    BY <2>1 DEF Tick, TypeOK
  <2>2. CASE clock' = clock
    BY <2>2 DEF TypeOK
  <2> QED
    BY <2>1, <2>2 DEF Listen, Signal, Accept, Close, RpcsChange, GrpcFails, GrpcStep,
       GrpcSeesShutdown, GrpcFinishes, GrpcLate, GrpcGoto
<1>5. TypeOK'
  <2>1. listening' \in BOOLEAN /\ shutdown' \in BOOLEAN /\ rpcs' \in BOOLEAN
    BY <1>4 DEF TypeOK
  <2>2. Gate!ContractTypeOK'
    BY <1>1 DEF TypeOK, Gate!ContractTypeOK
  <2> QED
    BY <1>1, <1>2, <1>3, <1>9, <2>1, <2>2 DEF TypeOK
<1>6. ReadyMeansAdmitting' /\ GateFollowsMain'
  BY <1>1 DEF ReadyMeansAdmitting, Ready, GateFollowsMain
<1>7. BoundAsAllowed' /\ EnginesFollowMain'
  BY <1>1, <1>3 DEF BoundAsAllowed, EnginesFollowMain
<1>8. ResultFollowsMain'
  BY <1>1, <1>2 DEF ResultFollowsMain, BeforeCleanup, Opening, Starts, Unforced, CleanSoFar
<1> QED
  BY <1>5, <1>6, <1>7, <1>8

\* Requests enter and leave the gate, and the gate announces its verdict.
LEMMA LifecycleInvGate ==
  ASSUME LifecycleInv,
         (\E c \in Connections : Request(c) \/ Finish(c)) \/ Announce \/ DrainTimesOut
  PROVE  LifecycleInv'
<1> USE DEF LifecycleInv
<1>1. UNCHANGED <<bootVars, serveVars, component, shutdown, conns, clock, grpcVars>>
  BY DEF Request, Finish, Announce, DrainTimesOut
<1> USE DEF bootVars, serveVars, cleanupVars, grpcVars
<1>2. /\ phase' # phase => (phase = "Draining" /\ phase' \in Gate!Terminal) \/ main = "draining"
      /\ phase \in Gate!Terminal => phase' = phase
      /\ stopped' => stopped \/ phase \in Gate!Terminal
      /\ stopped => stopped'
  BY DEF Request, Finish, Announce, DrainTimesOut, Gate!Admit, Gate!Leave, Gate!Announce,
     Gate!Force, Gate!Terminal
<1>3. Gate!ContractTypeOK'
  BY DEF TypeOK, Gate!ContractTypeOK, Gate!Phases, Gate!Terminal, Request, Finish, Announce,
     DrainTimesOut, Gate!Admit, Gate!Leave, Gate!Announce, Gate!Force
<1>4. TypeOK'
  BY <1>1, <1>3 DEF TypeOK
<1>5. ReadyMeansAdmitting' /\ GateFollowsMain'
  BY <1>1, <1>2 DEF ReadyMeansAdmitting, Ready, GateFollowsMain, Opening, Starts, Gate!Terminal
<1>6. BoundAsAllowed' /\ EnginesFollowMain'
  BY <1>1 DEF BoundAsAllowed, EnginesFollowMain
<1>7. ResultFollowsMain'
  BY <1>1, <1>2 DEF ResultFollowsMain, BeforeCleanup, Opening, Starts, Unforced, CleanSoFar,
     GateFollowsMain, Gate!Terminal
<1> QED
  BY <1>4, <1>5, <1>6, <1>7

\* serve on its way from the select to the workload's cleanup.
LEMMA LifecycleInvServe ==
  ASSUME LifecycleInv,
         \/ ServerEnds \/ StopNow \/ Stopped
         \/ ShutdownSeen \/ CloseHttp \/ StartDrain \/ DrainReturns \/ Join
  PROVE  LifecycleInv'
<1> USE DEF LifecycleInv
<1>1. UNCHANGED <<bootVars, component, shutdown, conns, clock, cleanup, grpcVars>>
  BY DEF ServerEnds, StopNow, Stopped, ShutdownSeen, CloseHttp, StartDrain, DrainReturns, Join,
     healthVars, httpVars, cleanupVars
<1> USE DEF bootVars, grpcVars
<1>2. Gate!ContractTypeOK'
  BY DEF TypeOK, Gate!ContractTypeOK, Gate!Phases, Gate!Terminal, gateVars, ServerEnds, StopNow,
     Stopped, ShutdownSeen, CloseHttp, StartDrain, DrainReturns, Join, Gate!StartDrain, Gate!Force
<1>3. TypeOK'
  <2>1. main' \in Mains
    BY DEF Mains, ServerEnds, StopNow, Stopped, ShutdownSeen, CloseHttp, StartDrain, DrainReturns, Join
  <2>2. /\ process' \in {process, "Draining"}
        /\ result' \in {result, "server_error"}
        /\ closing' \in BOOLEAN /\ forced' \in BOOLEAN /\ force' \in BOOLEAN
    BY DEF TypeOK, healthVars, httpVars, cleanupVars, ServerEnds, StopNow, Stopped, ShutdownSeen,
       CloseHttp, StartDrain, DrainReturns, Join
  <2> QED
    BY <1>1, <1>2, <2>1, <2>2 DEF TypeOK
<1>4. ReadyMeansAdmitting'
  BY <1>1 DEF ReadyMeansAdmitting, Ready, GateFollowsMain, gateVars, healthVars, ServerEnds, StopNow,
     Stopped, ShutdownSeen, CloseHttp, StartDrain, DrainReturns, Join
<1>7. GateFollowsMain'
  <2> USE DEF GateFollowsMain, Opening, Starts, Gate!Terminal, gateVars, healthVars
  <2>1. CASE ServerEnds \/ ShutdownSeen \/ CloseHttp
    BY <2>1 DEF ServerEnds, ShutdownSeen, CloseHttp
  <2>2. CASE StopNow \/ Stopped
    BY <2>2 DEF StopNow, Stopped, Gate!Force
  <2>3. CASE StartDrain
    BY <2>3 DEF StartDrain, Gate!StartDrain
  <2>4. CASE DrainReturns \/ Join
    BY <2>4 DEF DrainReturns, Join, TypeOK
  <2> QED
    BY <2>1, <2>2, <2>3, <2>4
<1>5. BoundAsAllowed' /\ EnginesFollowMain'
  BY <1>1 DEF BoundAsAllowed, EnginesFollowMain, ServerEnds, StopNow, Stopped, ShutdownSeen,
     CloseHttp, StartDrain, DrainReturns, Join
<1>6. ResultFollowsMain'
  <2> USE DEF ResultFollowsMain, BeforeCleanup, Opening, Starts, Unforced, CleanSoFar, cleanupVars
  <2>1. CASE ServerEnds \/ ShutdownSeen \/ CloseHttp \/ StartDrain \/ DrainReturns
    BY <1>1, <2>1 DEF ServerEnds, ShutdownSeen, CloseHttp, StartDrain, DrainReturns
  <2>2. CASE StopNow \/ Stopped
    BY <1>1, <2>2 DEF StopNow, Stopped
  <2>3. CASE Join
    BY <1>1, <2>3 DEF Join, GateFollowsMain, Gate!Terminal, gateVars, TypeOK
  <2> QED
    BY <2>1, <2>2, <2>3
<1> QED
  BY <1>3, <1>4, <1>5, <1>6, <1>7

\* The cleanup, and main after serve.
LEMMA LifecycleInvEnd ==
  ASSUME LifecycleInv,
         PollCleanup \/ CleanupFinishes \/ CleanupLate \/ FinishServe \/ CancelAll \/ JoinGrpc
  PROVE  LifecycleInv'
<1> USE DEF LifecycleInv
<1>1. UNCHANGED <<bootVars, gateVars, component, conns, clock, forced, grpcVars>>
  BY DEF PollCleanup, CleanupFinishes, CleanupLate, FinishServe, CancelAll, JoinGrpc, healthVars,
     httpVars
<1> USE DEF bootVars, gateVars, grpcVars
<1>2. TypeOK'
  <2>1. main' \in Mains
    BY DEF Mains, PollCleanup, CleanupFinishes, CleanupLate, Cleaned, Dropped, FinishServe,
       CancelAll, JoinGrpc
  <2>2. /\ process' \in {process, "Stopped"} /\ closing' = closing
        /\ force' \in {force, TRUE} /\ shutdown' \in {shutdown, TRUE}
        /\ cleanup' \in {cleanup, "pending", "done", "dropped"}
        /\ result' \in {result, "http_timeout", "cleanup_timeout", "ok", "grpc_failed"}
    BY DEF healthVars, httpVars, cleanupVars, PollCleanup, CleanupFinishes, CleanupLate, Cleaned,
       Dropped, FinishServe, CancelAll, JoinGrpc
  <2>3. Gate!ContractTypeOK'
    BY <1>1 DEF TypeOK, Gate!ContractTypeOK
  <2>4. clock' \in 0..2
    BY <1>1 DEF TypeOK
  <2>5. /\ config' = Refused \/ DOMAIN config' = Fields
        /\ backend' \in BOOLEAN /\ listening' \in BOOLEAN /\ component' \in BOOLEAN
        /\ forced' \in BOOLEAN /\ rpcs' \in BOOLEAN
    BY <1>1 DEF TypeOK
  <2>6. force' \in BOOLEAN /\ shutdown' \in BOOLEAN /\ closing' \in BOOLEAN
    BY <2>2 DEF TypeOK
  <2>7. /\ process' \in {"Starting", "Running", "Draining", "Stopped"}
        /\ cleanup' \in {"none", "pending", "done", "dropped"}
        /\ conns' \subseteq Connections /\ grpc' \in GrpcEnded \cup {"serving", "draining"}
    BY <1>1, <2>2 DEF TypeOK
  <2>8. result' \in {"none", "ok", "server_error", "http_timeout", "cleanup_timeout",
                     "config_error", "bind_error", "grpc_failed", "killed"}
    BY <2>2 DEF TypeOK
  <2> QED
    BY <2>1, <2>3, <2>4, <2>5, <2>6, <2>7, <2>8 DEF TypeOK
<1>3. ReadyMeansAdmitting' /\ GateFollowsMain'
  BY <1>1 DEF ReadyMeansAdmitting, Ready, GateFollowsMain, Opening, Starts, healthVars,
     PollCleanup, CleanupFinishes, CleanupLate, Cleaned, Dropped, FinishServe, CancelAll, JoinGrpc
<1>4. BoundAsAllowed' /\ EnginesFollowMain'
  BY <1>1 DEF BoundAsAllowed, EnginesFollowMain, PollCleanup, CleanupFinishes, CleanupLate, Cleaned,
     Dropped, FinishServe, CancelAll, JoinGrpc
<1>5. ResultFollowsMain'
  BY <1>1 DEF ResultFollowsMain, BeforeCleanup, Opening, Starts, Unforced, CleanSoFar, cleanupVars,
     PollCleanup, CleanupFinishes, CleanupLate, Cleaned, Dropped, FinishServe, CancelAll, JoinGrpc
<1> QED
  BY <1>2, <1>3, <1>4, <1>5
\* Every step keeps the invariant.
LEMMA LifecycleInvStep == LifecycleInv /\ [Next]_vars => LifecycleInv'
<1> SUFFICES ASSUME LifecycleInv, [Next]_vars PROVE LifecycleInv'
  OBVIOUS
<1>1. CASE Next
  BY <1>1, LifecycleInvStart, LifecycleInvTasks, LifecycleInvGate, LifecycleInvServe, LifecycleInvEnd
     DEF Next, ServeStep, MainStep
<1>2. CASE UNCHANGED vars
  BY <1>2 DEF vars, bootVars, gateVars, healthVars, httpVars, cleanupVars, grpcVars, LifecycleInv,
     TypeOK, Gate!ContractTypeOK, ReadyMeansAdmitting, Ready, BoundAsAllowed, GateFollowsMain,
     EnginesFollowMain, ResultFollowsMain, Unforced, CleanSoFar
<1> QED
  BY <1>1, <1>2

(***************************************************************************)
(* A ready server admits requests, its ports are bound as a validated      *)
(* configuration says, and each stage of main has established what the     *)
(* next ones rely on (serve in lib.rs, main in main.rs).                   *)
(***************************************************************************)
THEOREM LifecycleInvariant == Spec => []LifecycleInv
BY LifecycleInvInit, LifecycleInvStep, PTL DEF Spec

LEMMA OnlyConfigureReads == [Next]_vars => UNCHANGED inputs \/ Configure
BY DEF Next, Listen, Signal, Killed, ServerEnds, CleanupFinishes, Accept, Request, Finish, Close,
   Announce, Tick, ServeStep, MainStep, RpcsChange, GrpcFails, GrpcStep, GrpcGoto, Exit,
   LoadEngines, BindHttp, BindGrpc, Serve, CancelAll, JoinGrpc, StopNow, Stopped, ShutdownSeen,
   CloseHttp, StartDrain, DrainTimesOut, DrainReturns, Join, PollCleanup, CleanupLate,
   FinishServe, GrpcSeesShutdown, GrpcFinishes, GrpcLate, bootVars, vars

(***************************************************************************)
(* The process starts with what the highest source says of every field, or *)
(* refuses exactly when a source is malformed or one of these values is    *)
(* out of bounds, for any sources and bounds (ServerOptions::resolve and   *)
(* resolve_layers in config.rs).                                           *)
(***************************************************************************)
THEOREM ConfigurationResolved == Spec => ConfigurationByPrecedence
<1>1. LifecycleInv /\ [Next]_vars => [inputs' # inputs => ByPrecedence(inputs, config')]_vars
  <2> SUFFICES ASSUME LifecycleInv, [Next]_vars, inputs' # inputs
               PROVE  ByPrecedence(inputs, config')
    OBVIOUS
  <2>1. Configure
    BY OnlyConfigureReads
  <2>2. IsInput(inputs) /\ config' = Resolve(inputs.options, inputs.environment, inputs.files)
    BY <2>1 DEF Configure, LifecycleInv, EnginesFollowMain
  <2> QED
    BY <2>2, ResolvedByPrecedence
<1> QED
  BY <1>1, LifecycleInvariant, PTL DEF Spec, ConfigurationByPrecedence

-----------------------------------------------------------------------------
\* Only a step of the cleanup, of serve before it, or of the gate matters.
LEMMA CleanupContractStep ==
  LifecycleInv /\ CleanupContract /\ [Next]_vars => CleanupContract'
<1> SUFFICES ASSUME LifecycleInv, CleanupContract, [Next]_vars, cleanup' # "none"
             PROVE  phase' \in Gate!Terminal /\ stopped' /\ (forced' \/ cleanup' = "dropped" => force')
  BY DEF CleanupContract
<1>1. CASE PollCleanup \/ CleanupFinishes \/ CleanupLate
  <2>1. UNCHANGED <<gateVars, forced>> /\ main \in {"cleanup", "cleaning"}
    BY <1>1 DEF PollCleanup, CleanupFinishes, CleanupLate
  <2>2. stopped /\ phase \in Gate!Terminal /\ (forced => force)
    BY <2>1 DEF LifecycleInv, GateFollowsMain, ResultFollowsMain
  <2>3. (cleanup' = "dropped" /\ force' = TRUE) \/ (cleanup' # "dropped" /\ force' = force)
    BY <1>1 DEF PollCleanup, CleanupFinishes, CleanupLate, Cleaned, Dropped
  <2> QED
    BY <2>1, <2>2, <2>3 DEF gateVars
<1>2. CASE UNCHANGED <<cleanup, force, forced>>
  <2>1. (phase \in Gate!Terminal => phase' = phase) /\ (stopped => stopped')
    BY DEF Next, Listen, Signal, Killed, ServerEnds, CleanupFinishes, Accept, Request, Finish, Close,
       Announce, Tick, ServeStep, MainStep, RpcsChange, GrpcFails, GrpcStep, GrpcGoto, Configure,
       LoadEngines, BindHttp, BindGrpc, Serve, CancelAll, JoinGrpc, StopNow, Stopped, ShutdownSeen,
       CloseHttp, StartDrain, DrainTimesOut, DrainReturns, Join, PollCleanup, CleanupLate,
       FinishServe, GrpcSeesShutdown, GrpcFinishes, GrpcLate, Gate!Admit, Gate!Leave,
       Gate!Announce, Gate!StartDrain, Gate!Force, Gate!Terminal, gateVars, vars
  <2> QED
    BY <1>2, <2>1 DEF CleanupContract
<1>3. CASE DrainReturns \/ Join
  BY <1>3 DEF DrainReturns, Join, LifecycleInv, ResultFollowsMain, BeforeCleanup, cleanupVars
<1> QED
  BY <1>1, <1>2, <1>3 DEF Next, Listen, Signal, Killed, ServerEnds, Accept, Request, Finish, Close,
     Announce, Tick, ServeStep, MainStep, RpcsChange, GrpcFails, GrpcStep, GrpcGoto, Configure,
     LoadEngines, BindHttp, BindGrpc, Serve, CancelAll, JoinGrpc, StopNow, Stopped, ShutdownSeen,
     CloseHttp, StartDrain, DrainTimesOut, FinishServe, GrpcSeesShutdown, GrpcFinishes, GrpcLate,
     cleanupVars, serveVars, vars

(***************************************************************************)
(* A workload's cleanup runs only behind a closed gate, and is told when   *)
(* it is forced, whatever connections, clocks and the cleanup itself do    *)
(* (drain_with_workload and poll_workload_shutdown in lib.rs).             *)
(***************************************************************************)
THEOREM CleanupIsPromised == Spec => []CleanupContract
<1>1. Init => CleanupContract
  BY DEF Init, CleanupContract
<1> QED
  BY <1>1, CleanupContractStep, LifecycleInvariant, PTL DEF Spec

-----------------------------------------------------------------------------
\* A process that is gone does nothing any more.
LEMMA ExitIsFinal == main = "exited" /\ [Next]_vars => UNCHANGED vars
BY DEF Next, Listen, Signal, Killed, ServerEnds, CleanupFinishes, Accept, Request, Finish, Close,
   Announce, Tick, ServeStep, MainStep, RpcsChange, GrpcFails, GrpcStep, GrpcGoto, Configure,
   LoadEngines, BindHttp, BindGrpc, Serve, CancelAll, JoinGrpc, StopNow, Stopped, ShutdownSeen,
   CloseHttp, StartDrain, DrainTimesOut, DrainReturns, Join, PollCleanup, CleanupLate,
   FinishServe, GrpcSeesShutdown, GrpcFinishes, GrpcLate

\* The last step of main finds everything as clean as its status says.
LEMMA CleanExitStep ==
  LifecycleInv /\ CleanExitIsClean /\ [Next]_vars => CleanExitIsClean'
<1> SUFFICES ASSUME LifecycleInv, CleanExitIsClean, [Next]_vars, main' = "exited", result' = "ok"
             PROVE  /\ phase' = "Graceful" /\ conns' = {} /\ cleanup' = "done" /\ ~force'
                    /\ grpc' # "failed" /\ ~rpcs'
  BY DEF CleanExitIsClean
<1>1. CASE main = "exited"
  BY <1>1, ExitIsFinal DEF CleanExitIsClean, vars, gateVars, httpVars, cleanupVars, grpcVars
<1>2. CASE JoinGrpc
  BY <1>2 DEF JoinGrpc, LifecycleInv, EnginesFollowMain, ResultFollowsMain, CleanSoFar, gateVars,
     httpVars, cleanupVars, grpcVars, GrpcEnded
<1>3. main # "exited" => JoinGrpc
  BY DEF Next, Listen, Signal, Killed, ServerEnds, CleanupFinishes, Accept, Request, Finish, Close,
     Announce, Tick, ServeStep, MainStep, RpcsChange, GrpcFails, GrpcStep, GrpcGoto, Configure, Exit,
     LoadEngines, BindHttp, BindGrpc, Serve, CancelAll, StopNow, Stopped, ShutdownSeen,
     CloseHttp, StartDrain, DrainTimesOut, DrainReturns, Join, PollCleanup, CleanupLate, Cleaned,
     Dropped, FinishServe, GrpcSeesShutdown, GrpcFinishes, GrpcLate, serveVars, vars
<1> QED
  BY <1>1, <1>2, <1>3

(***************************************************************************)
(* Exit status 0 is earned: no admitted request was cut off, no connection *)
(* was left open, the cleanup ran to its end unforced and the gRPC plane   *)
(* ended with no RPC open (the end of main in main.rs).                    *)
(***************************************************************************)
THEOREM CleanExit == Spec => []CleanExitIsClean
<1>1. Init => CleanExitIsClean
  BY DEF Init, CleanExitIsClean
<1> QED
  BY <1>1, CleanExitStep, LifecycleInvariant, PTL DEF Spec

-----------------------------------------------------------------------------
(***************************************************************************)
(* The store.                                                              *)
(***************************************************************************)
\* A process is at an artifact of the profile, and may have a next one.
LEMMA AtArtifact ==
  ASSUME StoreTypeOK, NEW p \in Setups
  PROVE  /\ Current(p) \in Artifacts
         /\ at[p] # Len(Profile) => at[p] + 1 \in 1..Len(Profile)
<1>1. Len(Profile) \in Nat
  BY ProfileAssumption
<1>2. at[p] \in 1..Len(Profile)
  BY DEF StoreTypeOK
<1> QED  BY <1>1, <1>2 DEF Current, Artifacts

\* Advance and Refuse keep the types and leave the lock with its holder or free.
LEMMA AdvanceTypes ==
  ASSUME StoreTypeOK, NEW p \in Setups, Advance(p) \/ Refuse(p)
  PROVE  /\ lock' \in Setups \cup {"free"}
         /\ pc' \in [Setups -> Holding \cup Over \cup {"idle", "locking"}]
         /\ at' \in [Setups -> 1..Len(Profile)]
         /\ \A q \in Setups : q # p => pc'[q] = pc[q]
         /\ pc'[p] \in {"ready", "failed", "inspect"}
         /\ pc'[p] = "inspect" => lock' = lock
<1>1. at[p] # Len(Profile) => at[p] + 1 \in 1..Len(Profile)
  BY AtArtifact
<1>2. CASE Advance(p)
  BY <1>1, <1>2 DEF Advance, Goto, StoreTypeOK, Holding, Over
<1>3. CASE Refuse(p)
  BY <1>3 DEF Refuse, Goto, StoreTypeOK, Holding, Over
<1> QED  BY <1>2, <1>3

\* A failure is counted, within the bound.
LEMMA Failing ==
  ASSUME StoreTypeOK, Fault \/ UNCHANGED faults
  PROVE  faults' \in 0..MaxFaults /\ (faults' = 0 => faults = 0) /\ (Fault => faults' # 0)
<1>1. faults \in 0..MaxFaults /\ MaxFaults \in Nat
  BY ProfileAssumption DEF StoreTypeOK
<1> QED  BY <1>1 DEF Fault

\* With nothing to be seen at the path setup gives up or goes on to the archive.
LEMMA AbsentTypes ==
  ASSUME StoreTypeOK, NEW p \in Setups, Absent(p)
  PROVE  /\ lock' \in Setups \cup {"free"}
         /\ pc' \in [Setups -> Holding \cup Over \cup {"idle", "locking"}]
         /\ UNCHANGED at
         /\ \A q \in Setups : q # p => pc'[q] = pc[q]
         /\ pc'[p] \in {"failed", "archive"}
         /\ pc'[p] = "archive" => lock' = lock
<1>1. CASE Refuse(p)
  BY <1>1, ProfileAssumption DEF Refuse, Goto, StoreTypeOK, Holding, Over
<1>2. CASE Goto(p, "archive") /\ UNCHANGED <<lock, at>>
  BY <1>2 DEF Goto, StoreTypeOK, Holding
<1> QED  BY <1>1, <1>2 DEF Absent

(***************************************************************************)
(* The step of a setup that holds the lock: no other setup is at work, so  *)
(* the invariant is a matter of this one's own facts.                      *)
(***************************************************************************)
LEMMA HolderStep ==
  ASSUME StoreInv, NEW p \in Setups, pc[p] \in Holding,
         StoreTypeOK', VouchedStays',
         \A q \in Setups : q # p => pc'[q] = pc[q],
         pc'[p] \in Holding => lock' = p,
         pc'[p] = "recoverObject" => object'[Current(p)'] = "damaged",
         pc'[p] = "recoverUnread" => object'[Current(p)'] # "missing",
         pc'[p] \in Building /\ faults' = 0 => object'[Current(p)'] = "missing",
         pc'[p] = "activate" => staging'[p] = "whole"
  PROVE  StoreInv'
<1>1. \A q \in Setups : q # p => pc'[q] \notin Holding
  BY DEF StoreInv, LockHeld
<1>2. LockHeld'
  BY <1>1 DEF LockHeld
<1>3. SlotAsSeen'
  <2> SUFFICES ASSUME NEW q \in Setups
               PROVE  /\ pc'[q] = "recoverObject" => object'[Current(q)'] = "damaged"
                      /\ pc'[q] = "recoverUnread" => object'[Current(q)'] # "missing"
                      /\ pc'[q] \in Building /\ faults' = 0 => object'[Current(q)'] = "missing"
                      /\ pc'[q] = "activate" => staging'[q] = "whole"
    BY DEF SlotAsSeen, Current
  <2>1. CASE q = p
    BY <2>1
  <2>2. CASE q # p
    BY <1>1, <2>2 DEF Building, Holding
  <2> QED  BY <2>1, <2>2
<1> QED  BY <1>2, <1>3 DEF StoreInv

-----------------------------------------------------------------------------
\* Nothing is installed, nobody runs.
LEMMA StoreInvInit == StoreInit => StoreInv
<1> SUFFICES ASSUME StoreInit  PROVE  StoreInv
  OBVIOUS
<1>1. Len(Profile) \in Nat /\ Len(Profile) >= 1
  BY ProfileAssumption
<1>2. StoreTypeOK
  BY <1>1, ProfileAssumption DEF StoreInit, StoreTypeOK
<1>3. VouchedStays /\ LockHeld /\ SlotAsSeen
  BY DEF StoreInit, VouchedStays, LockHeld, SlotAsSeen, Holding, Building
<1> QED  BY <1>2, <1>3 DEF StoreInv

\* A setup that finds the object whole goes on, and one that does not knows why.
LEMMA StoreInvInspectObject ==
  ASSUME StoreInv, NEW p \in Setups, InspectObject(p)
  PROVE  StoreInv'
<1> USE DEF StoreInv, InspectObject, Holds, diskVars
<1>1. Current(p) \in Artifacts /\ pc[p] \in Holding /\ lock = p
  BY AtArtifact DEF Holding, LockHeld
<1>2. faults' \in 0..MaxFaults /\ (faults' = 0 => faults = 0 /\ ~Fault)
  <2>1. Fault \/ UNCHANGED faults
    OBVIOUS
  <2> QED  BY <2>1, Failing
<1>3. CASE object[Current(p)] = "whole" /\ Advance(p) /\ vouched' = vouched \cup {Current(p)}
  <2>1. StoreTypeOK' /\ VouchedStays'
    BY <1>1, <1>2, <1>3, AdvanceTypes DEF StoreTypeOK, VouchedStays
  <2> QED  BY <1>1, <1>3, <2>1, AdvanceTypes, HolderStep DEF Holding, Building
<1>4. ASSUME NEW where \in {"recoverObject", "recoverUnread"}, Goto(p, where),
             UNCHANGED <<lock, at, vouched>>,
             object[Current(p)] = IF where = "recoverObject" THEN "damaged" ELSE "whole"
      PROVE  StoreInv'
  <2>1. StoreTypeOK' /\ VouchedStays'
    BY <1>2, <1>4 DEF StoreTypeOK, VouchedStays, Goto, Holding
  <2>2. /\ \A q \in Setups : q # p => pc'[q] = pc[q]
        /\ pc'[p] = where /\ Current(p)' = Current(p) /\ UNCHANGED object
    BY <1>4 DEF StoreTypeOK, Goto, Current
  <2> QED  BY <1>1, <1>4, <2>1, <2>2, HolderStep DEF Building
<1>5. CASE /\ IF object[Current(p)] = "missing" THEN UNCHANGED faults ELSE Fault
           /\ Absent(p) /\ UNCHANGED vouched
  <2>1. StoreTypeOK' /\ VouchedStays'
    BY <1>2, <1>5, AbsentTypes DEF StoreTypeOK, VouchedStays
  <2>2. Current(p)' = Current(p) /\ UNCHANGED object
    BY <1>5, AbsentTypes DEF Current
  <2>3. faults' = 0 => object[Current(p)] = "missing"
    BY <1>2, <1>5
  <2> QED  BY <1>1, <1>5, <2>1, <2>2, <2>3, AbsentTypes, HolderStep DEF Holding
<1> QED  BY <1>3, <1>4, <1>5

\* Only an object that is damaged or was not read is moved away, and what was not
\* read is off the list of what was verified.
LEMMA StoreInvRecoverObject ==
  ASSUME StoreInv, NEW p \in Setups, RecoverObject(p)
  PROVE  StoreInv'
<1> USE DEF StoreInv, RecoverObject
<1>1. /\ Current(p) \in Artifacts /\ pc[p] \in Holding /\ lock = p
      /\ pc[p] = "recoverObject" => object[Current(p)] = "damaged"
  BY AtArtifact DEF Holding, LockHeld, SlotAsSeen
<1>2. faults' \in 0..MaxFaults /\ (Fault => faults' # 0)
  <2>1. Fault \/ UNCHANGED faults
    OBVIOUS
  <2> QED  BY <2>1, Failing
<1>3. /\ object' \in [Artifacts -> Tree \cup {"missing"}]
      /\ vouched' \in SUBSET Artifacts /\ VouchedStays'
      /\ faults' = 0 => object'[Current(p)] = "missing"
  <2>1. CASE Fault /\ UNCHANGED <<object, vouched>>
    BY <1>2, <2>1 DEF StoreTypeOK, VouchedStays
  <2>2. CASE /\ object' = [object EXCEPT ![Current(p)] = "missing"]
             /\ vouched' = IF pc[p] = "recoverUnread" THEN vouched \ {Current(p)} ELSE vouched
    <3>1. Current(p) \notin vouched'
      BY <1>1, <2>2 DEF VouchedStays
    <3> QED  BY <1>1, <2>2, <3>1 DEF StoreTypeOK, VouchedStays
  <2> QED  BY <2>1, <2>2
<1>4. StoreTypeOK'
  BY <1>2, <1>3, AbsentTypes DEF StoreTypeOK
<1>5. Current(p)' = Current(p)
  BY AbsentTypes DEF Current
<1> QED  BY <1>1, <1>3, <1>4, <1>5, AbsentTypes, HolderStep DEF Holding

-----------------------------------------------------------------------------
\* Between the archive and the rename a setup touches nothing anybody relies on.
LEMMA BuildingStep ==
  ASSUME StoreInv, NEW p \in Setups, pc[p] \in Building,
         archive' \in [Artifacts -> Tree \cup {"missing"}],
         staging' \in [Setups -> Tree \cup {"missing", "partial"}],
         Fault \/ UNCHANGED faults,
         UNCHANGED <<object, lock, at, offline, vouched>>,
         NEW where \in Building, Goto(p, where),
         where = "activate" => staging'[p] = "whole"
  PROVE  StoreInv'
<1> USE DEF StoreInv
<1>1. /\ pc[p] \in Holding /\ where \in Holding /\ lock = p
      /\ faults' \in 0..MaxFaults
      /\ faults' = 0 => object[Current(p)] = "missing"
      /\ where \notin {"recoverObject", "recoverUnread"}
  BY Failing DEF Building, LockHeld, SlotAsSeen
<1>2. /\ pc'[p] = where /\ Current(p)' = Current(p)
      /\ \A q \in Setups : q # p => pc'[q] = pc[q]
  BY DEF StoreTypeOK, Goto, Current
<1>3. StoreTypeOK' /\ VouchedStays'
  BY <1>1 DEF StoreTypeOK, VouchedStays, Goto
<1> QED  BY <1>1, <1>2, <1>3, HolderStep DEF Current

\* The archive is checked, moved away when it is bad, and downloaded.
LEMMA StoreInvArchive ==
  ASSUME StoreInv, NEW p \in Setups,
         InspectArchive(p) \/ RecoverArchive(p) \/ Download(p)
  PROVE  StoreInv'
<1> USE DEF Holds, Holding, Building, diskVars, StoreInv
<1>1. CASE InspectArchive(p)
  <2>1. PICK where \in {"stage", "recoverArchive", "fetch"} : Goto(p, where)
    BY <1>1 DEF InspectArchive
  <2>2. Fault \/ UNCHANGED faults
    BY <1>1 DEF InspectArchive
  <2> QED  BY <1>1, <2>1, <2>2, BuildingStep DEF InspectArchive, StoreTypeOK
<1>2. CASE RecoverArchive(p)
  <2>1. archive' \in [Artifacts -> Tree \cup {"missing"}]
    BY <1>2 DEF RecoverArchive, StoreTypeOK
  <2>2. Fault \/ UNCHANGED faults
    BY <1>2 DEF RecoverArchive
  <2>3. PICK where \in {"stage", "fetch"} : Goto(p, where)
    BY <1>2 DEF RecoverArchive
  <2> QED  BY <1>2, <2>1, <2>2, <2>3, BuildingStep DEF RecoverArchive, StoreTypeOK
<1>3. CASE Download(p)
  <2>1. archive' \in [Artifacts -> Tree \cup {"missing"}]
    BY <1>3 DEF Download, StoreTypeOK, Tree
  <2> QED  BY <1>3, <2>1, BuildingStep DEF Download, StoreTypeOK
<1> QED  BY <1>1, <1>2, <1>3

\* Staging, extraction and the verification that decides about the rename.
LEMMA StoreInvStaging ==
  ASSUME StoreInv, NEW p \in Setups, Stage(p) \/ Extract(p) \/ VerifyStaging(p)
  PROVE  StoreInv'
<1> USE DEF Holds, Holding, Building, diskVars, StoreInv
<1>1. CASE Stage(p)
  <2>1. staging' \in [Setups -> Tree \cup {"missing", "partial"}]
    BY <1>1 DEF Stage, StoreTypeOK
  <2> QED  BY <1>1, <2>1, BuildingStep DEF Stage, StoreTypeOK
<1>2. CASE Extract(p)
  <2>1. staging' \in [Setups -> Tree \cup {"missing", "partial"}]
    BY <1>2 DEF Extract, StoreTypeOK, Tree
  <2>2. PICK where \in {"recoverStaging", "verify"} : Goto(p, where)
    BY <1>2 DEF Extract
  <2>3. Fault \/ UNCHANGED faults
    BY <1>2 DEF Extract
  <2> QED  BY <1>2, <2>1, <2>2, <2>3, BuildingStep DEF Extract, StoreTypeOK
<1>3. CASE VerifyStaging(p)
  <2>1. PICK where \in {"activate", "recoverStaging"} :
          Goto(p, where) /\ (where = "activate" => staging[p] = "whole")
    BY <1>3 DEF VerifyStaging
  <2>2. Fault \/ UNCHANGED faults
    BY <1>3 DEF VerifyStaging
  <2> QED  BY <1>3, <2>1, <2>2, BuildingStep DEF VerifyStaging, StoreTypeOK
<1> QED  BY <1>1, <1>2, <1>3

\* A staged tree that is no good goes to the recovery directory and setup fails.
LEMMA StoreInvRecoverStaging ==
  ASSUME StoreInv, NEW p \in Setups, RecoverStaging(p)
  PROVE  StoreInv'
<1> USE DEF StoreInv, RecoverStaging, Holds
<1>1. pc[p] \in Holding /\ Refuse(p)
  BY DEF Holding
<1>2. pc'[p] = "failed"
  BY <1>1 DEF StoreTypeOK, Refuse, Goto
<1>3. StoreTypeOK' /\ VouchedStays'
  BY <1>1, AdvanceTypes DEF StoreTypeOK, VouchedStays
<1> QED  BY <1>1, <1>2, <1>3, AdvanceTypes, HolderStep DEF Holding, Building

\* The rename puts a whole tree at an empty path, or fails.
LEMMA StoreInvActivate ==
  ASSUME StoreInv, NEW p \in Setups, Activate(p)
  PROVE  StoreInv' /\ staging[p] = "whole"
<1> USE DEF StoreInv, Activate, Holds
<1>1. /\ Current(p) \in Artifacts /\ pc[p] \in Holding /\ lock = p /\ staging[p] = "whole"
  BY AtArtifact DEF Holding, LockHeld, SlotAsSeen
<1>2. CASE object[Current(p)] = "missing"
  <2>1. /\ object' = [object EXCEPT ![Current(p)] = "whole"]
        /\ staging' = [staging EXCEPT ![p] = "missing"]
        /\ vouched' = vouched \cup {Current(p)} /\ Advance(p)
    BY <1>1, <1>2
  <2>2. /\ object' \in [Artifacts -> Tree \cup {"missing"}]
        /\ staging' \in [Setups -> Tree \cup {"missing", "partial"}]
    BY <2>1 DEF StoreTypeOK, Tree
  <2>3. VouchedStays'
    BY <1>1, <2>1 DEF StoreTypeOK, VouchedStays
  <2>4. StoreTypeOK'
    BY <1>1, <2>1, <2>2, AdvanceTypes DEF StoreTypeOK
  <2> QED  BY <1>1, <2>1, <2>3, <2>4, AdvanceTypes, HolderStep DEF Holding, Building
<1>3. CASE object[Current(p)] # "missing"
  <2>1. Refuse(p) /\ UNCHANGED <<object, staging, vouched>>
    BY <1>3
  <2>2. pc'[p] = "failed"
    BY <2>1 DEF StoreTypeOK, Refuse, Goto
  <2>3. StoreTypeOK' /\ VouchedStays'
    BY <2>1, AdvanceTypes DEF StoreTypeOK, VouchedStays
  <2> QED  BY <1>1, <2>1, <2>2, <2>3, AdvanceTypes, HolderStep DEF Holding, Building
<1> QED  BY <1>1, <1>2, <1>3

-----------------------------------------------------------------------------
\* A setup begins to wait for the lock, and gets it when nobody has it.
LEMMA StoreInvLock ==
  ASSUME StoreInv, NEW p \in Setups, Start(p) \/ Lock(p)
  PROVE  StoreInv'
<1> USE DEF StoreInv, diskVars, Goto
<1>1. StoreTypeOK' /\ VouchedStays'
  BY DEF Start, Lock, StoreTypeOK, VouchedStays, Holding
<1>2. \A q \in Setups : q # p => pc'[q] = pc[q]
  BY DEF Start, Lock, StoreTypeOK
<1>3. CASE Start(p)
  <2>1. pc'[p] = "locking"
    BY <1>3 DEF Start, StoreTypeOK
  <2>2. LockHeld' /\ SlotAsSeen'
    BY <1>2, <1>3, <2>1 DEF Start, LockHeld, SlotAsSeen, Current, Holding, Building
  <2> QED  BY <1>1, <2>2
<1>4. CASE Lock(p)
  <2>1. pc'[p] = "inspect"
    BY <1>4 DEF Lock, StoreTypeOK
  <2>2. \A q \in Setups : pc[q] \notin Holding
    BY <1>4, ProfileAssumption DEF Lock, LockHeld
  <2>3. LockHeld' /\ SlotAsSeen'
    BY <1>2, <1>4, <2>1, <2>2 DEF Lock, LockHeld, SlotAsSeen, Current, Holding, Building
  <2> QED  BY <1>1, <2>3
<1> QED  BY <1>3, <1>4

\* A setup fails or dies; the lock it held is free.
LEMMA StoreInvAbort ==
  ASSUME StoreInv, NEW p \in Setups, Abort(p)
  PROVE  StoreInv'
<1> USE DEF StoreInv, diskVars, Goto, Abort
<1>1. StoreTypeOK' /\ VouchedStays'
  BY ProfileAssumption, Failing DEF StoreTypeOK, VouchedStays, Over
<1>2. faults' # 0
  BY Failing
<1>3. pc'[p] = "failed" /\ \A q \in Setups : q # p => pc'[q] = pc[q]
  BY DEF StoreTypeOK
<1>4. LockHeld' /\ SlotAsSeen'
  BY <1>2, <1>3 DEF LockHeld, SlotAsSeen, Current, Holding, Building
<1> QED  BY <1>1, <1>4

\* A process without the lock only learns what is there.
LEMMA StoreInvVerify ==
  ASSUME StoreInv, NEW a \in Artifacts, Verify(a)
  PROVE  StoreInv'
<1> USE DEF StoreInv, diskVars, Verify
<1>1. StoreTypeOK' /\ VouchedStays'
  BY DEF StoreTypeOK, VouchedStays
<1>2. LockHeld' /\ SlotAsSeen'
  BY DEF LockHeld, SlotAsSeen, Current
<1> QED  BY <1>1, <1>2

\* A process that fails to read an object changes nothing.
LEMMA StoreInvReadFails ==
  ASSUME StoreInv, NEW a \in Artifacts, ReadFails(a)
  PROVE  StoreInv'
<1> USE DEF StoreInv, diskVars, ReadFails
<1>1. StoreTypeOK' /\ VouchedStays' /\ faults' # 0
  BY Failing DEF StoreTypeOK, VouchedStays
<1>2. LockHeld' /\ SlotAsSeen'
  BY <1>1 DEF LockHeld, SlotAsSeen, Current
<1> QED  BY <1>1, <1>2

\* Damage to a whole object withdraws what was vouched for it.
LEMMA StoreInvDamage ==
  ASSUME StoreInv, NEW a \in Artifacts, Damage(a)
  PROVE  StoreInv'
<1> USE DEF StoreInv, Damage
<1>1. StoreTypeOK' /\ VouchedStays' /\ faults' # 0
  BY Failing DEF StoreTypeOK, VouchedStays, Tree
<1>2. LockHeld' /\ SlotAsSeen'
  <2>1. \A b \in Artifacts :
          /\ object[b] # "whole" => object'[b] = object[b]
          /\ object[b] # "missing" => object'[b] # "missing"
    BY DEF StoreTypeOK
  <2>2. \A q \in Setups : Current(q) \in Artifacts
    BY AtArtifact
  <2> QED  BY <1>1, <2>1, <2>2 DEF LockHeld, SlotAsSeen, Current
<1> QED  BY <1>1, <1>2

\* Every step of the store keeps the invariant.
LEMMA StoreInvStep == StoreInv /\ [StoreNext]_storeVars => StoreInv'
<1> SUFFICES ASSUME StoreInv, [StoreNext]_storeVars
             PROVE  StoreInv'
  OBVIOUS
<1>1. ASSUME NEW p \in Setups, Start(p) \/ SetupStep(p) \/ Abort(p)
      PROVE  StoreInv'
  BY <1>1, StoreInvLock, StoreInvInspectObject, StoreInvRecoverObject, StoreInvArchive,
     StoreInvStaging, StoreInvRecoverStaging, StoreInvActivate, StoreInvAbort DEF SetupStep
<1>2. ASSUME NEW a \in Artifacts, Verify(a)
      PROVE  StoreInv'
  BY <1>2, StoreInvVerify
<1>3. ASSUME NEW a \in Artifacts, Damage(a) \/ ReadFails(a)
      PROVE  StoreInv'
  BY <1>3, StoreInvDamage, StoreInvReadFails
<1>4. CASE UNCHANGED storeVars
  BY <1>4 DEF storeVars, diskVars, StoreInv, StoreTypeOK, VouchedStays, LockHeld, SlotAsSeen, Current
<1> QED  BY <1>1, <1>2, <1>3, <1>4 DEF StoreNext

(***************************************************************************)
(* What anybody has verified stays in place until it is damaged or a setup *)
(* fails to read it, for any number of setups, artifacts and faults        *)
(* (ensure_artifact under the lock of setup()).                            *)
(***************************************************************************)
THEOREM StoreInvariant == StoreSpec => []StoreInv /\ []VouchedStays
<1>1. StoreInv => VouchedStays
  BY DEF StoreInv
<1> QED  BY StoreInvInit, StoreInvStep, <1>1, PTL DEF StoreSpec

(***************************************************************************)
(* At an artifact's path a whole tree appears at once, and only a damaged  *)
(* one is taken away or one whose verification a failed read has ended,    *)
(* for every instance (the one rename of ensure_artifact, recover_path).   *)
(***************************************************************************)
THEOREM ObjectsAppearWhole == StoreSpec => SlotLifecycle
<1> DEFINE Kept(a) ==
      \/ <<object[a], object'[a]>> \in {<<o, o>> : o \in Tree \cup {"missing"}}
           \cup {<<"missing", "whole">>, <<"whole", "damaged">>, <<"damaged", "missing">>}
      \/ TakesUnread(a)
<1>1. StoreInv /\ [StoreNext]_storeVars => [\A a \in Artifacts : Kept(a)]_storeVars
  <2> SUFFICES ASSUME StoreInv, StoreNext, NEW a \in Artifacts
               PROVE  Kept(a)
    OBVIOUS
  <2>1. object[a] \in Tree \cup {"missing"}
    BY DEF StoreInv, StoreTypeOK
  <2>2. CASE UNCHANGED object
    BY <2>1, <2>2
  <2>3. ASSUME NEW p \in Setups, RecoverObject(p)
        PROVE  Kept(a)
    <3>1. CASE object' = [object EXCEPT ![Current(p)] = "missing"] /\ a = Current(p)
      <4>1. object'[a] = "missing" /\ object[a] \in {"whole", "damaged", "missing"}
        BY <2>1, <3>1 DEF StoreInv, StoreTypeOK, Tree
      <4>2. pc[p] = "recoverObject" => object[a] = "damaged"
        BY <3>1 DEF StoreInv, SlotAsSeen
      <4>3. object[a] = "whole" => TakesUnread(a)
        BY <2>3, <3>1, <4>1, <4>2 DEF RecoverObject, TakesUnread
      <4> QED  BY <4>1, <4>3
    <3>2. CASE object' = [object EXCEPT ![Current(p)] = "missing"] /\ a # Current(p)
      BY <2>1, <3>2 DEF StoreInv, StoreTypeOK
    <3> QED  BY <2>2, <2>3, <3>1, <3>2 DEF RecoverObject
  <2>4. ASSUME NEW p \in Setups, Activate(p)
        PROVE  Kept(a)
    <3>1. staging[p] = "whole"
      BY <2>4, StoreInvActivate
    <3>2. CASE object[Current(p)] = "missing" /\ object' = [object EXCEPT ![Current(p)] = "whole"]
      BY <2>1, <3>2 DEF StoreInv, StoreTypeOK
    <3> QED  BY <2>2, <2>4, <3>1, <3>2 DEF Activate
  <2>5. ASSUME NEW b \in Artifacts, Damage(b)
        PROVE  Kept(a)
    <3>1. CASE object[b] = "whole" /\ object' = [object EXCEPT ![b] = "damaged"]
      BY <2>1, <3>1 DEF StoreInv, StoreTypeOK
    <3>2. CASE UNCHANGED object
      BY <2>2, <3>2
    <3> QED  BY <2>5, <3>1, <3>2 DEF Damage
  <2>6. ASSUME NEW p \in Setups,
               \/ Start(p) \/ Lock(p) \/ InspectObject(p) \/ InspectArchive(p)
               \/ RecoverArchive(p) \/ Download(p) \/ Stage(p) \/ Extract(p)
               \/ VerifyStaging(p) \/ RecoverStaging(p) \/ Abort(p)
        PROVE  Kept(a)
    <3>1. UNCHANGED object
      BY <2>6 DEF Start, Lock, InspectObject, InspectArchive, RecoverArchive, Download,
           Stage, Extract, VerifyStaging, RecoverStaging, Abort, diskVars
    <3> QED  BY <2>2, <3>1
  <2>7. ASSUME NEW b \in Artifacts, Verify(b) \/ ReadFails(b)
        PROVE  Kept(a)
    BY <2>2, <2>7 DEF Verify, ReadFails, diskVars
  <2> QED  BY <2>3, <2>4, <2>5, <2>6, <2>7 DEF StoreNext, SetupStep
<1> QED  BY StoreInvInit, StoreInvStep, <1>1, PTL DEF StoreSpec, SlotLifecycle

-----------------------------------------------------------------------------
(***************************************************************************)
(* The processes that read the store beside the setups.                    *)
(***************************************************************************)
LEMMA LoaderStepIsQuiet ==
  ASSUME NEW r \in Loaders, LoaderTypeOK, LoaderStep(r)
  PROVE  [StoreNext]_storeVars /\ vouched \subseteq vouched' /\ UNCHANGED object
<1>1. Part(r) \in Artifacts
  BY DEF LoaderTypeOK, Part, Artifacts
<1>2. CASE Verify(Part(r))
  BY <1>1, <1>2 DEF StoreNext, Verify, diskVars
<1>3. CASE UNCHANGED storeVars
  BY <1>3 DEF storeVars, diskVars
<1>4. CASE ReadFails(Part(r))
  BY <1>1, <1>4 DEF StoreNext, ReadFails, diskVars
<1> QED
  BY <1>2, <1>3, <1>4
     DEF LoaderStep, Begin, Survey, VerifyPart, LoadPart, Verified, Unusable

\* Only what harms an object takes it off the list of what was verified.
LEMMA VouchedGrows ==
  ASSUME StoreInv, StoreNext, ~Harmed
  PROVE  vouched \subseteq vouched'
<1>1. ASSUME NEW p \in Setups, Start(p) \/ SetupStep(p) \/ Abort(p)
      PROVE  vouched \subseteq vouched'
  <2>1. CASE RecoverObject(p)
    <3>1. Current(p) \in Artifacts
      BY AtArtifact DEF StoreInv
    <3>2. CASE /\ object' = [object EXCEPT ![Current(p)] = "missing"]
               /\ vouched' = vouched \ {Current(p)} /\ pc[p] = "recoverUnread"
      <4>1. object'[Current(p)] = "missing" /\ ~TakesUnread(Current(p))
        BY <3>1, <3>2 DEF StoreInv, StoreTypeOK, Harmed
      <4>2. Current(p) \notin vouched
        BY <3>1, <3>2, <4>1 DEF TakesUnread, StoreInv, VouchedStays
      <4> QED
        BY <3>2, <4>2
    <3> QED
      BY <2>1, <3>2 DEF RecoverObject
  <2> QED
    BY <1>1, <2>1
       DEF Start, SetupStep, Abort, Lock, InspectObject, InspectArchive,
           RecoverArchive, Download, Stage, Extract, VerifyStaging, RecoverStaging, Activate
<1>2. ASSUME NEW a \in Artifacts, Verify(a) \/ ReadFails(a)
      PROVE  vouched \subseteq vouched'
  BY <1>2 DEF Verify, ReadFails
<1>3. ASSUME NEW a \in Artifacts, Damage(a)
      PROVE  vouched \subseteq vouched'
  <2>1. CASE object[a] = "whole" /\ object' = [object EXCEPT ![a] = "damaged"]
    <3>1. object'[a] = "damaged"
      BY <1>3, <2>1 DEF StoreInv, StoreTypeOK
    <3> QED
      BY <1>3, <2>1, <3>1 DEF Harmed
  <2>2. CASE UNCHANGED vouched
    BY <2>2
  <2> QED
    BY <1>3, <2>1, <2>2 DEF Damage
<1> QED
  BY <1>1, <1>2, <1>3 DEF StoreNext

\* A step of the store: a loader it does not disturb goes on as before.
LEMMA LoaderInvStore ==
  ASSUME StoreInv, LoaderInv, StoreStep
  PROVE  LoaderInv'
<1>1. UNCHANGED <<command, stage, place, complete, loadable>>
  BY DEF StoreStep
<1>2. CASE undisturbed' = {} /\ relying' = {}
  BY <1>1, <1>2 DEF LoaderInv, LoaderTypeOK, EnginesInPlace, DoctorIsRight, PassedStays
<1>3. CASE ~Harmed /\ UNCHANGED <<undisturbed, relying>>
  <2>1. vouched \subseteq vouched'
    BY <1>3, VouchedGrows DEF StoreStep
  <2>2. LoaderTypeOK' /\ DoctorIsRight' /\ EnginesInPlace'
    BY <1>1, <1>3, <2>1 DEF LoaderInv, LoaderTypeOK, EnginesInPlace, DoctorIsRight, Assured
  <2>3. \A r \in Loaders : Passed(r)' = Passed(r)
    BY <1>1 DEF Passed
  <2>4. PassedStays'
    BY <1>1, <1>3, <2>1, <2>3 DEF LoaderInv, LoaderTypeOK, PassedStays
  <2> QED
    BY <2>2, <2>4 DEF LoaderInv
<1> QED
  BY <1>2, <1>3 DEF StoreStep

\* What a loader has passed when it goes on: one artifact more, or all of them.
LEMMA ProceedPasses ==
  ASSUME LoaderTypeOK, NEW r \in Loaders, NEW where, Proceed(r, where),
         where \in {"verify", "native", "ready", "unready"}
  PROVE  /\ place' \in [Loaders -> 1..Len(Profile)]
         /\ stage' \in [Loaders -> {"idle", "survey", "verify", "native", "ready", "unready"}]
         /\ \A q \in Loaders : q # r => stage'[q] = stage[q] /\ place'[q] = place[q]
         /\ \/ /\ stage'[r] = stage[r]
               /\ Passed(r)' = Passed(r) \cup {Part(r)}
            \/ /\ stage'[r] = where /\ Passed(r)' = {}
               /\ Artifacts = Passed(r) \cup {Part(r)}
<1>1. /\ Len(Profile) \in Nat /\ place[r] \in 1..Len(Profile) /\ place[r] \in Int
      /\ place \in [Loaders -> 1..Len(Profile)]
      /\ stage \in [Loaders -> {"idle", "survey", "verify", "native", "ready", "unready"}]
  BY ProfileAssumption DEF LoaderTypeOK
<1>2. 1 \in 1..Len(Profile)
  BY <1>1
<1>3. CASE place[r] = Len(Profile)
  <2>1. /\ stage' = [stage EXCEPT ![r] = where] /\ place' = [place EXCEPT ![r] = 1]
    BY <1>3 DEF Proceed, Enter
  <2>2. place'[r] = 1
    BY <1>1, <2>1
  <2>3. Passed(r)' = {}
    BY <2>2 DEF Passed
  <2>4. 1..Len(Profile) = 1..(place[r] - 1) \cup {place[r]}
    BY <1>1, <1>3
  <2>5. Artifacts = Passed(r) \cup {Part(r)}
    BY <2>4 DEF Artifacts, Passed, Part
  <2> QED
    BY <1>1, <1>2, <2>1, <2>3, <2>5
<1>4. CASE place[r] # Len(Profile)
  <2>1. place' = [place EXCEPT ![r] = place[r] + 1] /\ UNCHANGED stage
    BY <1>4 DEF Proceed
  <2>2. place[r] + 1 \in 1..Len(Profile) /\ place'[r] = place[r] + 1
    BY <1>1, <1>4, <2>1
  <2>3. 1..(place'[r] - 1) = 1..(place[r] - 1) \cup {place[r]}
    BY <1>1, <2>2
  <2>4. Passed(r)' = Passed(r) \cup {Part(r)}
    BY <2>3 DEF Passed, Part
  <2> QED
    BY <1>1, <2>1, <2>2, <2>4
<1> QED
  BY <1>3, <1>4

\* A successful try vouches for every artifact, and for what the host can load.
LEMMA AssuredMeans ==
  ASSUME LoaderInv, Assured
  PROVE  Artifacts \subseteq vouched \cap loadable
BY DEF LoaderInv, EnginesInPlace, Assured

LEMMA WholeIfVouched ==
  ASSUME StoreInv, LoaderTypeOK, NEW r \in Loaders, Artifacts \subseteq vouched
  PROVE  Part(r) \in Artifacts /\ object[Part(r)] = "whole"
BY DEF StoreInv, VouchedStays, LoaderTypeOK, Part, Artifacts

(***************************************************************************)
(* The step of a loader: what it leaves to the others is what they had.    *)
(***************************************************************************)
LEMMA OneLoader ==
  ASSUME StoreInv, LoaderInv, NEW r \in Loaders, LoaderStep(r), LoaderTypeOK',
         stage[r] # "ready", stage'[r] # "idle",
         \A q \in Loaders : q # r => /\ stage'[q] = stage[q] /\ place'[q] = place[q]
                                    /\ command'[q] = command[q] /\ complete'[q] = complete[q],
         UNCHANGED loadable,
         undisturbed \ {r} \subseteq undisturbed', undisturbed' \subseteq undisturbed \cup {r},
         relying' \subseteq relying \cup {r},
         relying' \subseteq undisturbed',
         r \in undisturbed' =>
           /\ stage'[r] = "verify" => Passed(r)' \subseteq vouched'
           /\ stage'[r] = "native" => Passed(r)' \subseteq loadable /\ Artifacts \subseteq vouched'
           /\ stage'[r] = "ready" => Artifacts \subseteq vouched' \cap loadable,
         r \in relying' => Assured /\ complete'[r] /\ stage'[r] # "unready"
  PROVE  LoaderInv'
<1>1. vouched \subseteq vouched' /\ LoaderTypeOK
  BY LoaderStepIsQuiet DEF LoaderInv
<1>2. \A q \in Loaders : q # r => Passed(q)' = Passed(q)
  BY DEF Passed
<1>3. undisturbed \subseteq Loaders /\ undisturbed' \subseteq Loaders
      /\ relying \subseteq undisturbed /\ relying' \subseteq undisturbed'
  BY <1>1 DEF LoaderTypeOK
<1>4. EnginesInPlace'
  BY <1>1, <1>3 DEF LoaderInv, EnginesInPlace
<1>5. Assured => Assured'
  BY <1>3 DEF Assured
<1>6. DoctorIsRight'
  BY <1>3, <1>5 DEF LoaderInv, DoctorIsRight
<1>7. PassedStays'
  BY <1>1, <1>2, <1>3 DEF LoaderInv, PassedStays
<1> QED
  BY <1>4, <1>6, <1>7 DEF LoaderInv

LEMMA LoaderInvBegin ==
  ASSUME StoreInv, LoaderInv, NEW r \in Loaders, Begin(r)
  PROVE  LoaderInv'
<1>1. /\ LoaderTypeOK /\ stage[r] = "idle" /\ place[r] = 1 /\ complete[r]
      /\ UNCHANGED <<storeVars, place, complete, loadable>>
      /\ undisturbed' = undisturbed \cup {r}
      /\ relying' = IF Assured THEN relying \cup {r} ELSE relying
  BY DEF LoaderInv, PassedStays, Begin
<1>2. \E c \in {"inspect", "load"}, where \in {"survey", "verify"} :
        command' = [command EXCEPT ![r] = c] /\ stage' = [stage EXCEPT ![r] = where]
  BY DEF Begin, Enter
<1>3. /\ command' \in [Loaders -> {"none", "inspect", "load"}]
      /\ stage' \in [Loaders -> {"idle", "survey", "verify", "native", "ready", "unready"}]
      /\ stage'[r] \in {"survey", "verify"}
      /\ \A q \in Loaders : q # r => stage'[q] = stage[q] /\ command'[q] = command[q]
  BY <1>1, <1>2 DEF LoaderTypeOK
<1>4. LoaderTypeOK'
  BY <1>1, <1>3 DEF LoaderTypeOK
<1>5. Passed(r)' = {}
  BY <1>1 DEF Passed
<1>6. r \in relying' => Assured
  BY <1>1 DEF LoaderInv, DoctorIsRight
<1>7. relying' \subseteq undisturbed'
  BY <1>4 DEF LoaderTypeOK
<1> QED
  BY <1>1, <1>3, <1>4, <1>5, <1>6, <1>7, OneLoader DEF LoaderStep

\* A loader that could not use an artifact relied on nothing, or an I/O failure
\* has taken it out of account.
LEMMA UnusableMeans ==
  ASSUME StoreInv, LoaderInv, NEW r \in Loaders, Unusable(r)
  PROVE  /\ relying' \subseteq relying /\ relying' \subseteq undisturbed'
         /\ undisturbed \ {r} \subseteq undisturbed' /\ undisturbed' \subseteq undisturbed
         /\ vouched' = vouched
         /\ r \notin relying'
         /\ r \in undisturbed' => object[Part(r)] # "whole"
<1>1. LoaderTypeOK
  BY DEF LoaderInv
<1>2. CASE object[Part(r)] # "whole" /\ UNCHANGED <<storeVars, undisturbed, relying>>
  <2>1. r \notin relying
    <3>1. r \in relying => Assured
      BY DEF LoaderInv, DoctorIsRight
    <3> QED
      BY <1>1, <1>2, <3>1, AssuredMeans, WholeIfVouched
  <2> QED
    BY <1>1, <1>2, <2>1 DEF LoaderTypeOK, storeVars
<1>3. CASE /\ ReadFails(Part(r))
           /\ undisturbed' = undisturbed \ {r} /\ relying' = relying \ {r}
  BY <1>1, <1>3 DEF LoaderTypeOK, ReadFails
<1> QED
  BY <1>2, <1>3 DEF Unusable

LEMMA LoaderInvSurvey ==
  ASSUME StoreInv, LoaderInv, NEW r \in Loaders, Survey(r)
  PROVE  LoaderInv'
<1>1. /\ LoaderTypeOK /\ stage[r] = "survey"
      /\ UNCHANGED <<command, loadable>>
  BY DEF LoaderInv, Survey
<1>2. /\ relying' \subseteq relying /\ relying' \subseteq undisturbed'
      /\ undisturbed \ {r} \subseteq undisturbed' /\ undisturbed' \subseteq undisturbed
      /\ r \in relying' => complete' = complete
      /\ complete' \in [Loaders -> BOOLEAN]
      /\ \A q \in Loaders : q # r => complete'[q] = complete[q]
  <2>1. CASE Verified(r) /\ UNCHANGED complete
    BY <1>1, <2>1 DEF Verified, LoaderTypeOK
  <2>2. CASE Unusable(r) /\ complete' = [complete EXCEPT ![r] = FALSE]
    BY <1>1, <2>2, UnusableMeans DEF LoaderTypeOK
  <2> QED
    BY <2>1, <2>2 DEF Survey
<1>3. PICK where \in {"verify", "unready"} :
        Proceed(r, where) /\ where = IF complete'[r] THEN "verify" ELSE "unready"
  BY DEF Survey
<1>4. /\ place' \in [Loaders -> 1..Len(Profile)]
      /\ stage' \in [Loaders -> {"idle", "survey", "verify", "native", "ready", "unready"}]
      /\ \A q \in Loaders : q # r => stage'[q] = stage[q] /\ place'[q] = place[q]
      /\ stage'[r] = "survey" \/ (stage'[r] = where /\ Passed(r)' = {})
  BY <1>1, <1>3, ProceedPasses
<1>5. LoaderTypeOK'
  BY <1>1, <1>2, <1>4 DEF LoaderTypeOK
<1>6. r \in relying' => Assured /\ complete'[r] /\ stage'[r] # "unready"
  <2> SUFFICES ASSUME r \in relying' PROVE Assured /\ complete'[r] /\ stage'[r] # "unready"
    OBVIOUS
  <2>1. Assured /\ complete[r]
    BY <1>2 DEF LoaderInv, DoctorIsRight, PassedStays
  <2> QED
    BY <1>2, <1>3, <1>4, <2>1
<1> QED
  BY <1>1, <1>2, <1>4, <1>5, <1>6, OneLoader DEF LoaderStep

LEMMA LoaderInvVerifyPart ==
  ASSUME StoreInv, LoaderInv, NEW r \in Loaders, VerifyPart(r)
  PROVE  LoaderInv'
<1>1. /\ LoaderTypeOK /\ stage[r] = "verify"
      /\ UNCHANGED <<command, complete, loadable>>
      /\ r \in undisturbed => Passed(r) \subseteq vouched
      /\ r \in relying => Assured /\ complete[r]
  BY DEF LoaderInv, VerifyPart, PassedStays, DoctorIsRight
<1>2. CASE Verified(r) /\ Proceed(r, "native")
  <2>1. vouched' = vouched \cup {Part(r)} /\ UNCHANGED <<undisturbed, relying>>
    BY <1>2 DEF Verified, Verify
  <2>2. /\ place' \in [Loaders -> 1..Len(Profile)]
        /\ stage' \in [Loaders -> {"idle", "survey", "verify", "native", "ready", "unready"}]
        /\ \A q \in Loaders : q # r => stage'[q] = stage[q] /\ place'[q] = place[q]
        /\ \/ stage'[r] = "verify" /\ Passed(r)' = Passed(r) \cup {Part(r)}
           \/ stage'[r] = "native" /\ Passed(r)' = {} /\ Artifacts = Passed(r) \cup {Part(r)}
    BY <1>1, <1>2, ProceedPasses
  <2>3. LoaderTypeOK'
    BY <1>1, <2>1, <2>2 DEF LoaderTypeOK
  <2>4. relying' \subseteq undisturbed'
    BY <1>1, <2>1 DEF LoaderTypeOK
  <2> QED
    BY <1>1, <2>1, <2>2, <2>3, <2>4, OneLoader DEF LoaderStep
<1>3. CASE Unusable(r) /\ Enter(r, "unready") /\ UNCHANGED place
  <2>1. /\ relying' \subseteq relying /\ relying' \subseteq undisturbed'
        /\ undisturbed \ {r} \subseteq undisturbed' /\ undisturbed' \subseteq undisturbed
        /\ r \notin relying'
    BY <1>3, UnusableMeans
  <2>2. /\ stage' \in [Loaders -> {"idle", "survey", "verify", "native", "ready", "unready"}]
        /\ stage'[r] = "unready" /\ \A q \in Loaders : q # r => stage'[q] = stage[q]
    BY <1>1, <1>3 DEF Enter, LoaderTypeOK
  <2>3. LoaderTypeOK'
    BY <1>1, <1>3, <2>1, <2>2 DEF LoaderTypeOK
  <2> QED
    BY <1>1, <1>3, <2>1, <2>2, <2>3, OneLoader DEF LoaderStep
<1> QED
  BY <1>2, <1>3 DEF VerifyPart

LEMMA LoaderInvLoadPart ==
  ASSUME StoreInv, LoaderInv, NEW r \in Loaders, LoadPart(r)
  PROVE  LoaderInv'
<1>1. /\ LoaderTypeOK /\ stage[r] = "native" /\ Part(r) \in Artifacts
      /\ UNCHANGED <<command, complete, loadable>>
      /\ r \in undisturbed => Passed(r) \subseteq loadable /\ Artifacts \subseteq vouched
      /\ r \in relying => Assured /\ complete[r]
  BY DEF LoaderInv, LoaderTypeOK, LoadPart, PassedStays, DoctorIsRight, EnginesInPlace, Part, Artifacts
<1>2. r \in undisturbed => object[Part(r)] = "whole"
  BY <1>1, WholeIfVouched
<1>3. CASE /\ Proceed(r, "ready") /\ (Part(r) \in loadable \/ object[Part(r)] = "damaged")
           /\ UNCHANGED <<storeVars, undisturbed, relying>>
  <2>1. /\ place' \in [Loaders -> 1..Len(Profile)]
        /\ stage' \in [Loaders -> {"idle", "survey", "verify", "native", "ready", "unready"}]
        /\ \A q \in Loaders : q # r => stage'[q] = stage[q] /\ place'[q] = place[q]
        /\ \/ stage'[r] = "native" /\ Passed(r)' = Passed(r) \cup {Part(r)}
           \/ stage'[r] = "ready" /\ Passed(r)' = {} /\ Artifacts = Passed(r) \cup {Part(r)}
    BY <1>1, <1>3, ProceedPasses
  <2>2. LoaderTypeOK' /\ relying' \subseteq undisturbed'
    BY <1>1, <1>3, <2>1 DEF LoaderTypeOK
  <2>3. vouched' = vouched
    BY <1>3 DEF storeVars
  <2> QED
    BY <1>1, <1>2, <1>3, <2>1, <2>2, <2>3, OneLoader DEF LoaderStep
<1>4. CASE /\ Unusable(r) \/ (Part(r) \notin loadable /\ UNCHANGED <<storeVars, undisturbed, relying>>)
           /\ Enter(r, "unready") /\ UNCHANGED place
  <2>1. /\ relying' \subseteq relying /\ relying' \subseteq undisturbed'
        /\ undisturbed \ {r} \subseteq undisturbed' /\ undisturbed' \subseteq undisturbed
        /\ r \notin relying'
    <3>1. CASE Unusable(r)
      BY <3>1, UnusableMeans
    <3>2. CASE Part(r) \notin loadable /\ UNCHANGED <<storeVars, undisturbed, relying>>
      BY <1>1, <3>2, AssuredMeans DEF LoaderTypeOK
    <3> QED
      BY <1>4, <3>1, <3>2
  <2>2. /\ stage' \in [Loaders -> {"idle", "survey", "verify", "native", "ready", "unready"}]
        /\ stage'[r] = "unready" /\ \A q \in Loaders : q # r => stage'[q] = stage[q]
    BY <1>1, <1>4 DEF Enter, LoaderTypeOK
  <2>3. LoaderTypeOK'
    BY <1>1, <1>4, <2>1, <2>2 DEF LoaderTypeOK
  <2> QED
    BY <1>1, <1>4, <2>1, <2>2, <2>3, OneLoader DEF LoaderStep
<1> QED
  BY <1>3, <1>4 DEF LoadPart

LEMMA LoaderInvInit == SystemInit => LoaderInv
<1> SUFFICES ASSUME LoaderInit PROVE LoaderInv
  BY DEF SystemInit
<1>1. 1 \in 1..Len(Profile)
  BY ProfileAssumption
<1>2. LoaderTypeOK
  BY <1>1, HostsAssumption DEF LoaderInit, LoaderTypeOK
<1> QED
  BY <1>2 DEF LoaderInit, LoaderInv, EnginesInPlace, DoctorIsRight, PassedStays

(***************************************************************************)
(* What holds of the store with any number of processes reading it: the    *)
(* engines of an undisturbed loader come from verified objects that are    *)
(* still there, and a load after a successful try succeeds, for any        *)
(* profile, host and number of setups and loaders (inspect, verified_      *)
(* profile and VoiceEngines::load against setup).                          *)
(***************************************************************************)
THEOREM LoaderInvariant == SystemSpec => []StoreInv /\ []LoaderInv
<1>1. SystemInit => StoreInv /\ LoaderInv
  BY StoreInvInit, LoaderInvInit DEF SystemInit
<1>2. StoreInv /\ LoaderInv /\ [SystemNext]_systemVars => StoreInv' /\ LoaderInv'
  <2> SUFFICES ASSUME StoreInv, LoaderInv, [SystemNext]_systemVars
               PROVE  StoreInv' /\ LoaderInv'
    OBVIOUS
  <2>1. CASE StoreStep
    BY <2>1, StoreInvStep, LoaderInvStore DEF StoreStep
  <2>2. ASSUME NEW r \in Loaders, LoaderStep(r)
        PROVE  StoreInv' /\ LoaderInv'
    <3>1. [StoreNext]_storeVars
      BY <2>2, LoaderStepIsQuiet DEF LoaderInv
    <3>2. StoreInv'
      BY <3>1, StoreInvStep
    <3> QED
      BY <2>2, <3>2, LoaderInvBegin, LoaderInvSurvey, LoaderInvVerifyPart, LoaderInvLoadPart
         DEF LoaderStep
  <2>3. CASE UNCHANGED systemVars
    <3>1. UNCHANGED storeVars /\ UNCHANGED loaderVars
      BY <2>3 DEF systemVars
    <3>2. StoreInv'
      BY <3>1, StoreInvStep
    <3>3. LoaderInv'
      BY <3>1 DEF storeVars, loaderVars, LoaderInv, LoaderTypeOK, EnginesInPlace, DoctorIsRight,
                  Assured, PassedStays, Passed
    <3> QED
      BY <3>2, <3>3
  <2> QED
    BY <2>1, <2>2, <2>3 DEF SystemNext
<1> QED
  BY <1>1, <1>2, PTL DEF SystemSpec
=============================================================================
