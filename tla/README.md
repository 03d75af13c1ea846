# Specifications of impossible-voice

impossible-voice is a local speech server in Rust: transcription and synthesis
over HTTP, a realtime WebSocket protocol, gRPC and MCP, in front of two native
engines, with a content-addressed store from which the engines are loaded.
This directory holds TLA+ modules of its concurrent and stateful parts, TLC
configurations that check them on small instances, and TLAPS proofs, in eight
modules of their own, of what matters most about them for every size.

    tlc -workers 2 -config MCShutdownGate.cfg MCShutdownGate    # check a model
    tlapm ShutdownGateProofs.tla                                # check the proofs

Paths below are relative to the repository; `core/` stands for
`vendor/impossible-server/crates/impossible-server-core/src/`, `server/` for
`crates/impossible-voice-server/src/`.

## 1. The system

| Part | State it keeps | Operations | Hard behaviour |
|---|---|---|---|
| cancellation token, `core/cancellation.rs` | one flag, a `Notify` | `cancel`, `is_cancelled`, `cancelled` | a wakeup between check and await; several cancellers |
| shutdown gate, `core/shutdown.rs` | phase and count under a mutex, a stop token | `try_enter`, drop of a guard, `drain`, `stop_now`, drop of a drain, drop of the gate | the verdict is decided under the lock and announced after it |
| request context, `core/request.rs` | id counter; deadline and token per request | `issue`, `ensure_active` | exhausted counter; a deadline that passes anywhere |
| admission middleware, `server/lib.rs` | two semaphores | `enforce_workload_policy` | a dozen ways out, each with other things to give back |
| server lifecycle, `server/lib.rs`, `server/main.rs` | health, accept-loop signal, cleanup future, exit status | `serve`, `main` | four timers, three tasks, ends in any order |
| health, limits, errors, `core/` | named readiness checks; validated constants | probes, validation | readiness against admission |
| HTTP batch, `server/voice_api.rs` | none of its own | transcription, speech | an inference outlives its request |
| realtime session, `server/voice_api.rs` | `SessionState`, session permit, token, worker | client events, the synthesis select, the session timer | clients that stall, vanish or send anything in any order |
| gRPC, `server/grpc.rs` | per call: token, output queue, transcriber | four methods, `link_cancellation` | backpressure; three ways to be stopped |
| recognition, `crates/impossible-voice-stt` | `Limiter`; per session decoder, resampler, VAD, native stream | `transcribe`, `open`, `push_pcm16`, `finish` | audio must survive every way to cut it |
| synthesis, `crates/impossible-voice-tts` | `Limiter` | `synthesize` | cannot be interrupted |
| audio, `crates/impossible-voice-audio` | decoder byte, resampler position, VAD runs | decode, resample, detect, WAV | seams, odd bytes, sizes near 2^32 |
| artifact store, `crates/impossible-voice-artifacts` | objects, archives, staging, a file lock | `setup`, `status`, `verified_profile` | crashes, two setups, readers without the lock, damage |
| engine loader, `server/engines.rs` | none after the load | `load`, `inspect` | reads the store without its lock while setups write |
| native bindings, `crates/impossible-voice-sherpa-sys` | a mutex per engine, reference counts, native streams and results | create, accept, decode, text, generate, destroy | block the caller's thread; everything is freed by hand; the runtime is dropped around calls |
| MCP, `server/mcp.rs` | none | JSON-RPC dispatch, three tools | notifications, ids, refusals by four different layers |
| configuration, `server/config.rs` | none | defaults, file, environment, flags | precedence, and what is validated when |

How they interact. `main` creates one shutdown token. An interrupt cancels it;
`serve` and the gRPC task both wait for it. `serve` owns the gate; every HTTP
workload request enters the gate, takes an admission permit, an id, a place in
the line for an execution permit, and reaches a handler, which runs the engine
on a blocking thread with the request's own token and deadline. The engines are
shared by HTTP, MCP, WebSocket and gRPC, and each has a `Limiter` that refuses
instead of queueing and a mutex around its native calls, which sessions take on
the executor's own threads. A WebSocket leaves the gate with its upgrade and lives on
under a session permit of its own. A gRPC call never enters the gate; a linking
task forwards the shutdown token to it. The store is shared between processes
through the file system: setups lock it, everything else only reads it.

What makes each part correct:

- token: nobody sleeps through a cancellation; one canceller was first;
- gate: a graceful verdict means nobody is inside; a verdict is final; a bounded
  drain returns; the stop signal never comes too early and always comes;
- admission: permits come back on every way out; a refusal tells the truth; the
  line moves; every admitted request is answered;
- lifecycle: ready implies admitting; the cleanup is told when it is forced;
  exit status 0 means that nothing was cut off; the process ends;
- realtime: permits and slots come back; the event order and the close code are
  what the API says; a session ends;
- gRPC: one conclusion, last; a final result is not dropped; no task is left;
- recognition: cutting the audio differently changes nothing; finals divide it;
- store: what was verified stays until it is damaged or cannot be read; objects
  appear whole; a setup repairs; an undisturbed `serve` loads what `doctor` found
  loadable;
- native engines: calls are serialized; an engine outlives everything that can
  call into it; the executor recovers; the process ends;
- batch endpoints and MCP: an engine gets what the client sent or the client gets
  the one error of the right status and shape; the reader of WAV files stays
  inside them and ends;
- configuration: the highest layer that names a value wins, and it is validated.

`PROJECT.json` lists every hazard at its line with the properties that cover it,
and the one that none covers with the reason.

## 2. The modules

| Module | Models | Uses |
|---|---|---|
| `CancellationToken` | the token against tokio's `Notify` | |
| `DrainContract` | abstract: what a gate promises | |
| `ShutdownGate` | the gate | `DrainContract`, which it implements |
| `StopSignal` | the gate over its token, with observers | extends `ShutdownGate`, instantiates `CancellationToken` |
| `RequestAdmission` | middleware, batch handler, blocking inference | `DrainContract` as its gate |
| `Configuration` | how the layers make a configuration | |
| `ServerLifecycle` | `main` from its arguments to its exit, `serve`, health, the gRPC task | `DrainContract` as its gate, extends `Configuration` |
| `RealtimeSession` | WebSocket sessions beside all other load on both engines | |
| `GrpcVoice` | one gRPC call of any kind and the rest of the server's load | |
| `NativeEngine` | the native libraries, their callers' threads, the drop of the runtime | |
| `PcmAudio` | pure functions: decode, resample, voice activity | |
| `StreamingStt` | one recognition session | extends `PcmAudio` |
| `WavReader` | the walk over a WAV file, and the writer | |
| `BatchApi` | transcription, speech and MCP from request to answer | extends `WavReader` |
| `ArtifactStore` | the store, its setups and its faults | |
| `EngineLoader` | `doctor`, `status` and `serve` reading the store | extends `ArtifactStore` |
| `...Proofs` | theorems about the gate with its token, admission, the process (lifecycle, configuration, store, loader), sessions, RPCs, native engines, recognition, and the batch endpoints with the WAV reader | extend the module |
| `MC...` | values for TLC | extend the module |

Two abstractions join the modules. `CancellationToken` shows that a token acts
as one flag that every observer notices in the end; the modules of the server
therefore use a BOOLEAN, and `StopSignal` composes the real thing with the gate.
`DrainContract` has a set of operations at work, a phase, a stop signal and an
owner; `ShutdownGate` implements it with a counter, a mutex and a token cancelled
after the unlock, and `RequestAdmission` and `ServerLifecycle` instantiate the
contract where the code calls the gate. What they show therefore holds with the
real gate in its place.

A name such as `DropGuardSilently` under a comment "Bug:" is no behaviour of the
code. It stands beside the action it alters and shows which property notices a
plausible mistake in the code; `PROJECT.json` pairs each property with one.

### How state and actions correspond to the code

**CancellationToken.** `cancelled` and `epoch` are the atomic flag and the
generation of `notify_waiters`. `Arm`, `Check` and `Wake` are the three steps of
`cancelled()`: create and enable the notification, load the flag, await. `Swap`
and `NotifyWaiters` are the two steps of `cancel()`. A future may be dropped
while it waits.

**ShutdownGate.** Each critical section is one action and each `cancel()` after
it another, so everything can come between. `op` and `call` say where a guard
and a caller are; the values of `PublishPC` are the three places in the source
from which the token is cancelled. `AbortDrain` is the drop of a drain's future,
`DropOwner` and `DropInner` the end of the handles. A caller in `Unbounded`
passed a timeout that overflows `Instant`, which the code waits out without a
timer. `MaxActive` is `usize::MAX`.

**StopSignal.** The gate's `stopped` is the flag of a `CancellationToken`. A step
in which the gate calls `cancel()` is also the token's `Swap` by that guard,
caller or `Inner::drop`; the notification follows as a step of its own, and
observers arm, check and sleep in between.

**RequestAdmission.** `pc` follows `enforce_workload_policy`: the gate, the
admission permit and the id, three biased selects (body, line, handler), and the
drops in reverse order of declaration. A disconnect drops the request at any of
its awaits. Within a poll of the last select the stop signal and the timer are
looked at before the handler ("polled"), so they can change between the look
and the answer. `job` is the `spawn_blocking` closure, which reads token and
deadline before the limiter and after the native call; recognition reads them once
more before its last native call, which ends the job as the later look would.
`others` counts the slots of the same engine that sessions and RPCs hold, which
come and go at any time and need no execution permit. The ids may run out because
requests before the run took them: `Init` leaves that open.

**Configuration and ServerLifecycle.** A layer is a function from the fields it
names; `Resolve` lays them on top of each other as `ServerOptions::resolve` does and
validates the result. `main` then loads the engines, binds both ports and serves;
each of these may fail and ends the process. An interrupt that comes before the
task that waits for it was polled kills the process (`Killed`). `serve` follows:
withdraw readiness, close the accept loop, start the drain, await it against its
own timer, join the connections, poll the cleanup (once whatever the time is,
then until the deadline), set the process state; then the end of `main`. `clock`
counts the two deadlines that can pass. `grpc` and `rpcs` are the other task.
Connections finish, close or hang as they like, and so do RPCs.

**RealtimeSession.** `session` is `SessionState`; `outbox` and `after` are the
sends of one handler and where it goes afterwards, so that a client's stalls and
departures and the timer can strike between any two sends. `LoopStep` has one
action per branch of the handlers; refusals are told apart by the code the
client is sent. `Interrupt`, `PingWorking`, `Synthesized` and `SynthesisFailed`
are the branches of the select in `generate_speech`. `worker` is the blocking
synthesis, which goes on after an abort once it has begun. `Follows` reads the
events as the client does and is the definition of their promised order.
`others` counts the permits and slots in other hands, other sessions among them.

**GrpcVoice.** `kind` selects the method. `outgoing` and `ending` are what a
method has yet to put into its queue of `OutputQueue` items; `Link` is the task
that forwards the shutdown. A disconnect closes the receiver; a unary call is
dropped with it, a streaming task notices at its next send or at the end of its
input. `others` counts the slots of the shared limiters that HTTP, WebSocket and
the other calls hold: they come and go at any time, which covers any number of
calls because calls meet nowhere else.

**NativeEngine.** `at` and `op` say where a call is and which native operation it
wants or does; `mutex` is each engine's gate, taken for creating, decoding,
reading the text and generating, and not for feeding a stream, ending its input or
destroying it. `handles` counts the `Arc`s, `spare` is the stream an utterance has
left and not destroyed. A streaming session occupies one of the `Workers` while it
is inside a call (`Occupying`), a batch call a blocking thread. `MainReturns` drops
the router and its engines, `DropSession` the tasks, and `RuntimeDropped` waits for
the threads of both kinds. A native call may return an error at any time.

**PcmAudio and StreamingStt.** A byte, a sample and a resampled point are named
by their position, never by their amplitude: a sample is the pair of bytes it is
made of, a resampled point the samples it lies between and the fraction, so
"equal" means computed from the same input in the same way. `Frame(voiced)` lets
any frame be speech or silence. The text of an utterance is the interval of
audio it stands for. `Push` decodes and resamples, `Frame` and `EndUtterance` run
the loop of `push_pcm16` and may be cut off by a failing native call or a
stopped request at each step.

**ArtifactStore.** `pc` names the steps of `setup` for the artifact it has come
to. A tree or an archive is whole, damaged or missing. The download to a partial
file, its hash and its rename are one step, since nothing reads a partial file;
so is the extraction into a staging directory of unique name. `Damage` may take
the content of a tree or archive at any time, which also stands for what a power
failure takes that was not yet on disk. What a failing operation does depends on
where it fails, as in the code. A failed read in `verify_object` makes a whole tree
as good as invalid, and setup moves it away (`"recoverUnread"`); a path whose
metadata cannot be read counts as empty, in `exists()`; a failed extraction or
verification of a staged tree moves that away (the failing branches of
`InspectObject`, `RecoverObject`, `InspectArchive`, `RecoverArchive`, `Extract` and
`VerifyStaging`). `Abort` is any other failing operation or the death of the
process: the operating system frees the lock and files stay where they are.
`Fault` counts all of these. Trees and archives that were moved away are not
tracked further, as nothing reads them. `vouched` is a history variable: what any
process has found or made whole, until it is damaged or moved away unread.

**EngineLoader.** A loader goes through the profile two or three times without
the lock: `Survey` is `status()`, which looks at everything before it answers;
`VerifyPart` is `verified_profile()`, which stops at the first artifact that is
not whole; `LoadPart` creates the engines, on a host that can load some of them
(`Hosts`). `doctor` and `status` do all three, `serve` the last two.
Each of them may fail to read a whole object (`Unusable`) and then says so.
`undisturbed` and `relying` are history: loaders whose reads all went through and
since whose start no object was damaged or moved away unread, and those of them
that started after `doctor` had succeeded.

**WavReader.** A file is its length, what its RIFF header declares, and the chunk
headers a reader meets; what it meets at an offset nobody has read is chosen when
it is read, so the files are all files. `Chunk` is one turn of the loop in
`from_wav`: bounds with `checked_add`, the first `fmt` and the first `data`
chunk, the padding byte. `Written` is the header of `to_wav_pcm16`.

**BatchApi.** `Send` picks any request and recording. `Handle` is the extractor
and the handler up to the engine, one action per route and per form field, where
the order of the checks decides which refusal the client gets; `EngineStep` is
any outcome of the blocking call, the panic of its thread among them; `Return`
encodes the answer. `Normalize` is `normalize_public_failures`, by which an answer
of the framework gets the server's own error body. `Dispatch` and `CallTool` are
the JSON-RPC methods and tools.

## 3. The runs

| Run | States | Shows |
|---|---|---|
| `shutdown_gate` | 114,959 | `GateInv` (count, verdict and signal agree), `TokenInv` (no missed wakeup, one winner), `BoundedDrainReturns`, `EveryObserverReturns`; `ImplementsContract`, the refinement with its liveness |
| `request_admission` | 3,722,486 | `AdmissionInv` (permits, slots, the line, the gate's work), `GracefulReturnsEverything`, `OverloadIsReal`, `BusyNeedsOutsider` |
| `request_liveness` | 167,546 | `AdmittedIsAnswered`, `DrainEmptiesGate` |
| `server_lifecycle` | 103,581 | `LifecycleInv` (readiness, safe addresses, what each stage of `main` established), `CleanupContract`, `CleanExitIsClean`, `ShutdownEnds`, `ConfigurationByPrecedence` |
| `streaming_stt` | 57,105 | `SttInv` (samples, output points, finals, native stream and detector are where they should be), `StreamIsOneShot`, `TranscriptCoversAudio`, `VadFollowsStream` |
| `realtime_session` | 52,821 | `SessionInv` (permits and slots, the transcriber fits the mode), `EventsInOrder`, `CloseMatchesReport`, `SessionEnds` |
| `realtime_reports` | violated | `EveryFailureReported`, see section 6 |
| `realtime_duration` | violated | `SessionDurationBounded`, see section 6 |
| `grpc_voice` | 13,428 | `CallInv` (slots, linking tasks, the order of each response), `ResponsesConclude`, `FinalIsRead`, `StreamEnds` |
| `artifact_store` | 1,320,021 | `StoreInv` (what was vouched for stays unless damaged or unreadable, the lock), `LoaderInv` (readers without the lock), `SlotLifecycle`, `SetupRepairs` |
| `native_engine` | 414,030 | `NativeInv` (gates, references, streams), `ExecutorRecovers`, `ProcessEnds` |
| `batch_api` | 1,119,127 | `BatchInv` (reader, handlers, engines and answers in step; an engine gets what was sent), `ReaderSound`, `AnswersAreFaithful`, `SpeechReadsBack`, `RequestDecided` |

The comment over each property in its module says what it means for the code.
Deadlock is not checked: every one of these systems may come to rest, with the
process gone, all calls returned, or all clients finished. Where something must
still happen a liveness property says so.

Bounds, and why they are enough:

- *Gate and token*: three operations with room for two, so admission also fails
  on the count; three callers, one of them without a deadline, each of which may
  drain, force the stop or be dropped; one observer, since the steps of an
  observer touch only its own state and the flag. Guards, callers and the drop of
  the gate are the cancellers. The proofs cover the rest.
- *Admission*: three requests over one execution permit and one place in the
  line: one runs, one waits, one is refused, and an orphaned inference meets a
  new request; sessions and RPCs may hold the engine's slot at any time. Ids run
  out before, between and after them. Liveness is checked
  with two requests, without symmetry, which would not be sound for it.
- *Lifecycle*: three connections, since the code treats them as a set; layers
  that set both addresses in every way, one limit at zero, at its bound and above
  it, an empty artifact root, and two files of which one is malformed
  (`MCServerLifecycle`).
- *Recognition*: rates below, at and above the target (2, 3 and 4 to 3), frames of
  two samples, pushes of up to five bytes and so of odd length, up to 19 bytes
  in all: several utterances, ended by silence and by the limit, and both audio
  limits within reach (`MaxBytes`, `MaxDuration`).
- *Realtime*: one session; all other holders of the two permits and of the slots
  are `others`, which come and go at any time, because sessions meet nowhere
  else. A client may send anything at each turn; there is no bound on the length
  of a session. The proof covers any number of sessions.
- *gRPC*: one call of any kind, two slots and a queue of two, so that the queue
  fills, the limiter refuses and others take and leave slots in between.
- *Store and loader*: two setups, any of them offline, two loaders, two artifacts,
  hosts that load both or one, and all combinations of two faults (`MaxFaults`).
  Two faults damage the tree and the archive of one artifact, or kill one setup
  and hinder the next, or make a whole object unreadable to the one and absent to
  the other. The proofs hold for any number of faults.
- *Native engines*: two batch recognitions, a session and a synthesis over two
  slots and one worker: the session waits for the gate of a batch call while no
  worker is free. `MaxDecodeSteps` 1 and two frames per push (`MaxFrames`) reach
  the bound of the decode loop and an utterance that ends inside a push.
- *Batch*: `usize` as narrow as `u32` and both 7 bits (`MaxU32`, `MaxUsize`), the
  hard case for the reader, so that its checked additions overflow; files of up to
  72 bytes with chunk sizes around every boundary the code compares with; forms of
  up to three fields (`MaxFields`); limits in the order of the real ones.

## 4. Fairness

Assumed, and only where a liveness property needs it: the executor polls a task
whose future can go on and threads inside a call keep running (tokio's
contract); clocks advance, so timers fire; a semaphore serves its queue in
order; a setup that runs keeps running, and the file lock is passed on. A
client that is gone closes its input. In `NativeEngine` a call under way goes on,
so a native call returns and a thread that finds its mutex free again and again
takes it in the end; the dropped runtime drops its tasks. `WF` of taking a mutex
is weaker than a fair mutex: a thread may wait as long as others pass it.

Not assumed anywhere: that a client reads, sends a body, or closes; that an
operation leaves the gate; that, outside `NativeEngine`, an inference ends; that a
cleanup, a connection or an RPC ends; that anybody calls `drain`, or that an
interrupt comes; that a loader goes on. The liveness properties hold although
none of this happens. In `RealtimeSession` and `GrpcVoice` they are relative to a
client that has not stopped reading, as the code bounds no send to one that has;
a client that was stalled counts as such. `SetupRepairs` starts from the last
fault and an online setup.

## 5. What is proved

The proofs hold for every value of the constants, under the named assumptions of
the modules: finite sets of operations, requests, calls, RPCs and sessions and
positive limits (`GateAssumption`, `AdmissionAssumption`, `SessionAssumption`,
`GrpcAssumption`, `EngineAssumption`); a non-empty profile and "free" no process
(`ProfileAssumption`), hosts that are sets of artifacts (`HostsAssumption`); a
default for every field, limits and bounds that are unsigned numbers, a malformed
source that is not an empty one (`DefaultsAssumption`), and layers that name only
fields (`InputsAssumption`); positive rates, frames and limits, an utterance that
may be as long as the shortest speech (`SttAssumption`, `AudioAssumption`); `u32`
no wider than `usize` and an upload limit below `usize::MAX`, since the code only
uses `AudioLimits::default()` (`WavAssumption`); lengths that are numbers, and a
rate that is absent, malformed or not supported is none of the supported ones
(`ApiAssumption`). The token needs none. Each invariant was model-checked before
it was proved.

| Module | Theorem | States |
|---|---|---|
| `ShutdownGateProofs` | `GateInvariant`, `DrainAccounting`, `StopSignal`, `DrainVerdict`, `PhaseAdvances`, `GateImplementsContract` | `GateInv` and its parts; the safety half of `ImplementsContract` |
| `ShutdownGateProofs` | `SignalInvariant` | `GateInv` and `TokenInv` of the gate over its token |
| `ShutdownGateProofs` | `TokenInvariant` | `TokenInv` |
| `RequestAdmissionProofs` | `AdmissionInvariant`, `GracefulReturns`, `OverloadTellsTheTruth`, `BusyMeansOutsider` | `AdmissionInv`, `GracefulReturnsEverything`, `OverloadIsReal`, `BusyNeedsOutsider` |
| `ProcessProofs` | `LifecycleInvariant`, `CleanupIsPromised`, `CleanExit` | `LifecycleInv`, `CleanupContract`, `CleanExitIsClean` |
| `ProcessProofs` | `ConfigurationResolved` | `ConfigurationByPrecedence` |
| `RealtimeSessionProofs` | `SessionInvariant`, `EventOrder`, `CloseAgrees` | `SessionInv`, `EventsInOrder`, `CloseMatchesReport` |
| `GrpcVoiceProofs` | `CallInvariant`, `ResponsesAreConcluded` | `CallInv`, `ResponsesConclude` |
| `NativeEngineProofs` | `NativeInvariant` | `NativeInv` |
| `ProcessProofs` | `StoreInvariant`, `ObjectsAppearWhole`, `LoaderInvariant` | `StoreInv`, `SlotLifecycle`, `LoaderInv` |
| `StreamingSttProofs` | `SttInvariant`, `StreamingIsOneShot`, `FinalsCoverAudio`, `DetectorFollowsStream` | `SttInv`, `StreamIsOneShot`, `TranscriptCoversAudio`, `VadFollowsStream` |
| `BatchApiProofs` | `BatchInvariant`, `AudioReachesTheEngine` | `BatchInv`; its part `EngineGetsWhatWasSent` |
| `BatchApiProofs` | `ReaderAcceptsWavFiles` | `ReaderSound` |
| `BatchApiProofs` | `EveryAnswerIsFaithful`, `SpeechRoundTrip` | `AnswersAreFaithful`, `SpeechReadsBack` |

**Gate.** Alone, "a graceful verdict means drained" is not inductive: the code
decides on a counter, so `GateInv` says that the counter is the number of guards
(`GuardsCounted`; the lemmas on `Working` do the cardinalities), that a draining
gate has work in it, and what each program counter knows of the phase
(`CallsConsistent`). `GateImplementsContract` takes every action to a step or a
stutter of `DrainContract`, with the set of working operations for the counter.

**Token.** The absence of missed wakeups rests on `EpochFollows`: the epoch moves
after the flag is set, and whoever parks armed before the epoch moved. With it,
an observer parked after the notification has a wakeup to come. `SignalInvariant`
takes both invariants to `StopSignal`: a step of the composition is a step or a
stutter of the gate (`GateUnderSignal`) and of the token (`TokenUnderSignal`).

**Admission.** `AdmissionInv` ties the two semaphores and the limiter to the sets
of requests that hold something, at each program counter, and the line to the
requests that wait, each once; the lemmas on the line say what leaving it at its
head, its end and anywhere does. That the gate's `work` is every request between
its entry and the drop of its guard makes `GracefulReturnsEverything` a
consequence. `OverloadIsReal` follows from the count of admitted requests at the
moment of the refusal. `BusyMeansOutsider` assumes `EngineLimit = MaxConcurrent`,
as `main` configures it: if the slots are all taken and the request that finds them
so has an execution permit itself, one slot is with somebody who has none, since
the requests with a permit are too few to fill the engine without it.

**Lifecycle.** Nothing counts here; `GateFollowsMain`, `EnginesFollowMain` and
`ResultFollowsMain` carry what one stage of `main` tells a later one: the stop
follows the verdict, the cleanup follows the stop, and an unforced result keeps
`CleanSoFar` up to the exit. The gate is its contract.

**Configuration.** `EffectiveIsMerged`: laying the sources over one another gives
each field the value of the last source that names it, which is what
`ByPrecedence` asks for. `LastWord` finds that source; the rest is that a step
other than `Configure` leaves `inputs` and `config` alone.

**Realtime.** `SlotsConserved` needs to know at which points a session has a
transcriber, so `TranscriberFits` says what the handler's guards have established
at the points where a session resumes. The order of events is not inductive: what
the client has heard depends on what is still under way. `ProtocolInv` says that
the events in the outbox take the client from where it is to where the session is
(`Leads`), and that a session on its way out has at most one event left, which
ends the conversation and agrees with the close code (`LastWords`). `LeadsOn`
delivers one event and is the heart of the proof; `SaysOn` and `SaysFarewell`
cover the handlers. Both theorems use `SessionInv` for the point reached.

**gRPC.** `ResponseInOrder` splits a response into what the client got, the queue
and what the task has yet to put there: what was concluded has nothing after it,
and what is not has its conclusion ahead.

**Native engines.** Whoever is inside an engine owns its gate (`Serialized`); the
references are counted by the calls that hold one, the streams and `main`
(`Accounted`); `StreamFollowsCall` says at which steps a call has a stream, an
abandoned stream or a result. From these, a destroyed engine has no stream left.

**Store and loader.** Only a process between lock and release writes; it holds
the lock (`LockHeld`); so what it saw at its artifact's path is still so
(`SlotAsSeen`), damage from outside apart, which only touches whole trees, and an
empty path apart, which an earlier failure may have made up: the rename of a
staged tree then fails on what is there. What is taken away is thus damaged, or is
what the holder of the lock could not read (`TakesUnread`). `HolderStep` is the
lemma that a step of the holder leaves the others' claims alone. For a reader
without the lock, what it has passed stays in place while it goes on
(`PassedStays`) unless it is `Harmed`, because no setup takes away anything else
that was vouched for.

**Recognition.** That the stream equals the one-shot computation looks like an
induction over the audio, and is none: `DecodedSoFar` and `ResampledSoFar` say for
every position which bytes a sample, and which samples an output point, is made
of, and a push only has to keep that for old positions and establish it for new
ones. Where a position falls is Euclid's division: the next output point is the
first that the samples at hand do not reach. `StreamFollowsFinals` puts the
native stream behind the last final, from which `TranscriptCoversAudio` follows
step by step; `DetectorFollows` does the same for the detector, over one frame.

**Batch endpoints.** The walk of the reader is not an induction over the chunks of
a file either. `ChunksFit` says of the chunks known so far that each begins where
the one before it ends, and `WalkedSoFar` that the reader stands behind those of
its pass with the first `fmt` and the first `data` chunk among them in hand. So
what it accepts has both, in bounds, and each of its rejections contradicts
`Describes`, the definition of a WAV file. `WrittenDescribes` says that the header
of the writer is such a file, so that the speech of an answer is read back: a
rejection of it can only be a limit. `InStep` ties the handler to the reader and
to the engine, `SpeechIsKept` an uploaded recording to the answer it came from.
`AnswersAreFaithful` has a lemma per kind of answer, before and after
`normalize_public_failures`; for MCP it says which calls may be answered with a
result (`RpcFaithful`): those that were understood and whose engine, if they want
one, has finished. Every other call gets a JSON-RPC error under its id.

Every safety property of the passing runs is stated by a theorem. Only
model-checked is liveness, since the prover has no reasoning about fairness here:
`BoundedDrainReturns`, `EveryObserverReturns`, `AdmittedIsAnswered`,
`DrainEmptiesGate`, `ShutdownEnds`, `SessionEnds`, `FinalIsRead`, `StreamEnds`,
`SetupRepairs`, `ExecutorRecovers`, `ProcessEnds`, `RequestDecided`, and the
liveness half of `ImplementsContract`.

## 6. Where code and documents disagree

- `docs/api.md:56`: "Every failure emits an `error` event with a stable `code`
  before the close frame." When the socket itself refuses a frame (too large,
  malformed), `voice_api.rs:548` leaves the loop without an event and the client
  gets only 1002. Run `realtime_reports`.
- `docs/product-contract.md:49`: "session duration ... bounded". The timer is
  around the loop; the report of the deadline and the close frame are sent after
  it (`voice_api.rs:521`). A client that has stopped reading blocks them, and with
  them the session permit and, in a recognition session, an engine slot. Run
  `realtime_duration`; `SessionEnds` is what does hold.

Met while modelling, part of the models as the code does it, and not run as
findings:

- an inference whose request got 504 or went away runs on and keeps its slot, and
  sessions and RPCs take slots of the same limiters without an execution permit;
  so a request with a permit can be told "busy" (`BusyNeedsOutsider` says that
  these are the only reasons). A graceful drain does not wait for such inferences;
- any error of `verify_object`, a read that fails for a moment included, counts as
  an invalid object: setup moves a good object away (artifacts `lib.rs:286`), an
  offline setup then gives up and cannot put it back, and `status` and `serve` say
  not ready. `SlotLifecycle` says that nothing else takes a whole object away,
  `SetupRepairs` that an online setup restores it;
- an upgraded session is not reached by the shutdown; it ends with the process;
- a gRPC stream that waits for room in its queue watches neither its deadline
  nor the shutdown (`grpc.rs:143`); `StreamEnds` is relative to the reader;
- if the gRPC listener fails, HTTP serves on, and the failure shows in the exit
  status; the gRPC health service says SERVING until its listener ends, also
  while the server drains;
- a caller of `drain` whose timer fired reports Forced although the last guard
  may have left just then and the gate is Graceful (`VerdictSound`);
- native recognition runs on the executor's own threads in a session
  (`ExecutorRecovers` is what that leaves of the executor's promise);
- an utterance can exceed its maximum by less than one VAD frame;
- the extractors of the batch endpoints keep axum's own limit on bodies
  (`ExtractorLimit`), well below `max_request_bytes` as `config/` sets it and below
  the audio that the schema of the MCP tool admits (`mcp.rs:133`): such bodies are
  refused with 413 before the server's own limit is asked;
- an interrupt before `main` listens for it kills the process without a drain
  (`Killed`), which exit status 0 never hides (`CleanExitIsClean`).

## 7. What is not modelled

| Left out | Why |
|---|---|
| a shutdown of upgraded sessions | the code has no path from the shutdown to a session |
| named health checks | never changed by this program after boot |
| validation of archive paths and of the manifest | pure functions of constants |
| the grammar of the command line, TOML and protobuf | generated or library code; a malformed source is one value |
| amplitudes and the numbers of a resampling | samples are named by position; only which inputs a value is made of matters |
| symbol lookup, C structs | layout, without state |
| error wording, logging, tracing | no property is about them |
| domain and protocol crates, test kit, scripts | no state of the running program |

## 8. Plan

Order of construction: first the two primitives everything stands on
(`CancellationToken`, `ShutdownGate` with `DrainContract`, then `StopSignal`), then
the request path (`RequestAdmission`, `BatchApi` with `WavReader`) and the process
around it (`ServerLifecycle` with `Configuration`), the two streaming planes
(`RealtimeSession`, `GrpcVoice`), the audio path (`PcmAudio`, `StreamingStt`), the
native engines (`NativeEngine`) and the store (`ArtifactStore`, `EngineLoader`).
These exist, and so do the proofs of their safety. What is left, by weight:

1. `RealtimeSession` on the executor of `NativeEngine`, so that a session that
   waits for a gate also delays its own timer.
2. `RequestAdmission` and `ServerLifecycle` over `ShutdownGate` itself: that a step
   of the gate under their step is one of the contract's is proved
   (`GateImplementsContract`); that the composition keeps their invariants rests on
   reading the contract in its place.
3. An abstract specification of the store as its users see it (an artifact is
   absent, whole or damaged), implemented by `ArtifactStore`; `SlotLifecycle` is
   its step.
