------------------------------ MODULE BatchApi ------------------------------
(***************************************************************************)
(* One request after the other through the batch endpoints, after the      *)
(* admission of RequestAdmission: native and OpenAI-compatible             *)
(* transcription, speech, and the tools of MCP.  A request is decoded, its *)
(* audio is read (WavReader), an engine works on a blocking thread, and    *)
(* the answer is encoded and, if the framework produced it, normalized.    *)
(***************************************************************************)
EXTENDS WavReader

CONSTANTS
  ExtractorLimit,   \* axum's default limit on the bodies its extractors read
  MaxMcpAudio,      \* MAX_MCP_AUDIO_BYTES
  Envelope,         \* bytes of a tools/call around its base64 audio
  PcmLengths,       \* lengths of raw recordings clients send
  Outputs,          \* numbers of samples a synthesis can have
  MaxFields,        \* bound: fields of a form
  Absent,           \* a rate that is not given
  Malformed,        \* one that does not parse
  OddRate           \* one that is not supported

ASSUME ApiAssumption ==
  /\ {ExtractorLimit, MaxMcpAudio, Envelope, MaxFields} \subseteq Nat
  /\ PcmLengths \subseteq Nat /\ Outputs \subseteq Nat \ {0}
  /\ {Absent, Malformed, OddRate} \cap Rates = {} /\ Absent # Malformed

VARIABLES
  request,   \* what the client sent
  at,        \* the step of its handler
  form,      \* the form fields read so far
  engine,    \* the engine call: none, or what it was given and how it ended
  answer     \* the response

apiVars == <<request, at, form, engine, answer>>
vars == <<wavVars, apiVars>>

-----------------------------------------------------------------------------
(***************************************************************************)
(* Requests.  A recording is raw audio of some length or a WAV file, and   *)
(* what the request claims of it need not be true.                         *)
(***************************************************************************)
RateTexts == Rates \cup {Absent, Malformed, OddRate}
Media == {"wav", "pcm", "other", "absent"}
None == [route |-> "none"]

Native == [route : {"native"}, media : Media, parameter : RateTexts, rate : RateTexts]
Form == [route : {"openai"}, multipart : BOOLEAN]
Speech == [route : {"speech"}, body : {"json", "syntax", "shape", "untyped", "large"},
           curated : BOOLEAN, format : {"wav", "pcm", "other"}]

Methods == {"initialize", "ping", "tools/list", "resources/list", "resources/read", "other"}
Tools == {"list_models", "health", "other"}

Rpc == [route : {"mcp"}, document : {"json"}, version : BOOLEAN, id : {"absent", "null", "given"}]
Joined(r, m) == [k \in DOMAIN r \cup DOMAIN m |-> IF k \in DOMAIN r THEN r[k] ELSE m[k]]
With(more) == {Joined(r, m) : r \in Rpc, m \in more}
Mcp ==
  [route : {"mcp"}, document : {"syntax", "shape"}]
    \cup With([method : Methods, params : {"good", "bad", "unknown"}])
    \cup With([method : {"tools/call"}, tool : Tools, params : {"good", "bad"}])
    \cup With([method : {"tools/call"}, tool : {"transcribe_audio"}, params : {"good", "bad"},
               media : {"wav", "pcm", "other"}, rate : Rates \cup {Absent, OddRate}])
    \cup With([method : {"tools/call"}, tool : {"synthesize_speech"}, params : {"good", "bad"},
               format : {"wav", "pcm", "other"}])

Requests == Native \cup Form \cup Speech \cup Mcp

IsTool(name) == request.method = "tools/call" /\ request.tool = name

Raw(n) == [NoFile EXCEPT !.length = n]
Recordings == Uploads \cup {Raw(n) : n \in PcmLengths}

NotCalled == [given |-> "nothing", bytes |-> 0, rate |-> 0, outcome |-> "none", samples |-> 0]
Unanswered == [status |-> 0, shape |-> "none", code |-> "none", id |-> "absent"]
EmptyForm == [media |-> "none", parameter |-> Absent, rate |-> Absent, fields |-> 0]

ApiInit ==
  /\ request = None /\ at = "idle"
  /\ form = EmptyForm /\ engine = NotCalled /\ answer = Unanswered

Init == WavInit /\ ApiInit

-----------------------------------------------------------------------------
(***************************************************************************)
(* Answers.                                                                *)
(***************************************************************************)
Json(status, code) == [status |-> status, shape |-> "json", code |-> code, id |-> "absent"]
Plain(status) == [status |-> status, shape |-> "text", code |-> "none", id |-> "absent"]
RpcAnswer(code, id) ==
  [status |-> 200, shape |-> "json", code |-> code,
   id |-> IF id = "given" THEN "given" ELSE "null"]

Invalid == Json(400, "invalid_request")

\* ApiError::from of a VoiceBackendError.
Refusal(outcome) ==
  CASE outcome = "invalid"   -> Invalid
    [] outcome = "busy"      -> Json(429, "overloaded")
    [] outcome = "cancelled" -> Json(503, "cancelled")
    [] outcome = "deadline"  -> Json(504, "deadline_exceeded")
    [] OTHER                 -> Json(500, "engine_error")

\* map_backend_error of MCP.
RpcRefusal(outcome) ==
  CASE outcome = "invalid"                   -> "-32602"
    [] outcome \in {"cancelled", "deadline"} -> "-32800"
    [] OTHER                                 -> "-32003"

Reply(a) ==
  /\ at' = "replied"
  /\ answer' = a

\* The same failure in the terms of the route.
Fail(outcome) ==
  Reply(IF request.route = "mcp" THEN RpcAnswer(RpcRefusal(outcome), request.id)
        ELSE Refusal(outcome))

\* Bug: the status of a rejected document is passed on.
NormalizedPartly(a) ==
  IF a.shape # "json" /\ a.status \in {400, 405, 413, 415} THEN Json(a.status, "invalid_request")
  ELSE a

\* Extractors fail in plain text; what is not JSON is put into the envelope.
Normalized(a) ==
  CASE a.shape = "json"                                -> a
    [] a.shape # "json" /\ a.status \in {400, 422}      -> Invalid
    [] a.shape # "json" /\ a.status \in {405, 413, 415} -> Json(a.status, "invalid_request")
    [] OTHER                                           -> a

Normalize ==
  /\ at = "replied"
  /\ at' = "answered"
  /\ answer' = Normalized(answer)
  /\ UNCHANGED <<wavVars, request, form, engine>>
-----------------------------------------------------------------------------
(***************************************************************************)
(* From the request to the audio.                                          *)
(***************************************************************************)
HasRecording(r) == r.route \in {"native", "openai"} \/ (r.route = "mcp" /\ "media" \in DOMAIN r)

Send(r, f) ==
  /\ request' = r
  /\ file' = f
  /\ at' = "received"
  /\ UNCHANGED <<reading, pass, offset, format, data, form, engine, answer>>

Base64(n) == 4 * ((n + 2) \div 3)
BodySize == IF request.route = "mcp" THEN Envelope + Base64(file.length) ELSE file.length
TooLarge == HasRecording(request) /\ BodySize > ExtractorLimit

Call(given, bytes, rate) ==
  /\ at' = "engine"
  /\ engine' = [NotCalled EXCEPT !.given = given, !.bytes = bytes, !.rate = rate]
  /\ UNCHANGED <<file, answer>>

ReadWav ==
  /\ at' = "reading"
  /\ UNCHANGED <<file, engine, answer>>

Refuse(a) == Reply(a) /\ UNCHANGED <<file, engine>>

ReadPcm(rate) ==
  IF AcceptsPcm(file.length, rate)
    THEN Call("audio", file.length, rate)
    ELSE Fail("invalid") /\ UNCHANGED <<file, engine>>

\* decode_audio: a rate of its own comes before one in the content type, and
\* one there that does not parse is as good as absent.
DecodeAudio(media, parameter, rate) ==
  CASE media = "wav" /\ rate = Absent -> ReadWav
    [] media = "pcm" /\ rate # Absent -> ReadPcm(rate)
    [] media = "pcm" /\ rate = Absent -> ReadPcm(parameter)
    [] OTHER                            -> Refuse(Invalid)

NativeTranscription ==
  /\ at = "received" /\ request.route = "native"
  /\ IF TooLarge THEN Refuse(Plain(413))
     ELSE IF request.media = "absent" \/ request.rate = Malformed THEN Refuse(Invalid)
     ELSE DecodeAudio(request.media, request.parameter, request.rate)
  /\ UNCHANGED <<request, form, reading, pass, offset, format, data>>

OpenForm ==
  /\ at = "received" /\ request.route = "openai"
  /\ IF request.multipart
       THEN at' = "fields" /\ UNCHANGED <<file, engine, answer>>
       ELSE Refuse(Plain(400))
  /\ UNCHANGED <<request, form, reading, pass, offset, format, data>>

Field ==
  /\ at = "fields" /\ form.fields < MaxFields
  /\ UNCHANGED <<request, file, engine, reading, pass, offset, format, data>>

FileField(media, parameter) ==
  /\ Field
  /\ IF TooLarge \/ form.media # "none"
       THEN Reply(Invalid) /\ UNCHANGED form
       ELSE /\ form' = [form EXCEPT !.media = media, !.parameter = parameter, !.fields = @ + 1]
            /\ UNCHANGED <<at, answer>>

RateField(rate) ==
  /\ Field
  /\ rate # Absent
  /\ IF rate = Malformed
       THEN Reply(Invalid) /\ UNCHANGED form
       ELSE /\ form' = [form EXCEPT !.rate = rate, !.fields = @ + 1]
            /\ UNCHANGED <<at, answer>>

ModelField ==
  /\ Field
  /\ form' = [form EXCEPT !.fields = @ + 1]
  /\ UNCHANGED <<at, answer>>

\* An unknown field, one that is too long, or a malformed body.
BadField ==
  /\ Field
  /\ Reply(Invalid)
  /\ UNCHANGED form

FormEnds ==
  /\ at = "fields"
  /\ IF form.media \in {"none", "absent"}
       THEN Refuse(Invalid)
       ELSE DecodeAudio(form.media, form.parameter, form.rate)
  /\ UNCHANGED <<request, form, reading, pass, offset, format, data>>

SpeechRequest ==
  /\ at = "received" /\ request.route = "speech"
  /\ CASE request.body = "syntax"  -> Refuse(Plain(400))
       [] request.body = "shape"   -> Refuse(Plain(422))
       [] request.body = "untyped" -> Refuse(Plain(415))
       [] request.body = "large"   -> Refuse(Plain(413))
       [] request.body = "json"    -> IF request.curated /\ request.format # "other"
                                        THEN Call("text", 0, 0) ELSE Refuse(Invalid)
  /\ UNCHANGED <<request, form, reading, pass, offset, format, data>>

-----------------------------------------------------------------------------
(***************************************************************************)
(* The JSON-RPC dispatch of MCP.                                           *)
(***************************************************************************)
RpcRefuse(code) == Refuse(RpcAnswer(code, request.id))
Result == Refuse(RpcAnswer("result", request.id))

CallTool ==
  CASE request.params = "bad" \/ request.tool = "other" -> RpcRefuse("-32602")
    [] request.params = "good" /\ request.tool \in {"list_models", "health"} -> Result
    [] request.params = "good" /\ request.tool = "transcribe_audio" ->
         IF file.length > MaxMcpAudio \/ request.media = "other" THEN RpcRefuse("-32602")
         ELSE IF request.media = "pcm" THEN ReadPcm(request.rate)
         ELSE IF request.rate = Absent THEN ReadWav
         ELSE RpcRefuse("-32602")
    [] request.params = "good" /\ request.tool = "synthesize_speech" ->
         IF request.format = "other" THEN RpcRefuse("-32602") ELSE Call("text", 0, 0)

Dispatch ==
  CASE request.method \in {"ping", "tools/list", "resources/list"} -> Result
    [] request.method \in {"initialize", "resources/read"} /\ request.params = "good" -> Result
    [] request.method = "initialize" /\ request.params = "bad" -> RpcRefuse("-32600")
    [] request.method = "initialize" /\ request.params = "unknown" -> RpcRefuse("-32602")
    [] request.method = "resources/read" /\ request.params = "bad" -> RpcRefuse("-32602")
    [] request.method = "resources/read" /\ request.params = "unknown" -> RpcRefuse("-32002")
    [] request.method = "tools/call" -> CallTool
    [] request.method = "other" -> RpcRefuse("-32601")

\* Bug: a notification is carried out like a call.
HandleNotifications ==
  /\ at = "received" /\ request.route = "mcp"
  /\ IF TooLarge THEN Refuse(Plain(413))
     ELSE IF request.document = "syntax" THEN Refuse(RpcAnswer("-32700", "absent"))
     ELSE IF request.document = "shape" THEN Refuse(RpcAnswer("-32600", "absent"))
     ELSE IF ~request.version THEN RpcRefuse("-32600")
     ELSE Dispatch
  /\ UNCHANGED <<request, form, reading, pass, offset, format, data>>

Handle ==
  /\ at = "received" /\ request.route = "mcp"
  /\ IF TooLarge THEN Refuse(Plain(413))
     ELSE IF request.document = "syntax" THEN Refuse(RpcAnswer("-32700", "absent"))
     ELSE IF request.document = "shape" THEN Refuse(RpcAnswer("-32600", "absent"))
     ELSE IF ~request.version THEN RpcRefuse("-32600")
     ELSE IF request.id # "given" THEN Refuse([Unanswered EXCEPT !.status = 202, !.shape = "empty"])
     ELSE Dispatch
  /\ UNCHANGED <<request, form, reading, pass, offset, format, data>>

-----------------------------------------------------------------------------
(***************************************************************************)
(* From the audio to the answer.                                           *)
(***************************************************************************)
Read ==
  /\ at = "reading"
  /\ WavStep
  /\ UNCHANGED apiVars

WavRead ==
  /\ at = "reading"
  /\ \/ reading = "accepted" /\ Call("audio", data.size, format)
     \/ reading = "rejected" /\ Fail("invalid") /\ UNCHANGED <<file, engine>>
  /\ UNCHANGED <<request, form, reading, pass, offset, format, data>>

Outcomes == {"invalid", "busy", "cancelled", "deadline", "engine", "panic"}

EngineFails(outcome) ==
  /\ at = "engine"
  /\ engine' = [engine EXCEPT !.outcome = outcome]
  /\ Fail(outcome)
  /\ UNCHANGED <<wavVars, request, form>>

Succeed(shape) ==
  Reply(IF request.route = "mcp" THEN RpcAnswer("result", request.id)
        ELSE [status |-> 200, shape |-> shape, code |-> "none", id |-> "absent"])

Transcribed ==
  /\ at = "engine" /\ engine.given = "audio"
  /\ engine' = [engine EXCEPT !.outcome = "done"]
  /\ Succeed("json")
  /\ UNCHANGED <<wavVars, request, form>>

Encoded(kind, rate, samples) ==
  IF kind = "wav" THEN Written(rate, samples)
  ELSE Raw(2 * samples)

Synthesized(rate, samples) ==
  /\ at = "engine" /\ engine.given = "text"
  /\ engine' = [engine EXCEPT !.outcome = "done", !.rate = rate, !.samples = samples]
  /\ IF request.format = "wav" /\ ~CanWrite(samples)
       THEN Fail("engine") /\ UNCHANGED file
     ELSE IF request.route = "mcp" /\ Encoded(request.format, rate, samples).length > MaxMcpAudio
       THEN Reply(RpcAnswer("-32003", request.id)) /\ UNCHANGED file
     ELSE Succeed("audio") /\ file' = Encoded(request.format, rate, samples)
  /\ UNCHANGED <<request, form, reading, pass, offset, format, data>>

\* The client posts the speech it was answered with.
Spoken(kind, rate, samples) ==
  [route |-> "native", media |-> kind, parameter |-> Absent,
   rate |-> IF kind = "wav" THEN Absent ELSE rate,
   spoken |-> [rate |-> rate, samples |-> samples]]

Return ==
  /\ at = "answered" /\ engine.given = "text" /\ file # NoFile
  /\ request' = Spoken(request.format, engine.rate, engine.samples)
  /\ at' = "received"
  /\ engine' = NotCalled /\ answer' = Unanswered
  /\ UNCHANGED <<wavVars, form>>

HandlerStep ==
  \/ NativeTranscription \/ OpenForm \/ FormEnds \/ SpeechRequest \/ Handle
  \/ \E media \in Media, text \in RateTexts : FileField(media, text)
  \/ \E text \in RateTexts : RateField(text)
  \/ ModelField \/ BadField
  \/ Read \/ WavRead \/ Normalize

EngineStep ==
  \/ \E outcome \in Outcomes : EngineFails(outcome)
  \/ Transcribed
  \/ \E rate \in Rates, samples \in Outputs : Synthesized(rate, samples)

Next ==
  \/ at = "idle" /\ \E r \in Requests :
                       \E f \in IF HasRecording(r) THEN Recordings ELSE {NoFile} : Send(r, f)
  \/ HandlerStep \/ EngineStep
  \/ Return

\* A handler runs once its body is there; the engine is not promised to return.
Spec == Init /\ [][Next]_vars /\ WF_vars(HandlerStep)

-----------------------------------------------------------------------------
TypeOK ==
  /\ WavTypeOK
  /\ at \in {"idle", "received", "fields", "reading", "engine", "replied", "answered"}
  /\ form \in [media : Media \cup {"none"}, parameter : RateTexts, rate : RateTexts,
               fields : 0..MaxFields]
  /\ engine \in [given : {"nothing", "audio", "text"}, bytes : Nat, rate : Rates \cup {0},
                 outcome : Outcomes \cup {"none", "done"}, samples : Nat]

Claims(media, rate) ==
  \/ /\ request.route = "native" /\ request.media = media
     /\ rate \in IF request.rate = Absent THEN {request.parameter} ELSE {request.rate}
  \/ /\ request.route = "openai" /\ form.media = media
     /\ rate \in IF form.rate = Absent THEN {form.parameter} ELSE {form.rate}
  \/ request.route = "mcp" /\ IsTool("transcribe_audio") /\ request.media = media
     /\ rate = request.rate

(***************************************************************************)
(* By whichever transport audio reaches the recognizer, it is the audio of *)
(* the file the client sent, read at the rate of the file or the rate that *)
(* came with it, and within the limits; and neither engine ever works for  *)
(* a notification, whose sender waits for no answer.                       *)
(***************************************************************************)
EngineGetsWhatWasSent ==
  /\ engine.given = "audio" =>
       \/ Claims("pcm", engine.rate) /\ engine.bytes = file.length
          /\ AcceptsPcm(engine.bytes, engine.rate)
       \/ /\ \E any \in RateTexts : Claims("wav", any)
          /\ engine.bytes = data.size /\ Describes(file, engine.rate, data)
  /\ engine.given # "nothing" /\ request.route = "mcp" => request.id = "given" /\ request.version

HttpCodes == [s \in {400, 413, 415, 429, 500, 503, 504} |->
                CASE s \in {400, 413, 415} -> "invalid_request"
                  [] s = 429 -> "overloaded" [] s = 503 -> "cancelled"
                  [] s = 504 -> "deadline_exceeded" [] s = 500 -> "engine_error"]

IsNotification(r) == r.document = "json" /\ r.version /\ r.id # "given"

\* A call whose method, tool and parameters are ones MCP knows.
IsUnderstood(r) ==
  /\ r.document = "json" /\ r.version /\ r.id = "given"
  /\ \/ r.method \in {"ping", "tools/list", "resources/list"}
     \/ r.method \in {"initialize", "resources/read"} /\ r.params = "good"
     \/ r.method = "tools/call" /\ r.params = "good" /\ r.tool # "other"

WantsEngine(r) == r.method = "tools/call" /\ r.tool \in {"transcribe_audio", "synthesize_speech"}

RpcErrors == {"-32700", "-32600", "-32601", "-32602", "-32002", "-32003", "-32800"}

\* A result is for a call that was understood and whose engine has finished; what
\* needs no engine and was understood does get its result.
RpcFaithful(r, outcome, a) ==
  /\ a.status = 200 /\ a.shape = "json"
  /\ a.id = IF r.document = "json" /\ r.id = "given" THEN "given" ELSE "null"
  /\ a.code \in RpcErrors \cup {"result"}
  /\ a.code = "result" => IsUnderstood(r) /\ (WantsEngine(r) => outcome = "done")
  /\ IsUnderstood(r) /\ ~WantsEngine(r) => a.code = "result"

(***************************************************************************)
(* "Stable JSON errors": whichever layer refused, the client reads a JSON  *)
(* error whose code goes with its status; MCP answers a call under its id, *)
(* acknowledges a notification, and nothing else, without a body, and      *)
(* turns every failure of its own into a JSON-RPC error, be it of the      *)
(* document, the method, the parameters, the audio or the engine; and an   *)
(* answer that reports success means that the engine, where one was        *)
(* needed, has finished.                                                   *)
(***************************************************************************)
Faithful(r, outcome, a) ==
  /\ a.status \notin {200, 202} =>
       a.shape = "json" /\ a.status \in DOMAIN HttpCodes /\ a.code = HttpCodes[a.status]
  /\ r.route = "mcp" /\ a.status # 413 =>
       IF IsNotification(r) THEN a.status = 202 /\ a.shape = "empty"
       ELSE RpcFaithful(r, outcome, a)
  /\ a.status = 200 /\ r.route # "mcp" => outcome = "done"
  /\ outcome \in Outcomes => a.status # 200 \/ a.code \in {"-32602", "-32800", "-32003"}

AnswersAreFaithful == at = "answered" => Faithful(request, engine.outcome, answer)

(***************************************************************************)
(* Speech the service has answered with, in either format, is audio its    *)
(* own transcription accepts: the same rate and as many samples, unless it *)
(* is beyond the limits of an upload.                                      *)
(***************************************************************************)
IsSpoken == "spoken" \in DOMAIN request

Uploadable(rate, samples) ==
  /\ file.length <= ExtractorLimit /\ file.length <= MaxEncodedBytes
  /\ Admits(2 * samples, rate, samples)

ReadBack(rate, samples) ==
  engine.given = "audio" /\ engine.rate = rate /\ engine.bytes = 2 * samples

SpeechReadsBack ==
  at = "answered" /\ IsSpoken =>
    LET rate == request.spoken.rate
        samples == request.spoken.samples
    IN  IF Uploadable(rate, samples) THEN ReadBack(rate, samples)
        ELSE engine.given = "nothing" /\ answer.status \in {400, 413}

(***************************************************************************)
(* Why this is so, step by step: the reader has not begun before its       *)
(* request needs it and never begins for speech; whoever is with the       *)
(* engine has been let through, on MCP with a call that was understood and *)
(* wants one; and speech is as it was written from the answer to the       *)
(* verdict on its upload.                                                  *)
(***************************************************************************)
InStep ==
  /\ at \in {"idle", "received", "fields", "reading"} => engine = NotCalled
  /\ at \in {"idle", "received", "fields"} \/ engine.given = "text" => reading = "idle"
  /\ at = "engine" => engine.given # "nothing" /\ engine.outcome = "none"
  /\ at = "fields" => request.route = "openai"
  /\ at = "reading" => \E any \in RateTexts : Claims("wav", any)
  /\ at \in {"reading", "engine"} /\ request.route = "mcp" =>
       IsUnderstood(request) /\ WantsEngine(request)
  /\ at = "replied" => Faithful(request, engine.outcome, Normalized(answer))

SpeechIsKept ==
  /\ engine.given = "text" =>
       /\ request \in Requests /\ request.format \in {"wav", "pcm"}
       /\ file # NoFile =>
            /\ at \in {"replied", "answered"}
            /\ engine.rate \in Rates /\ engine.samples \in Outputs
            /\ file = Encoded(request.format, engine.rate, engine.samples)
            /\ request.format = "wav" => CanWrite(engine.samples)
  /\ request \in Requests /\ at \in {"received", "fields", "reading", "engine"} =>
       HasRecording(request) \/ file = NoFile

UploadIsSpeech(kind, rate, samples) ==
  /\ request = Spoken(kind, rate, samples)
  /\ file = Encoded(kind, rate, samples)
  /\ kind = "wav" => CanWrite(samples)
  /\ at \in {"received", "reading", "engine", "replied", "answered"}
  /\ at = "reading" => kind = "wav" /\ file.length <= ExtractorLimit
  /\ at = "engine" => Uploadable(rate, samples) /\ ReadBack(rate, samples)
  /\ at \in {"replied", "answered"} =>
       IF Uploadable(rate, samples) THEN ReadBack(rate, samples)
       ELSE engine.given = "nothing" /\ answer.status \in {400, 413}

RequestIsOneOf ==
  \/ request = None /\ at = "idle"
  \/ request \in Requests
  \/ \E kind \in {"wav", "pcm"}, rate \in Rates, samples \in Outputs :
       UploadIsSpeech(kind, rate, samples)

BatchInv ==
  /\ TypeOK /\ ReaderInv /\ EngineGetsWhatWasSent /\ AnswersAreFaithful
  /\ InStep /\ SpeechIsKept /\ RequestIsOneOf

(***************************************************************************)
(* A request is refused, answered or with the engine after finitely many   *)
(* steps: no file makes the reader go round for ever.                      *)
(***************************************************************************)
RequestDecided == at = "received" ~> at \in {"engine", "answered"}
=============================================================================
