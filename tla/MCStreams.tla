------------------------------ MODULE MCStreams ------------------------------
(***************************************************************************)
(* What makes the request for a response, and everything that makes or     *)
(* passes on its stream, for model checking: a behaviour is one response,  *)
(* or one conversation and its request, of one of them.  They share the    *)
(* variables of a stream and use own1 to own4 for what is their own.       *)
(***************************************************************************)
EXTENDS Integers, Sequences

CONSTANTS Subjects, Types, Reasons, Ids, MaxBlocks, MaxPieces, ProxyBlocks,
          MaxChunk, MaxRetries, MaxMessages

VARIABLES subject, sent, pieces, output, phase, terminals, emitted,
          own1, own2, own3, own4

streamVars == <<sent, pieces, output, phase, terminals, emitted>>
owns == <<own1, own2, own3, own4>>
modelVars == <<phase, emitted, output, terminals, owns>>

Anthropic == INSTANCE AnthropicStream WITH
  blocks <- own1, seen <- own2, reason <- own3, closed <- own4, MaxPieces <- MaxPieces - 1
OpenAi == INSTANCE OpenAiStream WITH
  current <- own1, finish <- own2, MaxPieces <- MaxPieces + 1
Responses == INSTANCE ResponsesStream WITH
  style <- own1, open <- own2, buffers <- own3, reason <- own4
Google == INSTANCE GoogleStream WITH
  finish <- own1, FirstCounter <- 0, MaxPieces <- MaxPieces + 1
Proxy == INSTANCE ProxyStream WITH
  wire <- own1, finished <- own2, buffers <- own3, cancelled <- own4,
  MaxBlocks <- ProxyBlocks
Model == INSTANCE ModelStream WITH
  token <- own1, caller <- own2, wrapper <- own3, attempt <- own4,
  inner <- phase, event <- emitted, transcript <- output, brackets <- terminals

\* Vision and the two quirks are told apart by OpenAI's conversion alone.
Targets ==
  {t \in [api : {"anthropic", "openai", "responses", "google", "mistral"}, vision : BOOLEAN,
          asText : BOOLEAN, afterTool : BOOLEAN, collides : BOOLEAN] :
     t.api # "openai" => ~t.vision /\ ~t.asText /\ ~t.afterTool}

\* Answers with no block, no visible one, a call alone, and several.
Contents ==
  LET B(kind) == [kind |-> kind]
      C(id)   == [call |-> id]
  IN  {<<>>, <<B("thinking")>>, <<B("signed")>>, <<B("text"), C(1)>>, <<C(1), C(2)>>,
       <<C(1), B("blank"), C(2)>>}

Requests == INSTANCE RequestMessages WITH
  conversation <- sent, target <- own1, staged <- output, at <- terminals, request <- emitted

requestVars == <<sent, own1, output, terminals, emitted, phase>>

Off == "not used"

Init ==
  /\ subject \in Subjects
  /\ \/ subject = "anthropic" /\ Anthropic!Init /\ phase = Off
     \/ subject = "openai" /\ OpenAi!Init /\ own3 = Off /\ own4 = Off
     \/ subject = "responses" /\ Responses!Init
     \/ subject = "google" /\ Google!Init /\ pieces = Off /\ output = Off
          /\ own2 = Off /\ own3 = Off /\ own4 = Off
     \/ subject = "proxy" /\ Proxy!Init
     \/ subject = "model" /\ Model!Init /\ sent = Off /\ pieces = Off
     \/ subject = "requests" /\ Requests!Init /\ pieces = Off
          /\ own2 = Off /\ own3 = Off /\ own4 = Off

AnthropicStep == subject = "anthropic" /\ Anthropic!Next /\ UNCHANGED <<subject, phase>>
OpenAiStep    == subject = "openai" /\ OpenAi!Next /\ UNCHANGED <<subject, own3, own4>>
ResponsesStep == subject = "responses" /\ Responses!Next /\ UNCHANGED subject
GoogleStep    == subject = "google" /\ Google!Next
                   /\ UNCHANGED <<subject, pieces, output, own2, own3, own4>>
ProxyStep     == subject = "proxy" /\ Proxy!Next /\ UNCHANGED subject
ModelStep     == subject = "model" /\ Model!Next /\ UNCHANGED <<subject, sent, pieces>>
RequestsStep  == subject = "requests" /\ Requests!Next
                   /\ UNCHANGED <<subject, pieces, own2, own3, own4>>

Next == AnthropicStep \/ OpenAiStep \/ ResponsesStep \/ GoogleStep \/ ProxyStep \/ ModelStep
          \/ RequestsStep

\* The fairness of ModelStream and RequestMessages, when they are the subject.
Fairness ==
  /\ WF_requestVars(subject = "requests" /\ Requests!Convert)
  /\ WF_modelVars(subject = "model" /\ Model!CancelCombined)
  /\ WF_modelVars(subject = "model" /\ Model!Retry)
  /\ WF_modelVars(subject = "model" /\ Model!Cancelled)
  /\ WF_modelVars(subject = "model" /\ Model!Take)
  /\ WF_modelVars(subject = "model" /\ Model!ProviderEnds /\ phase = "terminal")

Spec == Init /\ [][Next]_<<subject, streamVars, owns>> /\ Fairness

-----------------------------------------------------------------------------
\* Each adapter's MessageComplete: a Done message holds what the server sent.
\* The proxy's message is a prefix of the server's all the time.  ModelStream:
\* when a response is over its message is closed, once.
MessageComplete ==
  CASE subject = "anthropic" -> Anthropic!MessageComplete
    [] subject = "openai" -> OpenAi!MessageComplete
    [] subject = "responses" -> Responses!MessageComplete
    [] subject = "google" -> Google!MessageComplete
    [] subject = "proxy" -> Proxy!MessageComplete /\ Proxy!PartialFollowsServer
    [] subject = "model" -> Model!ClosedOnce
    [] OTHER -> TRUE

\* Each adapter's DoneIsFinal: a response succeeds or fails, never both.
StaysFinal ==
  (subject \in {"anthropic", "openai", "responses", "google"}) =>
    (\A k \in DOMAIN emitted' :
       terminals # <<>> => terminals[1].type = "error" /\ emitted'[k].type = "error")
DoneIsFinal == [][StaysFinal]_streamVars

\* RequestMessages: calls and results of a request match.
RequestsPaired == subject = "requests" => Requests!RequestsPaired

\* RequestMessages: a conversation prepared for a model is sent to it: "The
\* pipeline normalizes a slice of `Message`s so they can be safely replayed
\* against an arbitrary target `Model`" (crates/model/src/transform.rs:3).
ReplaysAnywhere ==
  (subject = "requests" /\ phase = "convert") ~> (subject = "requests" /\ phase = "sent")

\* ModelStream: an abort or a timeout ends the response as aborted, unless it has
\* to wait for a server that keeps the body of a failed response open.
AbortEndsStream ==
  (subject = "model" /\ own1 /\ own3 # "ended" /\ ~Model!Held)
    ~> (subject = "model" /\ Model!Settled /\ output[Len(output)] = "aborted")
=============================================================================
