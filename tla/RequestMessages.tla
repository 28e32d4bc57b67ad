--------------------------- MODULE RequestMessages ---------------------------
(***************************************************************************)
(* What a conversation becomes in a request: transform_messages            *)
(* (crates/model/src/transform.rs), then the conversion of the provider    *)
(* (crates/model/src/providers), for the five kinds of API.                *)
(*                                                                         *)
(* Of an answer the model keeps whose it is, how it ended and its blocks:  *)
(* "text", "blank" (an empty one), "thinking", "signed" (a signature and   *)
(* no text), "redacted", and calls.  A request is a sequence of items: an  *)
(* "assistant" starts a message, a "call", a "text" or a "result" is part  *)
(* of what came before, a "user" is one.  Tool call ids are unique within  *)
(* an answer, may come again in a later one, and no two models use the     *)
(* same; a provider's normal form may make two of them equal.              *)
(***************************************************************************)
EXTENDS Integers, Sequences, SequencesExt, FiniteSets

CONSTANTS
  Targets,      \* [api, vision, asText, afterTool, collides]
  Contents,     \* the block sequences of an answer, its calls numbered
  MaxMessages   \* bound: messages of the conversation

VARIABLES
  conversation,
  target,       \* whom the request is for
  staged,       \* the messages to convert
  at,           \* messages converted
  request,      \* the items so far
  phase         \* "talk", "convert", "sent"

vars == <<conversation, target, staged, at, request, phase>>

Models == {"target", "other"}

User == [role |-> "user"]
Assistant(from, stop, content) == [role |-> "assistant", from |-> from, stop |-> stop, content |-> content]
Result(id, image) == [role |-> "result", id |-> id, image |-> image]

IsCall(block) == DOMAIN block = {"call"}
Block(kind) == [kind |-> kind]
Call(id) == [call |-> id]
CallIds(message) == [k \in DOMAIN SelectSeq(message.content, IsCall) |->
                       SelectSeq(message.content, IsCall)[k].call]

Init ==
  /\ conversation = <<>>
  /\ target \in Targets
  /\ staged = <<>> /\ at = 0 /\ request = <<>>
  /\ phase = "talk"

-----------------------------------------------------------------------------
(* The conversation, as the agent loop leaves it: results follow their     *)
(* answer in the order of its calls, some missing where a run was dropped, *)
(* none after an answer that failed.                                       *)

Say(message) ==
  /\ phase = "talk" /\ Len(conversation) < MaxMessages
  /\ conversation' = Append(conversation, message)
  /\ UNCHANGED <<target, staged, at, request, phase>>

UserSays == Say(User)

LastAnswer ==
  LET answers == {k \in DOMAIN conversation : conversation[k].role = "assistant"} IN
  IF answers = {} THEN 0 ELSE CHOOSE k \in answers : \A l \in answers : l <= k

\* The calls of the last answer that have no result yet, if it is still their turn.
Unanswered ==
  IF LastAnswer = 0 THEN <<>>
  ELSE SubSeq(CallIds(conversation[LastAnswer]), Len(conversation) - LastAnswer + 1,
              Len(CallIds(conversation[LastAnswer])))

Answered(from, stop, content) ==
  /\ conversation # <<>> /\ conversation[Len(conversation)].role # "assistant"
  /\ conversation[Len(conversation)].role = "result" => Unanswered = <<>>
  /\ Say(Assistant(from, stop, [k \in DOMAIN content |->
           IF IsCall(content[k]) THEN Call(<<from, content[k].call>>) ELSE content[k]]))

ToolReturns(image) ==
  /\ Unanswered # <<>> /\ conversation[LastAnswer].stop = "complete"
  /\ \A k \in LastAnswer + 1 .. Len(conversation) : conversation[k].role = "result"
  /\ Say(Result(Head(Unanswered), image))

-----------------------------------------------------------------------------
(* transform_messages *)

\* The image of a result becomes text where the target takes none.
DowngradeImages(messages) ==
  [k \in DOMAIN messages |->
     IF messages[k].role = "result" /\ ~target.vision
       THEN [messages[k] EXCEPT !.image = FALSE] ELSE messages[k]]

\* The shape an id is cut to; the ids of all other models may fall together.
Normal(id) == IF target.collides THEN <<"cut", 0>> ELSE <<"cut", id>>

KeepBlock(message, block) ==
  \/ IsCall(block)
  \/ message.from = "target"
  \/ block.kind \notin {"signed", "redacted"}

TransformBlock(message, block, normalize) ==
  CASE message.from = "target" -> block
    [] IsCall(block) -> IF normalize THEN Call(Normal(block.call)) ELSE block
    [] block.kind = "thinking" -> Block("text")
    [] OTHER -> block

\* transform_assistant_content; a result takes the new id of a call before it.
TransformAssistantContent(messages, normalize) ==
  LET renamed(k, id) ==
        normalize /\ \E l \in 1 .. k - 1 :
          /\ messages[l].role = "assistant" /\ messages[l].from # "target"
          /\ id \in ToSet(CallIds(messages[l]))
  IN [k \in DOMAIN messages |->
        CASE messages[k].role = "assistant" ->
               LET m == messages[k]
                   kept == SelectSeq(m.content, LAMBDA b : KeepBlock(m, b))
               IN [m EXCEPT !.content =
                     [j \in DOMAIN kept |-> TransformBlock(m, kept[j], normalize)]]
          [] messages[k].role = "result" /\ renamed(k, messages[k].id) ->
               [messages[k] EXCEPT !.id = Normal(@)]
          [] OTHER -> messages[k]]

\* flush_orphaned_tool_calls: a result for each pending call that has none.
Flush(s) ==
  LET orphans == SelectSeq(s.pending, LAMBDA id : id \notin s.answered) IN
  [out |-> s.out \o [k \in DOMAIN orphans |-> Result(orphans[k], FALSE)],
   pending |-> <<>>, answered |-> {}]

FlushStep(s, message) ==
  CASE message.role = "user" -> [Flush(s) EXCEPT !.out = Append(@, message)]
    [] message.role = "result" -> [s EXCEPT !.out = Append(@, message), !.answered = @ \cup {message.id}]
    [] message.stop = "failed" -> Flush(s)
    [] OTHER -> [Flush(s) EXCEPT !.out = Append(@, message), !.pending = CallIds(message)]

\* flush_orphans_and_skip_errored
FlushOrphans(messages) ==
  Flush(FoldLeft(FlushStep, [out |-> <<>>, pending |-> <<>>, answered |-> {}], messages)).out

TransformMessages(messages, normalize) ==
  FlushOrphans(TransformAssistantContent(DowngradeImages(messages), normalize))

\* stream_simple transforms; Mistral's provider does once more, with its normal form.
Prepare ==
  /\ phase = "talk" /\ conversation # <<>>
  /\ LET first == TransformMessages(conversation, FALSE) IN
     staged' = IF target.api = "mistral" THEN TransformMessages(first, TRUE) ELSE first
  /\ at' = 0 /\ request' = <<>>
  /\ phase' = "convert"
  /\ UNCHANGED <<conversation, target>>

-----------------------------------------------------------------------------
(* The providers' conversions, one turn of their loop at a time. *)

Item(kind) == [item |-> kind]
Start == Item("assistant")

\* The id as the API is given it.
Wire(id) == IF target.api \in {"google", "mistral"} THEN id ELSE Normal(id)
CallItem(id) == [item |-> "call", id |-> Wire(id)]
ResultItem(id) == [item |-> "result", id |-> Wire(id)]
CallItems(message) == [k \in DOMAIN CallIds(message) |-> CallItem(CallIds(message)[k])]

\* The blocks of an answer that count as content of its own.
Shown ==
  CASE target.api \in {"anthropic", "google"} -> {"text", "thinking", "signed", "redacted"}
    [] target.api = "openai" -> {"text"} \cup (IF target.asText THEN {"thinking"} ELSE {})
    [] target.api = "mistral" -> {"text", "thinking"}
    [] target.api = "responses" -> {"text", "blank"}

HasContent(message) ==
  \E k \in DOMAIN message.content :
    ~IsCall(message.content[k]) /\ message.content[k].kind \in Shown

Emit(items, more) ==
  /\ request' = request \o items
  /\ at' = at + more
  /\ UNCHANGED <<conversation, target, staged, phase>>

\* convert_to_input_for_model: the items of an answer are of no message.
AnswerItems(message) ==
  IF target.api = "responses"
    THEN FlattenSeq([k \in DOMAIN message.content |->
           CASE IsCall(message.content[k]) -> <<CallItem(message.content[k].call)>>
             [] ~IsCall(message.content[k]) /\ message.content[k].kind \in Shown -> <<Item("text")>>
             [] OTHER -> <<>>])
    ELSE <<Start>> \o CallItems(message)

Message == staged[at + 1]
Converting(role) == phase = "convert" /\ at < Len(staged) /\ Message.role = role

AfterResult == at > 0 /\ staged[at].role = "result"

\* The user message of the images a batch of results brought.
Images == \E k \in 1 .. at : /\ \A l \in k .. at : staged[l].role = "result"
                             /\ staged[k].image
Processed == IF target.afterTool THEN <<Start>> ELSE <<>>

ConvertUser ==
  /\ Converting("user")
  /\ Emit((IF target.api = "openai" /\ AfterResult /\ ~Images THEN Processed ELSE <<>>)
            \o <<Item("user")>>, 1)

\* An answer with nothing to show is left out.
ConvertAnswer ==
  /\ Converting("assistant")
  /\ HasContent(Message) \/ CallIds(Message) # <<>>
  /\ Emit(AnswerItems(Message), 1)

\* OpenAI's loop continues without counting the message.
SkipAnswer ==
  /\ Converting("assistant")
  /\ ~HasContent(Message) /\ CallIds(Message) = <<>>
  /\ Emit(<<>>, IF target.api = "openai" THEN 0 ELSE 1)

\* The results that follow each other.
Batch ==
  LET ends == {n \in at + 1 .. Len(staged) :
                 \A k \in at + 1 .. n : staged[k].role = "result"}
  IN [k \in 1 .. Cardinality(ends) |-> staged[at + k]]
BatchItems ==
  LET images == \E k \in DOMAIN Batch : Batch[k].image IN
  [k \in DOMAIN Batch |-> ResultItem(Batch[k].id)]
    \o (IF images THEN Processed \o <<Item("user")>> ELSE <<>>)

\* Mutant: OpenAI's loop goes on after the first result of a batch.
ConvertResults_CountsOne ==
  /\ Converting("result")
  /\ IF target.api = "openai" THEN Emit(BatchItems, 1)
                              ELSE Emit(<<ResultItem(Message.id)>>, 1)

\* OpenAI's loop takes a whole batch, and its images after it.
ConvertResults ==
  /\ Converting("result")
  /\ IF target.api = "openai" THEN Emit(BatchItems, Len(Batch))
                              ELSE Emit(<<ResultItem(Message.id)>>, 1)

SendRequest ==
  /\ phase = "convert" /\ at = Len(staged)
  /\ phase' = "sent"
  /\ UNCHANGED <<conversation, target, staged, at, request>>

Convert == ConvertUser \/ ConvertAnswer \/ SkipAnswer \/ ConvertResults \/ SendRequest

Next ==
  \/ UserSays
  \/ \E from \in Models, stop \in {"complete", "failed"}, c \in Contents : Answered(from, stop, c)
  \/ \E image \in BOOLEAN : ToolReturns(image)
  \/ Prepare
  \/ Convert

Spec == Init /\ [][Next]_vars

\* The conversion is a loop without a pause.
FairSpec == Spec /\ WF_vars(Convert)

-----------------------------------------------------------------------------
PartOfAnswer(k) == k \in DOMAIN request /\ request[k].item \in {"call", "text"}
IsResult(k) == k \in DOMAIN request /\ request[k].item = "result"

CallsUpTo(k, id) ==
  Cardinality({j \in 1 .. k : /\ \A l \in j .. k : PartOfAnswer(l)
                              /\ request[j].item = "call" /\ request[j].id = id})
ResultsFrom(k, id) ==
  Cardinality({j \in k .. Len(request) : /\ \A l \in k .. j : IsResult(l)
                                         /\ request[j].id = id})

(* In a request every answer's calls are followed at once by as many       *)
(* results for each id, and no result is anywhere else: whatever run was   *)
(* dropped between two results, whichever models answered before, and even *)
(* when a provider's shorter ids fall together (transform_messages and the *)
(* providers' conversions).  Providers refuse a conversation where it does *)
(* not hold, with no way to go on with the session.                        *)
RequestsPaired ==
  phase = "sent" =>
    \A k \in 0 .. Len(request) :
      (~IsResult(k) /\ ~PartOfAnswer(k + 1)) =>
        \A id \in {request[j].id : j \in {l \in DOMAIN request : request[l].item \in {"call", "result"}}} :
          CallsUpTo(k, id) = ResultsFrom(k + 1, id)

(* A conversation that was prepared for a model is sent to it: "The        *)
(* pipeline normalizes a slice of `Message`s so they can be safely         *)
(* replayed against an arbitrary target `Model`" (transform.rs:3).         *)
ReplaysAnywhere == phase = "convert" ~> phase = "sent"
=============================================================================
