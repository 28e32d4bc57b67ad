---------------------------- MODULE ResponsesStream ----------------------------
(***************************************************************************)
(* The adapter of the OpenAI Responses wire format (crates/model/src/      *)
(* providers/openai_responses_shared.rs, used by the OpenAI, Azure and     *)
(* Codex providers): the message gets a block when an item or a text part  *)
(* is done, from buffers the deltas have filled or from the item itself.   *)
(*                                                                         *)
(* The server is external: one item after the other, reasoning and         *)
(* arguments streamed, or given whole when done, or both; text is          *)
(* streamed.  The body may end early or break.  Usage, ids and signatures  *)
(* are left out.                                                           *)
(***************************************************************************)
EXTENDS AssistantEvents

CONSTANTS
  MaxBlocks,    \* bound: items of a response
  MaxPieces     \* bound: pieces of all items together

VARIABLES
  sent,         \* the server: the items it has begun, with what they hold
  pieces,       \* the server: how many pieces there are
  style,        \* the server: "deltas" are streamed, the "final" form is given
  open,         \* the server: whether its last item is unfinished
  output,       \* the content of the message
  buffers,      \* text_buffer, thinking_buffer, current_tool_args
  phase,        \* "new", "body", "completed", "failed" or "closed"
  reason,       \* output.stop_reason
  terminals,    \* the terminal events yielded
  emitted       \* the events the last step yielded

vars == <<sent, pieces, style, open, output, buffers, phase, reason, terminals, emitted>>

Init ==
  /\ sent = <<>> /\ pieces = 0 /\ open = FALSE
  /\ style \in {{"deltas"}, {"final"}, {"deltas", "final"}}
  /\ output = <<>>
  /\ buffers = [text |-> <<>>, thinking |-> <<>>, toolCall |-> <<>>]
  /\ phase = "new" /\ reason = "stop"
  /\ terminals = <<>> /\ emitted = <<>>

Yield(es) ==
  /\ emitted' = es
  /\ terminals' = terminals \o Terminals(es)

\* Start goes out before the request, which may fail or be refused.
Begin ==
  /\ phase = "new"
  /\ \/ Yield(<<Start(<<>>)>>) /\ phase' = "body" /\ UNCHANGED reason
     \/ Yield(<<Start(<<>>), Error("error", <<>>)>>) /\ phase' = "closed" /\ reason' = "error"
  /\ UNCHANGED <<sent, pieces, style, open, output, buffers>>

\* response.output_item.added clears the arguments of a call; the other items
\* are not looked at.
OutputItemAdded(kind) ==
  /\ phase = "body" /\ ~open
  /\ Len(sent) < MaxBlocks
  /\ sent' = Append(sent, Block(kind, <<>>)) /\ open' = TRUE
  /\ buffers' = IF kind = "toolCall" THEN [buffers EXCEPT !.toolCall = <<>>] ELSE buffers
  /\ Yield(<<>>)
  /\ UNCHANGED <<pieces, style, output, phase, reason>>

Last == sent[Len(sent)]

\* The index a delta names, though the block is not in the message yet.
DeltaIndex(kind) == IF kind = "toolCall" THEN Len(output) + 1 ELSE 1

\* A piece of the item, streamed if the server streams.
PieceDelta ==
  /\ phase = "body" /\ open
  /\ pieces < MaxPieces
  /\ pieces' = pieces + 1
  /\ sent' = [sent EXCEPT ![Len(sent)].pieces = Append(@, pieces')]
  /\ IF "deltas" \in style \/ Last.kind = "text"
       THEN /\ buffers' = [buffers EXCEPT ![Last.kind] = Append(@, pieces')]
            /\ Yield(<<Delta(Last.kind, DeltaIndex(Last.kind), pieces', output)>>)
       ELSE UNCHANGED buffers /\ Yield(<<>>)
  /\ UNCHANGED <<style, open, output, phase, reason>>

\* response.function_call_arguments.done: the whole arguments replace the
\* buffer, and what was not streamed is yielded as one more delta.
ArgumentsDone ==
  /\ phase = "body" /\ open /\ Last.kind = "toolCall" /\ "final" \in style
  /\ buffers.toolCall # Last.pieces
  /\ buffers' = [buffers EXCEPT !.toolCall = Last.pieces]
  /\ Yield(<<Delta("toolCall", DeltaIndex("toolCall"), Last.pieces, output)>>)
  /\ UNCHANGED <<sent, pieces, style, open, output, phase, reason>>

\* The text of a reasoning item: its own if it has any, else what was streamed.
ItemText ==
  IF "final" \in style /\ Last.pieces # <<>> THEN Last.pieces ELSE buffers.thinking

\* response.output_item.done, or response.content_part.done for a text part,
\* which leaves text_buffer as it is.
OutputItemDone ==
  /\ phase = "body" /\ open
  /\ (Last.kind = "toolCall" /\ "final" \in style) => buffers.toolCall = Last.pieces
  /\ open' = FALSE
  /\ CASE Last.kind = "toolCall" ->
            /\ output' = Append(output, Block("toolCall", buffers.toolCall))
            /\ buffers' = [buffers EXCEPT !.toolCall = <<>>]
            /\ reason' = "toolUse"
       [] Last.kind = "thinking" ->
            /\ output' = Append(output, Block("thinking", ItemText))
            /\ buffers' = [buffers EXCEPT !.thinking = <<>>]
            /\ UNCHANGED reason
       [] Last.kind = "text" ->
            /\ output' = IF buffers.text = <<>> THEN output
                                                ELSE Append(output, Block("text", buffers.text))
            /\ UNCHANGED <<buffers, reason>>
  /\ Yield(<<>>)
  /\ UNCHANGED <<sent, pieces, style, phase>>

Completed ==
  /\ phase = "body" /\ ~open
  /\ phase' = "completed"
  /\ Yield(<<>>)
  /\ UNCHANGED <<sent, pieces, style, open, output, buffers, reason>>

Failed ==
  /\ phase = "body"
  /\ phase' = "failed" /\ reason' = "error"
  /\ Yield(<<Error("error", output)>>)
  /\ UNCHANGED <<sent, pieces, style, open, output, buffers>>

\* finalize_responses_output: what is left in the buffers of an item that was
\* never done.
Finalized ==
  LET led == IF buffers.thinking = <<>> THEN output
                                        ELSE <<Block("thinking", buffers.thinking)>> \o output
  IN  IF buffers.text # <<>> /\ \A k \in DOMAIN led : led[k].kind # "text"
        THEN Append(led, Block("text", buffers.text)) ELSE led

\* Mutant: Done follows also the Error of a failed response.
Ending_Always(broken) ==
  IF broken THEN <<Error("error", output), Done(reason, Finalized)>>
            ELSE <<Done(reason, Finalized)>>

\* Done is skipped when the stop reason says that an Error has gone out.
Ending(broken) ==
  IF broken THEN <<Error("error", output)>>
            ELSE IF reason = "error" THEN <<>> ELSE <<Done(reason, Finalized)>>

EndOfBody ==
  /\ phase \in {"body", "completed", "failed"}
  /\ output' = Finalized
  /\ \E broken \in BOOLEAN : Yield(Ending(broken))
  /\ phase' = "closed"
  /\ reason' = IF emitted' # <<>> /\ emitted'[1].type = "error" THEN "error" ELSE reason
  /\ UNCHANGED <<sent, pieces, style, open, buffers>>

Next ==
  \/ Begin
  \/ \E kind \in {"text", "thinking", "toolCall"} : OutputItemAdded(kind)
  \/ PieceDelta \/ ArgumentsDone \/ OutputItemDone
  \/ Completed \/ Failed \/ EndOfBody

Spec == Init /\ [][Next]_vars

-----------------------------------------------------------------------------
OneText == \A j, k \in DOMAIN sent : sent[j].kind = "text" /\ sent[k].kind = "text" => j = k

\* The items of the server that the message shows.
Visible(items) ==
  Keep(items, {items[k] : k \in {j \in DOMAIN items : items[j].kind # "text" \/ items[j].pieces # <<>>}})

(* The Done message of a response the server completed holds each piece    *)
(* once, in the server's order, however the server streams (dispatch and   *)
(* finalize_responses_output).  Text is compared when there is one text    *)
(* part: text_buffer is not cleared, so a second part repeats the first.   *)
MessageComplete ==
  \A k \in DOMAIN emitted :
    emitted[k].type = "done" /\ ~open /\ OneText => emitted[k].message = Visible(sent)

(* A response succeeds or fails, never both: Done is the only terminal     *)
(* event and nothing follows it; after an Error only an Error may come,    *)
(* whatever the rest of the body and the connection do.                    *)
DoneIsFinal ==
  [][\A k \in DOMAIN emitted' :
       terminals # <<>> => terminals[1].type = "error" /\ emitted'[k].type = "error"]_vars
=============================================================================
