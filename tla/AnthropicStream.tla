--------------------------- MODULE AnthropicStream ---------------------------
(***************************************************************************)
(* The Anthropic adapter (crates/model/src/providers/anthropic_messages.rs):*)
(* SseParser turns the server's events into AssistantMessageEvents while   *)
(* the body arrives.  It keeps an unfinished block twice, in the message,  *)
(* found by its position, and in a map by the server's index.              *)
(*                                                                         *)
(* The server is external: it opens blocks in the order of their indexes,  *)
(* sends pieces of any open block, and may be cut short by an error event, *)
(* the end of the body or a broken connection.  Usage, cost, ids and       *)
(* signatures are left out.                                                *)
(***************************************************************************)
EXTENDS AssistantEvents

CONSTANTS
  Types,        \* content_block types the server sends
  Reasons,      \* stop reasons it sends
  MaxBlocks,    \* bound: blocks of a message
  MaxPieces     \* bound: pieces of all blocks together

VARIABLES
  sent,         \* the server: the blocks it has opened, with what it sent of them
  pieces,       \* the server: how many pieces it has sent
  output,       \* the content of the message
  blocks,       \* content_blocks: the unfinished blocks by index
  seen,         \* which of message_start and message_stop have come
  reason,       \* current_stop_reason
  terminals,    \* the terminal events yielded (emitted_terminal: some)
  closed,       \* whether the stream has ended
  emitted       \* the events the last step yielded

vars == <<sent, pieces, output, blocks, seen, reason, terminals, closed, emitted>>

server == <<sent, pieces>>

\* The block types the parser knows, and the kind of block each becomes.
Known == {"text", "thinking", "redacted_thinking", "tool_use"}
KindOf(type) == CASE type = "text" -> "text"
                  [] type = "tool_use" -> "toolCall"
                  [] OTHER -> "thinking"

Init ==
  /\ sent = <<>> /\ pieces = 0
  /\ output = <<>> /\ blocks = <<>>
  /\ seen = {} /\ reason = "stop"
  /\ terminals = <<>> /\ closed = FALSE
  /\ emitted = <<>>

Yield(es) ==
  /\ emitted' = es
  /\ terminals' = terminals \o Terminals(es)

\* The server is in the middle of its message.
Streaming == "start" \in seen /\ "stop" \notin seen /\ terminals = <<>> /\ ~closed

\* send_anthropic_request fails: one Error event and nothing else.
SetupFails ==
  /\ seen = {} /\ terminals = <<>> /\ ~closed
  /\ Yield(<<Error("error", <<>>)>>)
  /\ closed' = TRUE
  /\ UNCHANGED <<server, output, blocks, seen, reason>>

MessageStart ==
  /\ seen = {} /\ terminals = <<>> /\ ~closed
  /\ seen' = {"start"}
  /\ Yield(<<Start(output)>>)
  /\ UNCHANGED <<server, output, blocks, reason, closed>>

\* content_block_start: a block of an unknown type leaves no trace.
ContentBlockStart(type) ==
  /\ Streaming
  /\ Len(sent) < MaxBlocks
  /\ LET index == Len(sent) + 1
         first == IF type = "redacted_thinking" THEN <<pieces + 1>> ELSE <<>>
         block == Block(KindOf(type), first)
     IN  /\ sent' = Append(sent, [type |-> type, pieces |-> first, open |-> TRUE])
         /\ pieces' = pieces + Len(first)
         /\ IF type \in Known
              THEN /\ blocks' = [k \in DOMAIN blocks \cup {index} |->
                                   IF k = index THEN block ELSE blocks[k]]
                   /\ output' = Append(output, block)
                   /\ Yield(<<BlockStart(block.kind, index, output')>>)
              ELSE UNCHANGED <<blocks, output>> /\ Yield(<<>>)
  /\ UNCHANGED <<seen, reason, closed>>

\* The block of the message at a position, if it is of the kind looked for.
At(content, index, kind) == index \in DOMAIN content /\ content[index].kind = kind

\* Mutant: the message's last block is the one a delta is for.
Grown_Last(content, index, kind, p) ==
  IF content # <<>> /\ kind # "toolCall"
    THEN [content EXCEPT ![Len(content)].pieces = Append(@, p)]
    ELSE content

\* A text or thinking delta also extends the block of the message at the
\* server's index; tool arguments wait for the end of the block.
Grown(content, index, kind, p) ==
  IF At(content, index, kind) /\ kind # "toolCall"
    THEN [content EXCEPT ![index].pieces = Append(@, p)]
    ELSE content

\* content_block_delta: the type of the delta names the kind of block.  A
\* delta of an unknown type is dropped; that is what a block of unknown type
\* is sent.
ContentBlockDelta(index) ==
  /\ Streaming
  /\ pieces < MaxPieces
  /\ sent[index].open /\ sent[index].type # "redacted_thinking"
  /\ LET p    == pieces + 1
         kind == KindOf(sent[index].type)
     IN  /\ pieces' = p
         /\ sent' = [sent EXCEPT ![index].pieces = Append(@, p)]
         /\ IF sent[index].type \in Known
              THEN /\ blocks' = [blocks EXCEPT ![index].pieces = Append(@, p)]
                   /\ output' = Grown(output, index, kind, p)
                   /\ Yield(<<Delta(kind, index, p, output')>>)
              ELSE UNCHANGED <<blocks, output>> /\ Yield(<<>>)
  /\ UNCHANGED <<seen, reason, closed>>

\* content_block_stop: the block of the map, if there is one, is the final
\* content of the block of the message.
ContentBlockStop(index) ==
  /\ Streaming
  /\ sent[index].open
  /\ sent' = [sent EXCEPT ![index].open = FALSE]
  /\ IF index \in DOMAIN blocks
       THEN LET kind == blocks[index].kind IN
            /\ blocks' = [k \in DOMAIN blocks \ {index} |-> blocks[k]]
            /\ output' = IF At(output, index, kind)
                           THEN [output EXCEPT ![index].pieces = blocks[index].pieces]
                           ELSE output
            /\ Yield(<<BlockEnd(kind, index, output')>>)
       ELSE UNCHANGED <<blocks, output>> /\ Yield(<<>>)
  /\ UNCHANGED <<pieces, seen, reason, closed>>

Finished == \A k \in DOMAIN sent : ~sent[k].open

MessageDelta(r) ==
  /\ Streaming /\ Finished
  /\ reason # r
  /\ reason' = r
  /\ Yield(<<>>)
  /\ UNCHANGED <<server, output, blocks, seen, closed>>

MessageStop ==
  /\ Streaming /\ Finished
  /\ seen' = seen \cup {"stop"}
  /\ Yield(<<Done(reason, output)>>)
  /\ UNCHANGED <<server, output, blocks, reason, closed>>

\* An error event, before or within the message.
ErrorEvent ==
  /\ terminals = <<>> /\ ~closed
  /\ Yield(<<Error("error", output)>>)
  /\ UNCHANGED <<server, output, blocks, seen, reason, closed>>

\* finalize: the terminal event the body did not provide.  A message that was
\* begun and not finished is an error, also after an error event.
Finalize(broken) ==
  IF (broken /\ terminals = <<>>) \/ ("start" \in seen /\ "stop" \notin seen)
    THEN <<Error("error", output)>>
    ELSE IF terminals = <<>> THEN <<Done(reason, output)>> ELSE <<>>

\* The body ends, with or without a [DONE] line, or the connection breaks.
EndOfBody ==
  /\ ~closed
  /\ \E broken \in BOOLEAN : Yield(Finalize(broken))
  /\ closed' = TRUE
  /\ UNCHANGED <<server, output, blocks, seen, reason>>

Next ==
  \/ SetupFails
  \/ MessageStart
  \/ \E type \in Types : ContentBlockStart(type)
  \/ \E index \in DOMAIN sent : ContentBlockDelta(index) \/ ContentBlockStop(index)
  \/ \E r \in Reasons : MessageDelta(r)
  \/ MessageStop
  \/ ErrorEvent
  \/ EndOfBody

Spec == Init /\ [][Next]_vars

-----------------------------------------------------------------------------
\* The blocks the server sent, as the message should hold them.
Whole == [k \in DOMAIN sent |-> Block(KindOf(sent[k].type), sent[k].pieces)]

(* A Done event of a message the server opened is sent only when every     *)
(* block is finished, and it carries each piece the server sent, once, in  *)
(* the server's order (dispatch keeps the text twice and finds it in one   *)
(* place by position, in the other by index).  Blocks of a type the parser *)
(* does not know shift the positions, and are left out here.               *)
MessageComplete ==
  \A k \in DOMAIN emitted :
    emitted[k].type = "done" =>
      /\ Finished /\ (sent # <<>> => "stop" \in seen)
      /\ (\A j \in DOMAIN sent : sent[j].type \in Known) => emitted[k].message = Whole

(* A response succeeds or fails, never both: Done is the only terminal     *)
(* event and nothing follows it; after an Error only an Error may come,    *)
(* whatever the rest of the body and the connection do.                    *)
DoneIsFinal ==
  [][\A k \in DOMAIN emitted' :
       terminals # <<>> => terminals[1].type = "error" /\ emitted'[k].type = "error"]_vars
=============================================================================
