----------------------------- MODULE OpenAiStream -----------------------------
(***************************************************************************)
(* The OpenAI-compatible adapter (crates/model/src/providers/              *)
(* openai_completions.rs): chunks of text, reasoning and tool calls have   *)
(* no block boundaries, the adapter finds them where the modality or the   *)
(* index of the tool call changes.  The block being built is held in       *)
(* current_block and as the last block of the message.                     *)
(*                                                                         *)
(* The server is external: it finishes what it began before it goes on to  *)
(* another block, a chunk holds pieces of text, reasoning and one tool     *)
(* call in this order, and the body ends when it likes or breaks.  Usage,  *)
(* ids and names are left out.                                             *)
(***************************************************************************)
EXTENDS AssistantEvents, FiniteSets

CONSTANTS
  Reasons,      \* finish_reasons, as map_stop_reason reads them
  MaxBlocks,    \* bound: blocks of a message
  MaxPieces     \* bound: pieces of all blocks together

VARIABLES
  sent,         \* the server: the blocks it has begun, with what it sent of them
  pieces,       \* the server: how many pieces it has sent
  output,       \* the content of the message
  current,      \* current_block, or None
  finish,       \* the finish_reason that came last, or None
  phase,        \* "new", then "body", then "closed"
  terminals,    \* the terminal events yielded
  emitted       \* the events the last step yielded

vars == <<sent, pieces, output, current, finish, phase, terminals, emitted>>

None == [kind |-> "none", call |-> 0, args |-> <<>>]

Init ==
  /\ sent = <<>> /\ pieces = 0
  /\ output = <<>> /\ current = None
  /\ finish = "none" /\ phase = "new"
  /\ terminals = <<>> /\ emitted = <<>>

Yield(es) ==
  /\ emitted' = es
  /\ terminals' = terminals \o Terminals(es)

\* Start goes out before the request: no key, bad parameters or a refused
\* request are reported after it.
Begin ==
  /\ phase = "new"
  /\ \/ Yield(<<Start(<<>>)>>) /\ phase' = "body"
     \/ Yield(<<Start(<<>>), Error("error", <<>>)>>) /\ phase' = "closed"
  /\ UNCHANGED <<sent, pieces, output, current, finish>>

\* What handle_delta works on, and the events it has made.
Work(out, cur, evs) == [output |-> out, current |-> cur, events |-> evs]

\* finish_current_block: a tool call's arguments are parsed into the message.
FinishCurrentBlock(w) ==
  IF w.current = None THEN w
    ELSE LET n   == Len(w.output)
             out == IF w.current.kind = "toolCall"
                      THEN [w.output EXCEPT ![n].pieces = w.current.args]
                      ELSE w.output
         IN  Work(out, None, Append(w.events, BlockEnd(w.current.kind, n, out)))

\* A part continues the block being built, or begins another.
Continues(cur, part) ==
  cur.kind = part.kind /\ (part.kind = "toolCall" => cur.call = part.call)

Opened(w, part) ==
  IF Continues(w.current, part) THEN w
    ELSE LET f   == FinishCurrentBlock(w)
             out == Append(f.output, Block(part.kind, <<>>))
         IN  Work(out, [kind |-> part.kind, call |-> part.call, args |-> <<>>],
                  Append(f.events, BlockStart(part.kind, Len(out), out)))

\* handle_delta for one part.
HandlePart(w, part) ==
  LET o   == Opened(w, part)
      n   == Len(o.output)
      out == IF part.kind = "toolCall" THEN o.output
               ELSE [o.output EXCEPT ![n].pieces = Append(@, part.piece)]
      cur == [o.current EXCEPT !.args = Append(@, part.piece)]
  IN  Work(out, cur, Append(o.events, Delta(part.kind, n, part.piece, out)))

\* A chunk holds one part, or two of different kinds.
InTurn(step(_, _), x, parts) ==
  IF Len(parts) = 1 THEN step(x, parts[1]) ELSE step(step(x, parts[1]), parts[2])

Rank == [text |-> 1, thinking |-> 2, toolCall |-> 3]

Calls(blocks) == Cardinality({k \in DOMAIN blocks : blocks[k].kind = "toolCall"})

\* The parts a chunk can hold: the server's last block goes on, or a new block
\* begins; a new call has the next index.
Parts(blocks, p) ==
  LET last  == Len(blocks)
      calls == Calls(blocks)
      more  == IF last > 0 THEN {[kind |-> blocks[last].kind, call |-> calls, piece |-> p]}
                           ELSE {}
      other == {[kind |-> k, call |-> calls + (IF k = "toolCall" THEN 1 ELSE 0), piece |-> p] :
                  k \in {"text", "thinking", "toolCall"}}
  IN  more \cup {q \in other : last < MaxBlocks /\ (last > 0 /\ q.kind # "toolCall"
                                                     => blocks[last].kind # q.kind)}

\* The server's blocks with one part more.
SentWith(blocks, part) ==
  LET last == Len(blocks)
  IN  IF last > 0 /\ blocks[last].kind = part.kind /\ part.call = Calls(blocks)
        THEN [blocks EXCEPT ![last].pieces = Append(@, part.piece)]
        ELSE Append(blocks, Block(part.kind, <<part.piece>>))

Chunk(parts) ==
  /\ phase = "body"
  /\ pieces + Len(parts) <= MaxPieces
  /\ LET w == InTurn(HandlePart, Work(output, current, <<>>), parts) IN
     /\ output' = w.output /\ current' = w.current
     /\ Yield(w.events)
  /\ sent' = InTurn(SentWith, sent, parts)
  /\ pieces' = pieces + Len(parts)
  /\ UNCHANGED phase

Chunks ==
  LET first == Parts(sent, pieces + 1) IN
    {<<a>> : a \in first}
    \cup UNION {{<<a, b>> : b \in {q \in Parts(SentWith(sent, a), pieces + 2) :
                                     Rank[a.kind] < Rank[q.kind]}} : a \in first}

\* A chunk, with or without a finish_reason.
HandleDelta ==
  \E parts \in Chunks :
    /\ Chunk(parts)
    /\ finish' \in Reasons \cup {finish}

\* The last chunk often has only the finish_reason.
FinishReason ==
  /\ phase = "body" /\ finish = "none"
  /\ finish' \in Reasons
  /\ Yield(<<>>)
  /\ UNCHANGED <<sent, pieces, output, current, phase>>

\* resolve_stop_reason
ResolveStopReason(content) ==
  IF finish # "none" THEN finish
    ELSE IF \E k \in DOMAIN content : content[k].kind = "toolCall" THEN "toolUse" ELSE "stop"

\* The body ends or breaks.
EndOfBody ==
  /\ phase = "body"
  /\ LET w == FinishCurrentBlock(Work(output, current, <<>>)) IN
     /\ output' = w.output /\ current' = None
     /\ \/ Yield(Append(w.events, Error("error", w.output)))
        \/ Yield(Append(w.events, Done(ResolveStopReason(w.output), w.output)))
  /\ phase' = "closed"
  /\ UNCHANGED <<sent, pieces, finish>>

Next == Begin \/ HandleDelta \/ FinishReason \/ EndOfBody

Spec == Init /\ [][Next]_vars

-----------------------------------------------------------------------------
(* A Done event carries every piece the server sent, once, in the server's *)
(* order and in the server's blocks, though the chunks do not say where a  *)
(* block begins (handle_delta and finish_current_block).                   *)
MessageComplete ==
  \A k \in DOMAIN emitted : emitted[k].type = "done" => emitted[k].message = sent

(* A response succeeds or fails, never both: Done is the only terminal     *)
(* event and nothing follows it; after an Error only an Error may come,    *)
(* whatever the rest of the body and the connection do.                    *)
DoneIsFinal ==
  [][\A k \in DOMAIN emitted' :
       terminals # <<>> => terminals[1].type = "error" /\ emitted'[k].type = "error"]_vars
=============================================================================
