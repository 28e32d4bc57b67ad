----------------------------- MODULE ProxyStream -----------------------------
(***************************************************************************)
(* The proxy client (crates/agent/src/proxy.rs): the proxy server streams  *)
(* the events of an assistant message without the message, and             *)
(* process_proxy_event rebuilds the message from them.                     *)
(*                                                                         *)
(* The server is external: it opens blocks in order, sends pieces of any   *)
(* open block, and ends with done or error.  Its lines come in chunks; a   *)
(* line may be damaged, the body may end early, the connection may break,  *)
(* and the caller may cancel.  The prefixes of the arguments of a tool     *)
(* call are taken to be readable (safe_parse_partial).                     *)
(***************************************************************************)
EXTENDS AssistantEvents, SequencesExt

CONSTANTS
  MaxBlocks,    \* bound: blocks of a message
  MaxPieces,    \* bound: pieces of all blocks together
  MaxChunk      \* bound: lines of a chunk

VARIABLES
  sent,         \* the server: the blocks it has opened, with what it sent of them
  pieces,       \* the server: the number of its next piece, 0 before start
  wire,         \* lines the server has sent and the client not yet read
  finished,     \* the server: whether it has sent done or error
  output,       \* partial: the content of the message
  buffers,      \* tool_partial_json: unparsed arguments by index
  phase,        \* "request", then "body", then "closed"
  cancelled,    \* the caller's token
  terminals,    \* the terminal events yielded
  emitted       \* the events the last step yielded

vars == <<sent, pieces, wire, finished, output, buffers, phase, cancelled, terminals, emitted>>

client == <<output, buffers, phase, cancelled, terminals, emitted>>

Kinds == {"text", "thinking", "toolCall"}

Init ==
  /\ sent = <<>> /\ pieces = 0 /\ wire = <<>> /\ finished = FALSE
  /\ output = <<>> /\ buffers = <<>>
  /\ phase = "request" /\ cancelled = FALSE
  /\ terminals = <<>> /\ emitted = <<>>

Yield(es) ==
  /\ emitted' = es
  /\ terminals' = terminals \o Terminals(es)

-----------------------------------------------------------------------------
\* The server.
Line(type, kind, index, p) == [type |-> type, kind |-> kind, index |-> index, piece |-> p]

Sends(line) ==
  /\ ~finished /\ Len(wire) < MaxChunk
  /\ wire' = Append(wire, line)
  /\ UNCHANGED client

SendStart ==
  /\ pieces = 0 /\ sent = <<>>
  /\ Sends(Line("start", "none", 0, 0))
  /\ pieces' = 1
  /\ UNCHANGED <<sent, finished>>

SendBlockStart(kind) ==
  /\ pieces > 0 /\ Len(sent) < MaxBlocks
  /\ sent' = Append(sent, [kind |-> kind, pieces |-> <<>>, open |-> TRUE])
  /\ Sends(Line("block_start", kind, Len(sent) + 1, 0))
  /\ UNCHANGED <<pieces, finished>>

SendDelta(index) ==
  /\ sent[index].open /\ pieces <= MaxPieces
  /\ sent' = [sent EXCEPT ![index].pieces = Append(@, pieces)]
  /\ pieces' = pieces + 1
  /\ Sends(Line("delta", sent[index].kind, index, pieces))
  /\ UNCHANGED finished

SendBlockEnd(index) ==
  /\ sent[index].open
  /\ sent' = [sent EXCEPT ![index].open = FALSE]
  /\ Sends(Line("block_end", sent[index].kind, index, 0))
  /\ UNCHANGED <<pieces, finished>>

SendTerminal(type) ==
  /\ pieces > 0
  /\ type = "done" => \A k \in DOMAIN sent : ~sent[k].open
  /\ Sends(Line(type, "none", 0, 0))
  /\ finished' = TRUE
  /\ UNCHANGED <<sent, pieces>>

SendGarbage ==
  /\ Sends(Line("garbage", "none", 0, 0))
  /\ finished' = TRUE
  /\ UNCHANGED <<sent, pieces>>

-----------------------------------------------------------------------------
\* The client.
Work(out, bufs, evs, ok) == [output |-> out, buffers |-> bufs, events |-> evs, ok |-> ok]

Set(f, k, v) == [i \in DOMAIN f \cup {k} |-> IF i = k THEN v ELSE f[i]]

\* A wrong-shape event: one Error event with the message as it is.
Refused(w) == Work(w.output, w.buffers, Append(w.events, Error("error", w.output)), FALSE)

\* place: a block may be put in an existing slot or in the next one.
Placed(content, index, block) ==
  IF index = Len(content) + 1 THEN Append(content, block)
                              ELSE [content EXCEPT ![index] = block]

\* *_delta: text and thinking are appended; arguments are read again from all
\* the fragments so far.
Deltas(w, line) ==
  LET index == line.index
      old   == IF index \in DOMAIN w.buffers THEN w.buffers[index] ELSE <<>>
      buf   == Append(old, line.piece)
      out   == [w.output EXCEPT ![index].pieces =
                  IF line.kind = "toolCall" THEN buf ELSE Append(@, line.piece)]
  IN  Work(out, IF line.kind = "toolCall" THEN Set(w.buffers, index, buf) ELSE w.buffers,
           Append(w.events, Delta(line.kind, index, line.piece, out)), TRUE)

\* process_proxy_event, for the lines up to the first that ends the stream.
ProcessProxyEvent(w, line) ==
  LET index   == line.index
      rightly == index \in DOMAIN w.output /\ w.output[index].kind = line.kind
      ends    == Append(w.events, BlockEnd(line.kind, index, w.output))
      starts  == LET out == Placed(w.output, index, Block(line.kind, <<>>)) IN
                 Work(out, IF line.kind = "toolCall" THEN Set(w.buffers, index, <<>>)
                                                     ELSE w.buffers,
                      Append(w.events, BlockStart(line.kind, index, out)), TRUE)
  IN CASE ~w.ok -> w
       [] line.type = "start" ->
            Work(w.output, w.buffers, Append(w.events, Start(w.output)), TRUE)
       [] line.type = "block_start" ->
            IF index > Len(w.output) + 1 THEN Refused(w) ELSE starts
       [] line.type = "delta" -> IF rightly THEN Deltas(w, line) ELSE Refused(w)
       [] line.type = "block_end" /\ line.kind = "toolCall" ->
            IF rightly THEN Work(w.output, [k \in DOMAIN w.buffers \ {index} |-> w.buffers[k]],
                                 ends, TRUE)
                       ELSE w
       [] line.type = "block_end" /\ line.kind # "toolCall" ->
            IF rightly THEN Work(w.output, w.buffers, ends, TRUE) ELSE Refused(w)
       [] line.type = "done" ->
            Work(w.output, w.buffers, Append(w.events, Done("stop", w.output)), TRUE)
       [] line.type = "error" ->
            Work(w.output, w.buffers, Append(w.events, Error("error", w.output)), TRUE)
       [] OTHER -> Refused(w)

server == <<sent, pieces, finished>>

\* The request fails or is refused, or is cancelled while it is under way.
RequestFails ==
  /\ phase = "request"
  /\ \/ Yield(<<Error("error", output)>>)
     \/ cancelled /\ Yield(<<Error("aborted", output)>>)
  /\ phase' = "closed"
  /\ UNCHANGED <<server, wire, output, buffers, cancelled>>

Answered ==
  /\ phase = "request"
  /\ phase' = "body"
  /\ Yield(<<>>)
  /\ UNCHANGED <<server, wire, output, buffers, cancelled>>

\* What the lines that have come make of the message, one after the other.
Processed ==
  LET w[n \in 0..Len(wire)] ==
        IF n = 0 THEN Work(output, buffers, <<>>, TRUE) ELSE ProcessProxyEvent(w[n - 1], wire[n])
  IN  w[Len(wire)]

\* A chunk: all its lines are processed before the token is looked at again.
ReadChunk ==
  /\ phase = "body" /\ wire # <<>>
  /\ LET w == Processed IN
     /\ output' = w.output /\ buffers' = w.buffers
     /\ Yield(w.events)
     /\ phase' = IF w.ok THEN "body" ELSE "closed"
  /\ wire' = <<>>
  /\ UNCHANGED <<server, cancelled>>

\* The body ends without a word, or the connection breaks.
EndOfBody ==
  /\ phase = "body"
  /\ \/ wire = <<>> /\ Yield(<<>>)
     \/ Yield(<<Error("error", output)>>)
  /\ phase' = "closed"
  /\ UNCHANGED <<server, wire, output, buffers, cancelled>>

Aborted ==
  /\ phase = "body" /\ cancelled
  /\ Yield(<<Error("aborted", output)>>)
  /\ phase' = "closed"
  /\ UNCHANGED <<server, wire, output, buffers, cancelled>>

Cancel ==
  /\ ~cancelled /\ phase # "closed"
  /\ cancelled' = TRUE
  /\ Yield(<<>>)
  /\ UNCHANGED <<server, wire, output, buffers, phase>>

Next ==
  \/ phase = "body" /\ (\/ SendStart \/ SendGarbage
                        \/ \E kind \in Kinds : SendBlockStart(kind)
                        \/ \E index \in DOMAIN sent : SendDelta(index) \/ SendBlockEnd(index)
                        \/ \E type \in {"done", "error"} : SendTerminal(type))
  \/ RequestFails \/ Answered \/ ReadChunk \/ EndOfBody \/ Aborted \/ Cancel

Spec == Init /\ [][Next]_vars

-----------------------------------------------------------------------------
(* A Done event carries each piece the server sent, once and in order,     *)
(* though the wire carries only fragments and slots (process_proxy_event). *)
MessageComplete ==
  \A k \in DOMAIN emitted :
    emitted[k].type = "done" =>
      emitted[k].message = [j \in DOMAIN sent |-> Block(sent[j].kind, sent[j].pieces)]

(* The message the client shows is never ahead of the server and never out *)
(* of order: each block is the server's block of that position with a      *)
(* prefix of its pieces, whatever was cut off, damaged or cancelled.       *)
PartialFollowsServer ==
  /\ Len(output) <= Len(sent)
  /\ \A k \in DOMAIN output : /\ output[k].kind = sent[k].kind
                              /\ IsPrefix(output[k].pieces, sent[k].pieces)
=============================================================================
