----------------------------- MODULE GoogleStream -----------------------------
(***************************************************************************)
(* The adapter of the Gemini wire format (crates/model/src/providers/      *)
(* google_shared.rs, used by the Google and the Vertex provider): the body *)
(* is read to its end, then turned into the events of the whole response.  *)
(* A function call comes in one part, with an id or without.               *)
(*                                                                         *)
(* The server is external.  Usage, names and signatures are left out.      *)
(***************************************************************************)
EXTENDS AssistantEvents, SequencesExt

CONSTANTS
  Ids,          \* ids the server gives to function calls
  MaxPieces,    \* bound: parts of a response
  FirstCounter  \* TOOL_CALL_COUNTER when the request is made

VARIABLES
  sent,         \* the server: the parts of the body so far
  finish,       \* the server: its finishReason, or "none"
  phase,        \* "new", "body" or "closed"
  terminals,    \* the terminal events yielded
  emitted       \* the events the last step yielded

vars == <<sent, finish, phase, terminals, emitted>>

Init ==
  /\ sent = <<>> /\ finish = "none" /\ phase = "new"
  /\ terminals = <<>> /\ emitted = <<>>

Yield(es) ==
  /\ emitted' = es
  /\ terminals' = terminals \o Terminals(es)

Begin ==
  /\ phase = "new"
  /\ \/ Yield(<<Start(<<>>)>>) /\ phase' = "body"
     \/ Yield(<<Start(<<>>), Error("error", <<>>)>>) /\ phase' = "closed"
  /\ UNCHANGED <<sent, finish>>

Part(kind, id) ==
  /\ phase = "body" /\ finish = "none"
  /\ Len(sent) < MaxPieces
  /\ sent' = Append(sent, [kind |-> kind, id |-> id, piece |-> Len(sent) + 1])
  /\ Yield(<<>>)
  /\ UNCHANGED <<finish, phase>>

FinishReason(r) ==
  /\ phase = "body" /\ finish = "none"
  /\ finish' = r
  /\ Yield(<<>>)
  /\ UNCHANGED <<sent, phase>>

-----------------------------------------------------------------------------
\* A block of the message also has the id of its call.
WithId(kind, ps, id) == [kind |-> kind, pieces |-> ps, id |-> id]

Work(out, type, counter, evs) ==
  [output |-> out, type |-> type, counter |-> counter, events |-> evs]

\* The block being built, if any, is ended: it is the last of the message.
Ended(w) ==
  IF w.type = "none" THEN w
    ELSE Work(w.output, "none", w.counter,
              Append(w.events, BlockEnd(w.type, Len(w.output), w.output)))

Opened(w, kind) ==
  IF w.type = kind THEN w
    ELSE LET e   == Ended(w)
             out == Append(e.output, WithId(kind, <<>>, "none"))
         IN  Work(out, kind, e.counter, Append(e.events, BlockStart(kind, Len(out), out)))

TextPart(w, part) ==
  LET o   == Opened(w, part.kind)
      n   == Len(o.output)
      out == [o.output EXCEPT ![n].pieces = Append(@, part.piece)]
  IN  Work(out, o.type, o.counter, Append(o.events, Delta(part.kind, n, part.piece, out)))

\* needs_new_id: the server gave none, or one this message already has.
NeedsNewId(content, id) == id = "none" \/ \E k \in DOMAIN content : content[k].id = id

FunctionCall(w, part) ==
  LET e   == Ended(w)
      new == NeedsNewId(e.output, part.id)
      id  == IF new THEN ToString(e.counter) ELSE part.id
      out == Append(e.output, WithId("toolCall", <<part.piece>>, id))
      n   == Len(out)
  IN  Work(out, "none", e.counter + (IF new THEN 1 ELSE 0),
           e.events \o <<BlockStart("toolCall", n, out),
                         Delta("toolCall", n, part.piece, out), BlockEnd("toolCall", n, out)>>)

HandlePart(w, part) == IF part.kind = "toolCall" THEN FunctionCall(w, part) ELSE TextPart(w, part)

\* parse_sse_stream, all of it.
Parsed ==
  LET parsed[n \in 0..Len(sent)] ==
        IF n = 0 THEN Work(<<>>, "none", FirstCounter, <<>>)
                 ELSE HandlePart(parsed[n - 1], sent[n])
  IN  Ended(parsed[Len(sent)])

\* resolve_stop_reason
StopReason ==
  CASE finish = "stop" /\ (\E k \in DOMAIN sent : sent[k].kind = "toolCall") -> "toolUse"
    [] finish = "none" -> "stop"
    [] OTHER -> finish

\* The body has come to its end, or reading it failed and all of it is lost.
EndOfBody ==
  /\ phase = "body"
  /\ \/ Yield(Append(Parsed.events, Done(StopReason, Parsed.output)))
     \/ Yield(<<Error("error", <<>>)>>)
  /\ phase' = "closed"
  /\ UNCHANGED <<sent, finish>>

Next ==
  \/ Begin
  \/ \E kind \in {"text", "thinking"} : Part(kind, "none")
  \/ \E id \in Ids \cup {"none"} : Part("toolCall", id)
  \/ \E r \in {"stop", "length"} : FinishReason(r)
  \/ EndOfBody

Spec == Init /\ [][Next]_vars

-----------------------------------------------------------------------------
(* The Done message holds each part once and in order, a block has parts   *)
(* of its own kind only, no two calls have the same id, and each event is  *)
(* about a block the message then has (parse_sse_stream).                  *)
MessageComplete ==
  \A k \in DOMAIN emitted :
    /\ emitted[k].type = "done" =>
         LET msg == emitted[k].message IN
         /\ FlattenSeq([j \in DOMAIN msg |-> msg[j].pieces]) = [j \in DOMAIN sent |-> j]
         /\ \A j \in DOMAIN msg : \A p \in ToSet(msg[j].pieces) : sent[p].kind = msg[j].kind
         /\ \A i, j \in DOMAIN msg :
              i # j /\ msg[i].kind = "toolCall" /\ msg[j].kind = "toolCall"
                => msg[i].id # msg[j].id
    /\ emitted[k].type \in {"block_start", "delta", "block_end"} =>
         emitted[k].message[emitted[k].index].kind = emitted[k].kind
=============================================================================
