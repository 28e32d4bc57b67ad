--------------------------- MODULE AssistantEvents ---------------------------
(***************************************************************************)
(* The events of an assistant message being streamed (crates/model/src/    *)
(* types.rs, AssistantMessageEvent), shared by the modules that produce    *)
(* and consume them.                                                       *)
(*                                                                         *)
(* A message is its content blocks; a block is its kind and the pieces of  *)
(* text, of thinking or of tool arguments it holds, in order.  An event    *)
(* carries the message as it stands.  Content indexes count from 1.        *)
(***************************************************************************)
EXTENDS Integers, Sequences, Filter

\* A block of kind "text", "thinking" or "toolCall".
Block(kind, pieces) == [kind |-> kind, pieces |-> pieces]

Start(msg)                  == [type |-> "start", message |-> msg]
BlockStart(kind, index, msg) == [type |-> "block_start", kind |-> kind,
                                 index |-> index, message |-> msg]
Delta(kind, index, p, msg)  == [type |-> "delta", kind |-> kind, index |-> index,
                                piece |-> p, message |-> msg]
BlockEnd(kind, index, msg)  == [type |-> "block_end", kind |-> kind,
                                index |-> index, message |-> msg]
Done(reason, msg)           == [type |-> "done", reason |-> reason, message |-> msg]
Error(reason, msg)          == [type |-> "error", reason |-> reason, message |-> msg]

\* The terminal ones of some events: a response ends with one.
Terminal(event) == event.type \in {"done", "error"}
Terminals(es) == Keep(es, {es[k] : k \in {j \in DOMAIN es : Terminal(es[j])}})
=============================================================================
