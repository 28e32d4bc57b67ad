------------------------------ MODULE RpcServer ------------------------------
(***************************************************************************)
(* run_rpc_server (crates/coding-agent/src/rpc/server.rs): the dispatcher  *)
(* that reads command frames, runs them on the one AgentSession it owns    *)
(* and answers through a writer task.  While a `prompt` or a `bash` is in  *)
(* flight it keeps reading: a few commands are served inline, all others   *)
(* are deferred.                                                           *)
(*                                                                         *)
(* A frame is its number on the wire and its kind.  What a command does to *)
(* the session is AgentSession's business; here only the cancellation of a *)
(* bash is kept.  `abort` stands for abort and abort_retry, `steer` for    *)
(* steer and follow_up, `query` for every other command of handle_command, *)
(* `invalid` for a frame that does not parse or is not UTF-8.  Session     *)
(* events share the channel and are left out.                              *)
(***************************************************************************)
EXTENDS Naturals, Sequences, FiniteSets, SequencesExt

CONSTANTS
  MaxFrames,   \* bound: frames the client sends
  Kinds,       \* the kinds of frames it sends
  WriterFails, \* writing to stdout may fail
  ReaderFails  \* reading stdin may fail

AllKinds == {"prompt", "bash", "abort", "abort_bash", "steer", "new_session",
             "query", "invalid"}

ASSUME RpcAssumption ==
  /\ MaxFrames \in Nat
  /\ Kinds \subseteq AllKinds
  /\ {WriterFails, ReaderFails} \subseteq BOOLEAN

VARIABLES
  sent,          \* frames the client has sent
  wire,          \* those not read yet
  input,         \* "open", or how it ended: "eof" or "io"
  deferred,      \* the vector: inserted at the front, popped at the back
  busy,          \* the prompt or bash in flight
  racing,        \* the in-flight future is raced against the input
  ioFatal,       \* io_fatal
  handled,       \* frames taken by the main loop, in order
  bashCancelled, \* the token of the bash in flight is cancelled
  senders,       \* who holds a sender of the outbound channel
  out,           \* responses in the channel
  written,       \* responses written
  writer,        \* the writer task: "run", "failed" or "done"
  exit           \* run_rpc_server: "run", "closing", "ok" or "err"

client == <<sent, wire, input>>
outbound == <<out, written, writer>>
ending == <<senders, exit, ioFatal>>
vars == <<client, deferred, busy, racing, handled, bashCancelled, outbound, ending>>

Frame == [n: 1..MaxFrames, kind: Kinds]
None == [n |-> 0, kind |-> "none"]

Init ==
  /\ sent = 0
  /\ wire = <<>>
  /\ input = "open"
  /\ deferred = <<>>
  /\ busy = None
  /\ racing = FALSE
  /\ ioFatal = FALSE
  /\ handled = <<>>
  /\ bashCancelled = FALSE
  /\ senders = {"dispatcher", "session"}
  /\ out = <<>>
  /\ written = <<>>
  /\ writer = "run"
  /\ exit = "run"

-----------------------------------------------------------------------------
(* The client and the writer task. *)

ClientSends(kind) ==
  /\ input = "open"
  /\ sent < MaxFrames
  /\ sent' = sent + 1
  /\ wire' = Append(wire, [n |-> sent', kind |-> kind])
  /\ UNCHANGED <<input, deferred, busy, racing, handled, bashCancelled, outbound,
                 ending>>

ClientEnds(how) ==
  /\ input = "open"
  /\ how = "io" => ReaderFails
  /\ input' = how
  /\ UNCHANGED <<sent, wire, deferred, busy, racing, handled, bashCancelled,
                 outbound, ending>>

\* write_jsonl of one response, or its failure, which drops the receiver.
WriteOne ==
  /\ writer = "run" /\ out # <<>>
  /\ out' = Tail(out)
  /\ \/ written' = Append(written, Head(out)) /\ UNCHANGED writer
     \/ WriterFails /\ writer' = "failed" /\ UNCHANGED written
  /\ UNCHANGED <<client, deferred, busy, racing, handled, bashCancelled, ending>>

\* rx.recv() yields None when every sender is gone and the channel is empty.
WriterDone ==
  /\ writer = "run" /\ out = <<>> /\ senders = {}
  /\ writer' = "done"
  /\ UNCHANGED <<client, deferred, busy, racing, handled, bashCancelled, out,
                 written, ending>>

-----------------------------------------------------------------------------
(* Answers. *)

\* tx.send: an error once the writer task is gone.
Answer(n) ==
  /\ out' = IF writer = "failed" THEN out ELSE Append(out, n)
  /\ UNCHANGED <<written, writer>>

\* Mutant: the session and its sender are not dropped.
Leave_KeepsSession == exit' = "closing" /\ senders' = senders \ {"dispatcher"}

\* Leaving the loop drops the sender, then the session with its sender.
Leave == exit' = "closing" /\ senders' = {}
Stay == UNCHANGED <<exit, senders>>
LeaveIfGone == IF writer = "failed" THEN Leave ELSE Stay

-----------------------------------------------------------------------------
(* The main loop, between two commands. *)

Ready == exit = "run" /\ busy = None

\* Start racing a prompt or a bash; run_bash installs a fresh token.
Start(f) ==
  /\ busy' = f
  /\ racing' = TRUE
  /\ bashCancelled' = FALSE
  /\ Stay
  /\ UNCHANGED outbound

\* handle_command, or the Invalid answer of a frame that is no command.
Handle(f) ==
  /\ Answer(f.n)
  /\ LeaveIfGone
  /\ UNCHANGED <<busy, racing, bashCancelled>>

Dispatch(f) ==
  /\ handled' = Append(handled, f.n)
  /\ IF f.kind \in {"prompt", "bash"} THEN Start(f) ELSE Handle(f)
  /\ UNCHANGED <<sent, input, ioFatal>>

TakeDeferred ==
  /\ Ready
  /\ deferred # <<>>
  /\ deferred' = Front(deferred)
  /\ Dispatch(Last(deferred))
  /\ UNCHANGED wire

TakeFrame ==
  /\ Ready
  /\ deferred = <<>>
  /\ wire # <<>>
  /\ wire' = Tail(wire)
  /\ Dispatch(Head(wire))
  /\ UNCHANGED deferred

\* The stream ends, or its I/O error is fatal.
StreamEnds ==
  /\ Ready
  /\ deferred = <<>> /\ wire = <<>> /\ input # "open"
  /\ ioFatal' = (input = "io")
  /\ Leave
  /\ UNCHANGED <<client, deferred, busy, racing, handled, bashCancelled, outbound>>

\* The writer task is awaited; its failure and an I/O error are returned.
Exit ==
  /\ exit = "closing"
  /\ writer # "run"
  /\ exit' = IF ioFatal \/ writer = "failed" THEN "err" ELSE "ok"
  /\ UNCHANGED <<client, deferred, busy, racing, handled, bashCancelled, outbound,
                 senders, ioFatal>>

-----------------------------------------------------------------------------
(* A prompt or a bash in flight. *)

Inline(f) ==
  \/ f.kind = "invalid"
  \/ busy.kind = "bash" /\ f.kind = "abort_bash"
  \/ busy.kind = "prompt" /\ f.kind \in {"steer", "abort"}

\* Served without the session borrow.  With the writer gone the race is over
\* and the future only awaited.
ReadInline ==
  LET f == Head(wire) IN
  /\ busy # None /\ racing /\ wire # <<>>
  /\ Inline(f)
  /\ wire' = Tail(wire)
  /\ bashCancelled' = (bashCancelled \/ f.kind = "abort_bash")
  /\ Answer(f.n)
  /\ racing' = (writer # "failed")
  /\ UNCHANGED <<sent, input, deferred, busy, handled, ending>>

\* Mutant: commands are pushed where they are popped.
ReadDeferred_Push ==
  /\ busy # None /\ racing /\ wire # <<>>
  /\ ~Inline(Head(wire))
  /\ wire' = Tail(wire)
  /\ deferred' = Append(deferred, Head(wire))
  /\ UNCHANGED <<sent, input, busy, racing, handled, bashCancelled, outbound, ending>>

ReadDeferred ==
  /\ busy # None /\ racing /\ wire # <<>>
  /\ ~Inline(Head(wire))
  /\ wire' = Tail(wire)
  /\ deferred' = <<Head(wire)>> \o deferred
  /\ UNCHANGED <<sent, input, busy, racing, handled, bashCancelled, outbound, ending>>

\* EOF or an I/O error during the race: the future is awaited to its end.
ReadEnd ==
  /\ busy # None /\ racing /\ wire = <<>> /\ input # "open"
  /\ racing' = FALSE
  /\ ioFatal' = (input = "io")
  /\ UNCHANGED <<client, deferred, busy, handled, bashCancelled, outbound, senders,
                 exit>>

\* Mutant: an input that ends mid-flight ends the server.
Complete_SkipsAnswer ==
  /\ busy' = None
  /\ racing' = FALSE
  /\ IF ioFatal \/ ~racing THEN Leave /\ UNCHANGED outbound
     ELSE Answer(busy.n) /\ LeaveIfGone
  /\ UNCHANGED <<client, deferred, handled, bashCancelled, ioFatal>>

\* The future is ready.  After a fatal I/O error nothing is answered and the
\* deferred commands are dropped.
Complete ==
  /\ busy' = None
  /\ racing' = FALSE
  /\ IF ioFatal THEN Leave /\ UNCHANGED outbound
                ELSE Answer(busy.n) /\ LeaveIfGone
  /\ UNCHANGED <<client, deferred, handled, bashCancelled, ioFatal>>

PromptEnds == busy.kind = "prompt" /\ Complete
BashEnds == busy.kind = "bash" /\ ~bashCancelled /\ Complete
BashAborted == busy.kind = "bash" /\ bashCancelled /\ Complete

-----------------------------------------------------------------------------
Client == \E k \in Kinds : ClientSends(k)
Closes == \E how \in {"eof", "io"} : ClientEnds(how)
Race == ReadInline \/ ReadDeferred \/ ReadEnd
Main == TakeDeferred \/ TakeFrame \/ StreamEnds \/ Exit
Writing == WriteOne \/ WriterDone

Next == Client \/ Closes \/ Race \/ Main \/ Writing
        \/ PromptEnds \/ BashEnds \/ BashAborted
Spec == Init /\ [][Next]_vars

\* The runtime polls the dispatcher and the writer, a prompt ends by itself
\* (AgentLoop!RunEnds) and a bash when its token is cancelled.
Fairness == WF_vars(Race) /\ WF_vars(Main) /\ WF_vars(Writing)
            /\ WF_vars(PromptEnds) /\ WF_vars(BashAborted)
FairSpec == Spec /\ Fairness
\* A bash ends by itself too, at the latest by its 120 s timeout.
BashTimesOut == WF_vars(BashEnds)

-----------------------------------------------------------------------------
(* Properties. *)

Responses == written \o out

\* The types of the dispatcher's state.
TypeOK ==
  /\ sent \in 0..MaxFrames
  /\ wire \in Seq(Frame) /\ deferred \in Seq(Frame)
  /\ input \in {"open", "eof", "io"}
  /\ busy \in Frame \union {None}
  /\ {racing, ioFatal, bashCancelled} \subseteq BOOLEAN
  /\ racing => busy.kind \in {"prompt", "bash"}
  /\ handled \in Seq(1..MaxFrames) /\ Len(handled) <= sent
  /\ senders \subseteq {"dispatcher", "session"}
  /\ out \in Seq(1..MaxFrames) /\ written \in Seq(1..MaxFrames)
  /\ writer \in {"run", "failed", "done"}
  /\ exit \in {"run", "closing", "ok", "err"}

\* The main loop takes commands in the order in which they came, however many
\* were deferred behind prompts and bashes that were themselves deferred.
CommandsInOrder ==
  \A i, j \in DOMAIN handled : i < j => handled[i] < handled[j]

\* No frame is answered twice, and a server that exits cleanly has written an
\* answer to every frame it was sent.
AnsweredOnce ==
  /\ Cardinality(ToSet(Responses)) = Len(Responses)
  /\ exit = "ok" => ToSet(written) = 1..sent

\* Once the input has ended the server exits: the writer task is not left
\* waiting on a sender that nobody will use.
ServerExits ==
  BashTimesOut => (input # "open" ~> exit \in {"ok", "err"})

\* An abort_bash that comes up on the wire while a bash is in flight ends that
\* bash, also when the command would run for ever.
AbortBashEnds == \A n \in 1..MaxFrames :
  (/\ busy = [n |-> n, kind |-> "bash"] /\ racing
   /\ wire # <<>> /\ Head(wire).kind = "abort_bash") ~> busy.n # n
=============================================================================
