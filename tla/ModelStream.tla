----------------------------- MODULE ModelStream -----------------------------
(***************************************************************************)
(* stream_simple (crates/model/src/stream.rs): the stream of one response, *)
(* with cancellation, a timeout and retries around a provider's stream,    *)
(* and its consumer in the agent loop (crates/agent/src/agent_loop.rs,     *)
(* stream_assistant_response), which keeps the message in the transcript   *)
(* while it grows.                                                         *)
(*                                                                         *)
(* The provider is any of the adapters: it may begin or not, be silent for *)
(* ever, end without a terminal event, and yield more after one.  Some     *)
(* return after their error; the Anthropic and the Responses adapter go on *)
(* reading the body after an error that came in it, as long as the server  *)
(* holds it open.                                                          *)
(***************************************************************************)
EXTENDS Integers, Sequences

CONSTANTS
  MaxRetries    \* options.max_retries

VARIABLES
  token,        \* the combined token
  caller,       \* what has happened of {"abort", "timeout"}
  wrapper,      \* "reading", "draining", "backoff" or "ended"
  attempt,      \* retries so far (one diagnostic each)
  inner,        \* the provider's stream: "new", "started", "over", or after its
                \* error "terminal", or "lingering" if it reads on
  event,        \* the event the wrapper has yielded and the consumer not taken
  transcript,   \* the assistant messages of this response, by their state
  brackets       \* MessageStart and MessageEnd events of the agent

vars == <<token, caller, wrapper, attempt, inner, event, transcript, brackets>>

consumer == <<transcript, brackets>>
calls == <<token, caller>>

Init ==
  /\ token = FALSE /\ caller = {}
  /\ wrapper = "reading" /\ attempt = 0
  /\ inner = "new" /\ event = "none"
  /\ transcript = <<>> /\ brackets = [start |-> 0, end |-> 0]

-----------------------------------------------------------------------------
\* The caller aborts, or the time is up; a task of its own carries each over
\* to the combined token.
Signal(cause) ==
  /\ cause \notin caller /\ wrapper # "ended"
  /\ caller' = caller \cup {cause}
  /\ UNCHANGED <<token, wrapper, attempt, inner, event, consumer>>

CancelCombined ==
  /\ caller # {} /\ ~token
  /\ token' = TRUE
  /\ UNCHANGED <<caller, wrapper, attempt, inner, event, consumer>>

\* The wrapper waits for the provider: cancellation is looked at first.
Reading == wrapper = "reading" /\ event = "none"

Gate == Reading /\ ~token

\* An event of the message: Start, or a change to it.
PassOn ==
  /\ Gate
  /\ \/ inner = "new" /\ inner' = "started" /\ event' = "start"
     \/ inner = "started" /\ inner' = inner /\ event' = "update"
  /\ UNCHANGED <<calls, wrapper, attempt, consumer>>

Finish(final) ==
  /\ wrapper' = "ended"
  /\ event' = final

\* Done, or an error that is not retried.
PassTerminal ==
  /\ Gate /\ inner \in {"new", "started"}
  /\ \E final \in {"done", "error"} : Finish(final)
  /\ inner' = "terminal"
  /\ UNCHANGED <<calls, attempt, consumer>>

\* A retriable error: the rest of the failing stream is read to its end first,
\* and the token is not looked at meanwhile.
RetriableError ==
  /\ Gate /\ inner \in {"new", "started"}
  /\ inner' \in {"terminal", "lingering"}
  /\ IF attempt < MaxRetries
       THEN /\ attempt' = attempt + 1
            /\ wrapper' = "draining" /\ UNCHANGED event
       ELSE Finish("error") /\ UNCHANGED attempt
  /\ UNCHANGED <<calls, consumer>>

\* The provider's stream ends, with or without a terminal event; what a failing
\* stream yields after its error is dropped.
ProviderEnds ==
  /\ inner # "over"
  /\ wrapper \in {"reading", "draining"} /\ event = "none"
  /\ wrapper = "reading" => ~token
  /\ inner' = "over"
  /\ IF wrapper = "draining"
       THEN wrapper' = "backoff" /\ UNCHANGED event
       ELSE Finish("nothing")
  /\ UNCHANGED <<calls, attempt, consumer>>

\* The sleep is over, though the token may be cancelled by now.
Retry ==
  /\ wrapper = "backoff"
  /\ wrapper' = "reading" /\ inner' = "new"
  /\ UNCHANGED <<calls, attempt, event, consumer>>

\* Mutant: cancellation is not looked at during the backoff or the next read.
Cancelled_ReadOnly ==
  /\ token /\ Reading /\ attempt = 0
  /\ Finish("aborted")
  /\ UNCHANGED <<calls, attempt, inner, consumer>>

\* Cancelled while reading or in the backoff: one aborted Error.
Cancelled ==
  /\ token
  /\ Reading \/ wrapper = "backoff"
  /\ Finish("aborted")
  /\ UNCHANGED <<calls, attempt, inner, consumer>>

-----------------------------------------------------------------------------
\* The consumer.
EmittedStart == brackets.start > 0

\* The last message is replaced if one was begun, else one is pushed.
Put(state) ==
  IF EmittedStart THEN transcript' = [transcript EXCEPT ![Len(transcript)] = state]
                  ELSE transcript' = Append(transcript, state)

TakeStart ==
  /\ event = "start"
  /\ transcript' = Append(transcript, "partial")
  /\ brackets' = [brackets EXCEPT !.start = @ + 1]

TakeUpdate ==
  /\ event = "update"
  /\ IF EmittedStart THEN Put("partial") ELSE UNCHANGED transcript
  /\ UNCHANGED brackets

\* Done, Error, or an error made up when the stream ended without either.
TakeTerminal ==
  /\ event \in {"done", "error", "aborted", "nothing"}
  /\ Put(IF event = "nothing" THEN "error" ELSE event)
  /\ brackets' = [start |-> IF EmittedStart THEN brackets.start ELSE 1, end |-> brackets.end + 1]

Take ==
  /\ TakeStart \/ TakeUpdate \/ TakeTerminal
  /\ event' = IF wrapper = "ended" THEN "taken" ELSE "none"
  /\ UNCHANGED <<calls, wrapper, attempt, inner>>

Wrapper == CancelCombined \/ Retry \/ Cancelled \/ Take

Next ==
  \/ \E cause \in {"abort", "timeout"} : Signal(cause)
  \/ PassOn \/ PassTerminal \/ RetriableError \/ ProviderEnds
  \/ Wrapper

Spec == Init /\ [][Next]_vars

\* The runtime polls the wrapper, the consumer and the tasks.  A provider need
\* not say anything, nor a server ever close its body; but the stream of an
\* adapter that returns after its error comes to its end: of every one whose
\* request failed or whose connection broke, and of those for OpenAI's chat
\* completions and for Google.
Fairness ==
  /\ WF_vars(CancelCombined) /\ WF_vars(Retry) /\ WF_vars(Cancelled) /\ WF_vars(Take)
  /\ WF_vars(ProviderEnds /\ inner = "terminal")

FairSpec == Spec /\ Fairness

-----------------------------------------------------------------------------
Settled == event = "taken"

\* A failing stream that reads on is being drained: it is up to the server.
Held == wrapper = "draining" /\ inner = "lingering"

(* An abort or a timeout that comes while the response is not at its end   *)
(* ends it, as aborted, and the agent loop's call returns: a silent        *)
(* provider, a backoff and the drain of a stream whose adapter returns do  *)
(* not hold it up.  The drain of a stream that reads on does, for as long  *)
(* as the server keeps its body open, against stream.rs:136; when that     *)
(* ends at last, so does the response.                                     *)
AbortEndsStream ==
  (token /\ wrapper # "ended" /\ ~Held) ~>
    (Settled /\ transcript[Len(transcript)] = "aborted")

(* When the response is over the transcript's last message is closed, and  *)
(* as long as nothing was retried there is exactly one message of the      *)
(* response and its MessageStart and MessageEnd are balanced.              *)
ClosedOnce ==
  Settled =>
    /\ transcript[Len(transcript)] # "partial"
    /\ brackets.end = 1 /\ brackets.start = Len(transcript)
    /\ attempt = 0 => Len(transcript) = 1

(* agent_loop.rs: subscribers see a balanced MessageStart and MessageEnd,  *)
(* and the transcript holds a single closed assistant message.             *)
OneMessagePerResponse ==
  Settled => Len(transcript) = 1 /\ brackets.start = brackets.end
=============================================================================
