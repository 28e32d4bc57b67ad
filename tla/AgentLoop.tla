----------------------------- MODULE AgentLoop -----------------------------
(***************************************************************************)
(* The agent runtime of crates/agent: the stateful wrapper Agent (agent.rs)*)
(* and the loop it drives (agent_loop.rs).                                 *)
(*                                                                         *)
(* One prompt()/continue() call is a run.  A run alternates between asking *)
(* the model for an assistant message and executing the tool calls of that *)
(* message, and polls two queues that other tasks fill while it runs:      *)
(* steering messages (polled after each turn) and follow-up messages       *)
(* (polled when the run would stop).  Other tasks may also abort the run.  *)
(*                                                                         *)
(* A step of the model is the code between two await points, or between    *)
(* two reads of state another task can write (the queues and the           *)
(* cancellation token).  Message contents are dropped; what is kept of a   *)
(* message is its role, an identity for user messages, the stop reason and *)
(* the number of tool calls for assistant messages, and the position of    *)
(* the call a tool result answers.                                         *)
(***************************************************************************)
EXTENDS Integers, Sequences

CONSTANTS
  MaxCalls,     \* most tool calls in one assistant message
  CallBudget,   \* bound: tool calls the model issues in a behaviour
  MaxInputs     \* bound: user messages (prompt, steer, follow-up) submitted

ASSUME BoundsAssumption ==
  /\ MaxCalls \in Nat
  /\ CallBudget \in Nat
  /\ MaxInputs \in Nat

VARIABLES
  phase,        \* where the run is; "idle" between runs
  messages,     \* Agent.messages, written back when a run ends
  context,      \* AgentContext.messages of the run
  newMessages,  \* new_messages, what the run returns to its caller
  pending,      \* pending_messages: drained from a queue, not yet injected
  steering,     \* steering_queue.messages
  followUp,     \* follow_up_queue.messages
  mode,         \* delivery mode of each queue
  cancelled,    \* is_cancelled() of the token in the shared cell
  hasMore,      \* has_more_tool_calls
  started,      \* emitted_start of stream_assistant_response
  batch,        \* the tool batch: execution mode and number of calls
  slot,         \* the progress of each call of the batch
  runtime,      \* RuntimeState, reduced from the events the run emits
  firstTurn,    \* first_turn: the entry point emitted this turn's TurnStart
  openTurns,    \* TurnStart minus TurnEnd events of the latest run
  outcome,      \* how the latest run returned
  nextId,       \* identity of the next user message
  discarded,    \* user messages dropped by reset and the clear operations
  budget        \* tool calls the model may still issue

transcript == <<messages, context, newMessages>>
loop       == <<pending, hasMore, started, firstTurn>>
tools      == <<batch, slot>>
queues     == <<steering, followUp>>
inputs     == <<nextId, discarded>>
observed   == <<runtime, openTurns, outcome>>
vars == <<phase, transcript, loop, tools, queues, inputs, observed, mode,
          cancelled, budget>>

----------------------------------------------------------------------------
(* Messages. *)

\* Stop stands for Stop and ToolUse, which the loop treats alike: whether
\* tools run depends on the calls in the message.  Partial marks the message
\* of a stream that has not ended.
Complete    == {"Stop", "Length"}
Failure     == {"Error", "Aborted"}
ToolOutcome == {"ok", "error", "aborted"}

UserMessage ==
  [role : {"user"}, via : {"prompt", "steer", "followUp"}, id : Nat \ {0}]
AssistantMessage ==
  [role : {"assistant"}, stop : Complete \cup Failure \cup {"Partial"},
   calls : 0..MaxCalls]
ToolResultMessage ==
  [role : {"toolResult"}, call : 1..MaxCalls, out : ToolOutcome]
Message   == UserMessage \cup AssistantMessage \cup ToolResultMessage
NoMessage == [role |-> "none"]

User(v, n)       == [role |-> "user", via |-> v, id |-> n]
Assistant(s, n)  == [role |-> "assistant", stop |-> s, calls |-> n]
ToolResult(i, o) == [role |-> "toolResult", call |-> i, out |-> o]

IdsOf(s) == {s[k].id : k \in {j \in DOMAIN s : s[j].role = "user"}}

\* Mutants of the two: the newest message first; one delivery empties the queue.
Drain_Newest(q, m)  == IF m = "All" \/ q = <<>> THEN q ELSE <<q[Len(q)]>>
Undrained_All(q, m) == <<>>

\* PendingQueue: its delivery mode, what drain returns and what it leaves.
Mode            == {"All", "OneAtATime"}
Drain(q, m)     == IF m = "All" \/ q = <<>> THEN q ELSE <<Head(q)>>
Undrained(q, m) == IF m = "All" \/ q = <<>> THEN <<>> ELSE Tail(q)

\* The calls of the current batch and the progress of one of them.
ExecutionMode == {"Sequential", "Parallel"}
Stage == {"waiting", "preparing", "immediate", "prepared", "executing",
          "executed", "ended"}
Slot  == [stage : Stage, out : ToolOutcome, terminate : BOOLEAN]
Call  == 1..MaxCalls
Calls == 1..batch.n
NoSlots == [i \in Call |-> [stage |-> "waiting", out |-> "ok",
                            terminate |-> FALSE]]
NoBatch == [exec |-> "Parallel", n |-> 0]

Phase == {"idle", "poll", "inject", "request", "failed", "stream", "tools",
          "turnEnd", "followUp"}

\* RuntimeState as finish_run_outcome leaves it.
IdleRuntime(err) ==
  [isStreaming |-> FALSE, streamingMessage |-> NoMessage,
   pendingToolCalls |-> {}, error |-> err]

Init ==
  /\ phase = "idle"
  /\ messages = <<>> /\ context = <<>> /\ newMessages = <<>>
  /\ pending = <<>> /\ hasMore = FALSE /\ started = FALSE /\ firstTurn = FALSE
  /\ batch = NoBatch /\ slot = NoSlots
  /\ steering = <<>> /\ followUp = <<>>
  /\ nextId = 1 /\ discarded = {}
  /\ runtime = IdleRuntime(FALSE) /\ openTurns = 0 /\ outcome = "none"
  /\ mode \in [steering : Mode, followUp : Mode]
  /\ cancelled = FALSE
  /\ budget = CallBudget

----------------------------------------------------------------------------
(* Starting a run. *)

\* start_run and the prologue of the entry points: a fresh token, a fresh
\* runtime state, AgentStart, TurnStart and the prompts.
StartRun(prompts, first) ==
  /\ phase = "idle"
  /\ ~runtime.isStreaming
  /\ phase' = first
  /\ context' = messages \o prompts
  /\ newMessages' = prompts
  /\ pending' = <<>> /\ hasMore' = TRUE /\ started' = FALSE /\ firstTurn' = TRUE
  /\ cancelled' = FALSE
  /\ runtime' = [IdleRuntime(FALSE) EXCEPT !.isStreaming = TRUE]
  /\ openTurns' = 1
  /\ outcome' = "none"
  /\ UNCHANGED <<messages, tools, discarded, mode, budget>>

\* Agent::prompt.
Prompt ==
  /\ nextId <= MaxInputs
  /\ StartRun(<<User("prompt", nextId)>>, "poll")
  /\ nextId' = nextId + 1
  /\ UNCHANGED queues

LastRole == IF messages = <<>> THEN "none" ELSE messages[Len(messages)].role

\* Agent::continue after an assistant message: a queue is drained into a new
\* run, steering first.  A run made of steering messages skips its first poll.
ContinueWithSteering ==
  /\ LastRole = "assistant"
  /\ steering # <<>>
  /\ StartRun(Drain(steering, mode.steering), "inject")
  /\ steering' = Undrained(steering, mode.steering)
  /\ UNCHANGED <<followUp, nextId>>

ContinueWithFollowUp ==
  /\ LastRole = "assistant"
  /\ steering = <<>>
  /\ followUp # <<>>
  /\ StartRun(Drain(followUp, mode.followUp), "poll")
  /\ followUp' = Undrained(followUp, mode.followUp)
  /\ UNCHANGED <<steering, nextId>>

\* Agent::continue after a user message or a tool result.
RunContinuation ==
  /\ LastRole \in {"user", "toolResult"}
  /\ StartRun(<<>>, "poll")
  /\ UNCHANGED <<queues, nextId>>

----------------------------------------------------------------------------
(* Ending a run: AgentEnd, the transcript written back, finish_run_outcome. *)

\* The locals of run_loop go with the run.
DropLocals ==
  /\ pending' = <<>>
  /\ hasMore' = FALSE
  /\ started' = FALSE
  /\ firstTurn' = FALSE

FinishOk(final, err) ==
  /\ phase' = "idle"
  /\ DropLocals
  /\ context' = final
  /\ messages' = final
  /\ runtime' = IdleRuntime(err)
  /\ outcome' = "ok"

\* The Err arm: a failed assistant message closes the transcript, and no
\* TurnEnd was emitted for the turn that the error interrupted.
FinishErr ==
  /\ phase = "failed"
  /\ phase' = "idle"
  /\ messages' = Append(context, Assistant(IF cancelled THEN "Aborted"
                                           ELSE "Error", 0))
  /\ context' = messages'
  /\ runtime' = IdleRuntime(TRUE)
  /\ outcome' = "err"
  /\ DropLocals
  /\ UNCHANGED <<newMessages, tools, queues, inputs, openTurns, mode,
                 cancelled, budget>>

----------------------------------------------------------------------------
(* run_loop. *)

\* get_steering_messages, then the condition of the inner while.
PollSteering ==
  /\ phase = "poll"
  /\ pending' = IF cancelled THEN <<>> ELSE Drain(steering, mode.steering)
  /\ steering' = IF cancelled THEN steering
                 ELSE Undrained(steering, mode.steering)
  /\ phase' = IF hasMore \/ pending' # <<>> THEN "inject" ELSE "followUp"
  /\ UNCHANGED <<transcript, hasMore, started, firstTurn, tools, followUp,
                 inputs, observed, mode, cancelled, budget>>

\* Mutant: TurnStart is emitted for the first turn too.
InjectPending_TurnStart ==
  /\ phase = "inject"
  /\ phase' = "request"
  /\ firstTurn' = FALSE
  /\ openTurns' = openTurns + 1
  /\ context' = context \o pending
  /\ newMessages' = newMessages \o pending
  /\ pending' = <<>>
  /\ UNCHANGED <<messages, hasMore, started, tools, queues, inputs, runtime,
                 outcome, mode, cancelled, budget>>

\* The head of a turn: TurnStart unless the entry point emitted it, then the
\* pending messages enter the transcript.
InjectPending ==
  /\ phase = "inject"
  /\ phase' = "request"
  /\ firstTurn' = FALSE
  /\ openTurns' = IF firstTurn THEN openTurns ELSE openTurns + 1
  /\ context' = context \o pending
  /\ newMessages' = newMessages \o pending
  /\ pending' = <<>>
  /\ UNCHANGED <<messages, hasMore, started, tools, queues, inputs, runtime, outcome,
                 mode, cancelled, budget>>

\* Mutant: the synthesized message is not returned.
RequestAborted_NotReturned ==
  /\ phase = "request"
  /\ cancelled
  /\ FinishOk(Append(context, Assistant("Aborted", 0)), TRUE)
  /\ openTurns' = openTurns - 1
  /\ UNCHANGED <<newMessages, tools, queues, inputs, mode, cancelled, budget>>

\* stream_assistant_response up to the request.  An aborted run answers
\* itself: TurnEnd and AgentEnd follow.
RequestAborted ==
  /\ phase = "request"
  /\ cancelled
  /\ newMessages' = Append(newMessages, Assistant("Aborted", 0))
  /\ FinishOk(Append(context, Assistant("Aborted", 0)), TRUE)
  /\ openTurns' = openTurns - 1
  /\ UNCHANGED <<tools, queues, inputs, mode, cancelled, budget>>

\* Otherwise the stream opens, or the client fails and run_loop returns Err.
Request ==
  /\ phase = "request"
  /\ ~cancelled
  /\ phase' \in {"stream", "failed"}
  /\ UNCHANGED <<transcript, loop, tools, queues, inputs, observed, mode,
                 cancelled, budget>>

----------------------------------------------------------------------------
(* The events of the model stream. *)

\* The context with its last message replaced, or extended when the stream
\* has not put its partial message there yet.
Put(m) ==
  IF started THEN [context EXCEPT ![Len(context)] = m] ELSE Append(context, m)

Partial == context[Len(context)]

StreamStart ==
  /\ phase = "stream"
  /\ ~started
  /\ started' = TRUE
  /\ context' = Put(Assistant("Partial", 0))
  /\ runtime' = [runtime EXCEPT !.streamingMessage = Assistant("Partial", 0)]
  /\ UNCHANGED <<phase, messages, newMessages, pending, hasMore, firstTurn,
                 tools, queues, inputs, openTurns, outcome, mode, cancelled,
                 budget>>

\* A delta replaces the partial message; the one modelled adds a tool call.
StreamDelta ==
  /\ phase = "stream"
  /\ started
  /\ Partial.calls < MaxCalls
  /\ Partial.calls < budget
  /\ context' = Put(Assistant("Partial", Partial.calls + 1))
  /\ runtime' = [runtime EXCEPT !.streamingMessage =
                                  Assistant("Partial", Partial.calls + 1)]
  /\ UNCHANGED <<phase, messages, newMessages, loop, tools, queues, inputs,
                 openTurns, outcome, mode, cancelled, budget>>

\* An Error event, or a stream that ends without a terminal event (an Error
\* message with no calls): TurnEnd, AgentEnd and the run ends.
StreamFails(s, n) ==
  /\ phase = "stream"
  /\ n <= budget
  /\ newMessages' = Append(newMessages, Assistant(s, n))
  /\ FinishOk(Put(Assistant(s, n)), TRUE)
  /\ openTurns' = openTurns - 1
  /\ UNCHANGED <<tools, queues, inputs, mode, cancelled, budget>>

\* fail_truncated_tool_calls: one error result per call, none is executed.
TruncatedResults(n) == [i \in 1..n |-> ToolResult(i, "error")]

\* A Done event.  A Length stop fails every call; otherwise execute_tool_calls
\* picks the execution mode of the batch.
StreamDone(s, n) ==
  /\ phase = "stream"
  /\ n <= budget
  /\ budget' = budget - n
  /\ LET results == IF s = "Length" THEN TruncatedResults(n) ELSE <<>>
     IN /\ context' = Put(Assistant(s, n)) \o results
        /\ newMessages' = Append(newMessages, Assistant(s, n)) \o results
  /\ runtime' = [runtime EXCEPT !.streamingMessage = NoMessage]
  /\ started' = FALSE
  /\ \/ /\ n > 0 /\ s # "Length"
        /\ phase' = "tools"
        /\ batch' \in [exec : ExecutionMode, n : {n}]
        /\ UNCHANGED hasMore
     \/ /\ n = 0 \/ s = "Length"
        /\ phase' = "turnEnd"
        /\ hasMore' = (n > 0)
        /\ UNCHANGED batch
  /\ UNCHANGED <<messages, pending, firstTurn, slot, queues, inputs,
                 openTurns, outcome, mode, cancelled>>

----------------------------------------------------------------------------
(* Tool execution. *)

\* What no step of a tool call touches.
ToolFrame ==
  /\ phase = "tools"
  /\ UNCHANGED <<phase, transcript, loop, batch, queues, inputs, openTurns,
                 outcome, mode, cancelled, budget>>

\* Mutant: calls are registered from zero.
BeginTool_ZeroBased(i) ==
  /\ ToolFrame
  /\ i \in Calls
  /\ slot[i].stage = "waiting"
  /\ slot' = [slot EXCEPT ![i].stage = "preparing"]
  /\ runtime' = [runtime EXCEPT !.pendingToolCalls = @ \cup {i - 1}]

\* ToolExecutionStart.  Calls start in source order: in sequential mode when
\* the previous call has ended, in parallel mode when it is prepared.
BeginTool(i) ==
  /\ ToolFrame
  /\ i \in Calls
  /\ slot[i].stage = "waiting"
  /\ \A j \in 1..(i - 1) :
       slot[j].stage \in IF batch.exec = "Sequential" THEN {"ended"}
                         ELSE {"immediate", "prepared"}
  /\ slot' = [slot EXCEPT ![i].stage = "preparing"]
  /\ runtime' = [runtime EXCEPT !.pendingToolCalls = @ \cup {i}]

\* prepare_tool_call: an unknown tool, invalid arguments, a hook that blocks
\* or an invalid rewrite give an immediate error result.
PrepareTool(i) ==
  /\ ToolFrame
  /\ i \in Calls
  /\ slot[i].stage = "preparing"
  /\ \/ slot' = [slot EXCEPT ![i].stage = "prepared"]
     \/ slot' = [slot EXCEPT ![i].stage = "immediate", ![i].out = "error"]
  /\ UNCHANGED runtime

\* join_all polls the calls of a parallel batch once all are prepared.
Running(i) ==
  /\ i \in Calls
  /\ \/ batch.exec = "Sequential"
     \/ \A j \in Calls : slot[j].stage \notin {"waiting", "preparing"}

\* Mutant: the token is not polled before the tool.
StartTool_IgnoresAbort(i) ==
  /\ ToolFrame
  /\ Running(i)
  /\ slot[i].stage = "prepared"
  /\ slot' = [slot EXCEPT ![i].stage = "executing"]
  /\ UNCHANGED runtime

\* execute_prepared_tool_call: the biased select polls the token first, so a
\* cancelled run neither starts a tool nor takes the result of one.
StartTool(i) ==
  /\ ToolFrame
  /\ Running(i)
  /\ slot[i].stage = "prepared"
  /\ ~cancelled
  /\ slot' = [slot EXCEPT ![i].stage = "executing"]
  /\ UNCHANGED runtime

ToolReturns(i) ==
  /\ ToolFrame
  /\ Running(i)
  /\ slot[i].stage = "executing"
  /\ ~cancelled
  /\ \E o \in {"ok", "error"} :
       slot' = [slot EXCEPT ![i].stage = "executed", ![i].out = o]
  /\ UNCHANGED runtime

\* Mutant: a tool that is running is not raced against the token.
AbortTool_NotRunning(i) ==
  /\ ToolFrame
  /\ Running(i)
  /\ slot[i].stage = "prepared"
  /\ cancelled
  /\ slot' = [slot EXCEPT ![i].stage = "executed", ![i].out = "aborted"]
  /\ UNCHANGED runtime

AbortTool(i) ==
  /\ ToolFrame
  /\ Running(i)
  /\ slot[i].stage \in {"prepared", "executing"}
  /\ cancelled
  /\ slot' = [slot EXCEPT ![i].stage = "executed", ![i].out = "aborted"]
  /\ UNCHANGED runtime

\* Mutant: an immediate result emits no ToolExecutionEnd.
EndTool_SilentImmediate(i) ==
  /\ ToolFrame
  /\ Running(i)
  /\ slot[i].stage \in {"executed", "immediate"}
  /\ slot' = [slot EXCEPT ![i].stage = "ended"]
  /\ runtime' = IF slot[i].stage = "immediate" THEN runtime
                ELSE [runtime EXCEPT !.pendingToolCalls = @ \ {i}]

\* finalize_executed_tool_call and ToolExecutionEnd.  The tool, or the after
\* hook overriding it, sets terminate; an immediate result never does.
EndTool(i) ==
  /\ ToolFrame
  /\ Running(i)
  /\ \E t \in BOOLEAN :
       /\ \/ slot[i].stage = "executed"
          \/ slot[i].stage = "immediate" /\ ~t
       /\ slot' = [slot EXCEPT ![i].stage = "ended", ![i].terminate = t]
  /\ runtime' = [runtime EXCEPT !.pendingToolCalls = @ \ {i}]

\* Mutant: a cancelled batch leaves its results out of the transcript.
EndBatch_DropsAborted ==
  /\ phase = "tools"
  /\ cancelled
  /\ \A i \in Calls : slot[i].stage = "ended"
  /\ hasMore' = FALSE
  /\ phase' = "turnEnd"
  /\ batch' = NoBatch
  /\ slot' = NoSlots
  /\ UNCHANGED <<transcript, pending, started, firstTurn, queues, inputs,
                 observed, mode, cancelled, budget>>

\* The results enter the transcript in source order; the model is asked again
\* unless every result asks to terminate.
EndBatch ==
  /\ phase = "tools"
  /\ \A i \in Calls : slot[i].stage = "ended"
  /\ LET results == [i \in Calls |-> ToolResult(i, slot[i].out)]
     IN /\ context' = context \o results
        /\ newMessages' = newMessages \o results
  /\ hasMore' = \E i \in Calls : ~slot[i].terminate
  /\ phase' = "turnEnd"
  /\ batch' = NoBatch
  /\ slot' = NoSlots
  /\ UNCHANGED <<messages, pending, started, firstTurn, queues, inputs,
                 observed, mode, cancelled, budget>>

----------------------------------------------------------------------------
(* The tail of a turn and of a run. *)

\* TurnEnd, then the run stops: should_stop_after_turn says so, or the run is
\* cancelled (finish_with_cancel).
TurnEndStop ==
  /\ phase = "turnEnd"
  /\ openTurns' = openTurns - 1
  /\ FinishOk(context, runtime.error)
  /\ UNCHANGED <<newMessages, tools, queues, inputs, mode, cancelled,
                 budget>>

\* TurnEnd, and the run goes on to its next steering poll.
TurnEndContinue ==
  /\ phase = "turnEnd"
  /\ ~cancelled
  /\ openTurns' = openTurns - 1
  /\ phase' = "poll"
  /\ UNCHANGED <<transcript, loop, tools, queues, inputs, runtime, outcome,
                 mode, cancelled, budget>>

\* get_follow_up_messages: a follow-up restarts the outer loop.
PollFollowUp ==
  /\ phase = "followUp"
  /\ \/ /\ cancelled \/ followUp = <<>>
        /\ FinishOk(context, runtime.error)
        /\ UNCHANGED followUp
     \/ /\ ~cancelled /\ followUp # <<>>
        /\ phase' = "inject"
        /\ pending' = Drain(followUp, mode.followUp)
        /\ followUp' = Undrained(followUp, mode.followUp)
        /\ hasMore' = TRUE
        /\ UNCHANGED <<context, messages, runtime, outcome, started, firstTurn>>
  /\ UNCHANGED <<newMessages, tools, steering, inputs,
                 openTurns, mode, cancelled, budget>>

----------------------------------------------------------------------------
(* What other tasks may do at any time (these operations take &self). *)

OtherTask ==
  UNCHANGED <<phase, transcript, loop, tools, observed, mode, budget>>

Steer ==
  /\ OtherTask
  /\ nextId <= MaxInputs
  /\ steering' = Append(steering, User("steer", nextId))
  /\ nextId' = nextId + 1
  /\ UNCHANGED <<followUp, cancelled, discarded>>

FollowUp ==
  /\ OtherTask
  /\ nextId <= MaxInputs
  /\ followUp' = Append(followUp, User("followUp", nextId))
  /\ nextId' = nextId + 1
  /\ UNCHANGED <<steering, cancelled, discarded>>

ClearSteeringQueue ==
  /\ OtherTask
  /\ steering # <<>>
  /\ steering' = <<>>
  /\ discarded' = discarded \cup IdsOf(steering)
  /\ UNCHANGED <<followUp, cancelled, nextId>>

ClearFollowUpQueue ==
  /\ OtherTask
  /\ followUp # <<>>
  /\ followUp' = <<>>
  /\ discarded' = discarded \cup IdsOf(followUp)
  /\ UNCHANGED <<steering, cancelled, nextId>>

\* Agent::abort and AbortHandle::abort.  Between runs they cancel a token that
\* the next run replaces.
Abort ==
  /\ OtherTask
  /\ ~cancelled
  /\ cancelled' = TRUE
  /\ UNCHANGED <<queues, inputs>>

----------------------------------------------------------------------------
(* Operations that need the agent to themselves (&mut self). *)

Reset ==
  /\ phase = "idle"
  /\ messages' = <<>> /\ context' = <<>> /\ newMessages' = <<>>
  /\ steering' = <<>> /\ followUp' = <<>>
  /\ runtime' = IdleRuntime(FALSE)
  /\ outcome' = "none"
  /\ discarded' = UNION {discarded, IdsOf(messages), IdsOf(steering),
                         IdsOf(followUp)}
  /\ UNCHANGED <<phase, loop, tools, nextId, openTurns, mode, cancelled,
                 budget>>

\* set_steering_mode and set_follow_up_mode.
SetMode ==
  /\ phase = "idle"
  /\ mode' \in [steering : Mode, followUp : Mode]
  /\ UNCHANGED <<phase, transcript, loop, tools, queues, inputs, observed,
                 cancelled, budget>>

----------------------------------------------------------------------------

Entry  == Prompt \/ ContinueWithSteering \/ ContinueWithFollowUp
          \/ RunContinuation
Ends   == \E n \in 0..MaxCalls :
            \/ \E s \in Complete : StreamDone(s, n)
            \/ \E s \in Failure : StreamFails(s, n)
Stream == StreamStart \/ StreamDelta \/ Ends
Tool(i) == BeginTool(i) \/ PrepareTool(i) \/ StartTool(i) \/ ToolReturns(i)
           \/ AbortTool(i) \/ EndTool(i)
Loop   == PollSteering \/ InjectPending \/ RequestAborted \/ Request
          \/ EndBatch \/ TurnEndStop \/ TurnEndContinue \/ PollFollowUp
          \/ FinishErr
Others == Steer \/ FollowUp \/ ClearSteeringQueue \/ ClearFollowUpQueue
          \/ Abort \/ Reset \/ SetMode

Next == Entry \/ Stream \/ (\E i \in Call : Tool(i)) \/ Loop \/ Others

Spec == Init /\ [][Next]_vars

----------------------------------------------------------------------------
(* Properties. *)

\* The type of every variable.
TypeOK ==
  /\ phase \in Phase
  /\ messages \in Seq(Message)
  /\ context \in Seq(Message)
  /\ newMessages \in Seq(Message)
  /\ pending \in Seq(UserMessage)
  /\ hasMore \in BOOLEAN
  /\ started \in BOOLEAN
  /\ firstTurn \in BOOLEAN
  /\ batch \in [exec : ExecutionMode, n : 0..MaxCalls]
  /\ slot \in [Call -> Slot]
  /\ steering \in Seq(UserMessage)
  /\ followUp \in Seq(UserMessage)
  /\ nextId \in Nat \ {0}
  /\ discarded \in SUBSET Nat
  /\ runtime \in [isStreaming : BOOLEAN,
                  streamingMessage : AssistantMessage \cup {NoMessage},
                  pendingToolCalls : SUBSET Call,
                  error : BOOLEAN]
  /\ openTurns \in Int
  /\ outcome \in {"none", "ok", "err"}
  /\ mode \in [steering : Mode, followUp : Mode]
  /\ cancelled \in BOOLEAN
  /\ budget \in Nat

\* Every completed assistant message is followed at once by one result per
\* tool call, in the order of the calls, and a tool result stands nowhere
\* else: whatever the completion order of a parallel batch, a truncated
\* message or an abort did (run_loop, execute_parallel).
ToolCallsAnswered ==
  /\ \A k \in DOMAIN context :
       /\ context[k].role = "assistant"
       /\ context[k].stop \in Complete
       /\ ~(phase = "tools" /\ k = Len(context))
       => \A i \in 1..context[k].calls :
            /\ k + i \in DOMAIN context
            /\ context[k + i].role = "toolResult"
            /\ context[k + i].call = i
  /\ \A k \in DOMAIN context :
       context[k].role = "toolResult" =>
         LET c == context[k].call
         IN /\ k - c \in DOMAIN context
            /\ context[k - c].role = "assistant"
            /\ context[k - c].stop \in Complete
            /\ c <= context[k - c].calls

\* No user message is lost: each one submitted is in the transcript, drained
\* and waiting to be injected, in a queue, or was discarded by a clear or a
\* reset, through failed and aborted runs too.
NoMessageLost ==
  UNION {IdsOf(context), IdsOf(pending), IdsOf(steering), IdsOf(followUp),
         discarded} = 1..(nextId - 1)

\* Each queue delivers in the order of submission and never twice, whether a
\* message leaves it through a poll of the loop or through continue().
Ordered(via, s) ==
  \A j, k \in DOMAIN s :
    /\ j < k
    /\ s[j].role = "user" /\ s[k].role = "user"
    /\ s[j].via = via /\ s[k].via = via
    => s[j].id < s[k].id

QueuesDeliverInOrder ==
  /\ Ordered("steer", context \o pending \o steering)
  /\ Ordered("followUp", context \o pending \o followUp)

\* state() tells what the run is doing: is_streaming exactly during a run, the
\* streaming message is the partial message of the transcript,
\* pending_tool_calls are the calls that started and have not ended, and after
\* a run the error is set exactly when the run's last message failed.
RuntimeMirrorsRun ==
  /\ runtime.isStreaming <=> phase # "idle"
  /\ runtime.streamingMessage =
       IF phase = "stream" /\ started THEN Partial ELSE NoMessage
  /\ runtime.pendingToolCalls =
       {i \in Call : phase = "tools" /\ slot[i].stage \notin
                                          {"waiting", "ended"}}
  /\ phase = "idle" /\ outcome # "none" =>
       (runtime.error <=> /\ LastRole = "assistant"
                          /\ messages[Len(messages)].stop \in Failure)

\* Listeners see turns that nest: no TurnStart inside an open turn, no TurnEnd
\* without one, and none left open by a run that returns Ok.
TurnsNest ==
  /\ openTurns \in {0, 1}
  /\ phase = "idle" /\ outcome = "ok" => openTurns = 0
  /\ phase \in {"request", "stream", "tools", "turnEnd"} => openTurns = 1

\* What a run returns to its caller is exactly what it added to the
\* transcript; a run that fails adds one failed message more.
ReturnsWhatItAdded ==
  [][phase # "idle" /\ phase' = "idle" =>
       IF outcome' = "ok"
         THEN messages' = messages \o newMessages'
         ELSE /\ messages' = messages \o newMessages' \o
                               <<messages'[Len(messages')]>>
              /\ messages'[Len(messages')].stop \in Failure]_vars

\* Once a run is cancelled it takes nothing more from the queues, opens no
\* stream and starts no tool.
AbortFreezesRun ==
  [][phase # "idle" /\ cancelled =>
       /\ discarded' = discarded => /\ Len(steering') >= Len(steering)
                                    /\ Len(followUp') >= Len(followUp)
       /\ phase # "stream" => phase' # "stream"
       /\ \A i \in Call : slot'[i].stage = "executing"
                          => slot[i].stage = "executing"]_vars

----------------------------------------------------------------------------
(* Liveness. *)

\* The steps the loop takes by itself, hooks included: hooks return.
\* A stream whose token is cancelled ends (the model layer yields an Error
\* event with reason Aborted).
StreamAborts == cancelled /\ StreamFails("Aborted", 0)

LoopFairness ==
  /\ WF_vars(Loop)
  /\ WF_vars(StreamAborts)
  /\ \A i \in Call : WF_vars(BeginTool(i) \/ PrepareTool(i) \/ StartTool(i)
                             \/ AbortTool(i) \/ EndTool(i))

\* Nothing is assumed of the model or of the tools: a stream may stay silent
\* and a tool may never return.
LoopSpec == Spec /\ LoopFairness

\* The model's streams end and the tools return.
WorldAnswers == WF_vars(Ends) /\ \A i \in Call : WF_vars(ToolReturns(i))

\* An aborted run ends, even when a tool hangs or the model stays silent.
AbortEndsRun == (phase # "idle" /\ cancelled) ~> (phase = "idle")

\* Every run ends when the model and the tools answer.
RunEnds == WorldAnswers => ((phase # "idle") ~> (phase = "idle"))
=============================================================================
