-------------------------- MODULE AgentLoopProofs --------------------------
(***************************************************************************)
(* Proofs about AgentLoop, for every value of its constants: its types and *)
(* what a run returns; and then the events listeners see, the published    *)
(* state, what an abort stops, and what becomes of messages, queues and    *)
(* tool calls.                                                             *)
(***************************************************************************)
EXTENDS AgentLoop, SequenceTheorems, TLAPS

----------------------------------------------------------------------------
(* Lemmas about sequences. *)

\* Replacing the last element of a non-empty sequence keeps what is before it.
LEMMA ReplaceLast ==
  ASSUME NEW S, NEW s \in Seq(S), s # <<>>, NEW x \in S
  PROVE  /\ [s EXCEPT ![Len(s)] = x] \in Seq(S)
         /\ Len([s EXCEPT ![Len(s)] = x]) = Len(s)
         /\ [s EXCEPT ![Len(s)] = x][Len(s)] = x
  OBVIOUS

LEMMA AppendLast ==
  ASSUME NEW S, NEW s \in Seq(S), NEW x \in S
  PROVE  /\ Append(s, x) \in Seq(S)
         /\ Append(s, x) # <<>>
         /\ Append(s, x)[Len(Append(s, x))] = x
  OBVIOUS

\* PendingQueue::drain returns messages of the queue and leaves the rest.
LEMMA DrainType ==
  ASSUME NEW S, NEW q \in Seq(S), NEW m
  PROVE  Drain(q, m) \in Seq(S) /\ Undrained(q, m) \in Seq(S)
  BY DEF Drain, Undrained

\* Messages built by the loop are messages.
LEMMA MessageTypes ==
  /\ \A s \in Complete \cup Failure \cup {"Partial"}, n \in 0..MaxCalls :
       Assistant(s, n) \in AssistantMessage
  /\ \A i \in Call, o \in ToolOutcome : ToolResult(i, o) \in ToolResultMessage
  /\ \A v \in {"prompt", "steer", "followUp"}, n \in Nat \ {0} :
       User(v, n) \in UserMessage
  /\ AssistantMessage \subseteq Message
  /\ ToolResultMessage \subseteq Message
  /\ UserMessage \subseteq Message
  BY DEF Assistant, ToolResult, User, AssistantMessage, ToolResultMessage,
         UserMessage, Message, Call

\* A sequence of user messages is a sequence of messages.
LEMMA UserSeq == \A s \in Seq(UserMessage) : s \in Seq(Message)
  BY MessageTypes

----------------------------------------------------------------------------
(* Type correctness. *)

\* The type invariant is not inductive: a delta event reads the message that
\* the Start event put at the end of the context.
StreamShape ==
  started => /\ phase = "stream"
             /\ context # <<>>
             /\ Partial \in AssistantMessage

TypeInv == TypeOK /\ StreamShape

\* The runtime states the loop builds.
RuntimeState ==
  [isStreaming : BOOLEAN, streamingMessage : AssistantMessage \cup {NoMessage},
   pendingToolCalls : SUBSET Call, error : BOOLEAN]

LEMMA RuntimeTypes ==
  /\ \A e \in BOOLEAN : IdleRuntime(e) \in RuntimeState
  /\ [IdleRuntime(FALSE) EXCEPT !.isStreaming = TRUE] \in RuntimeState
  /\ \A r \in RuntimeState, m \in AssistantMessage \cup {NoMessage} :
       [r EXCEPT !.streamingMessage = m] \in RuntimeState
  /\ \A r \in RuntimeState, i \in Call :
       /\ [r EXCEPT !.pendingToolCalls = @ \cup {i}] \in RuntimeState
       /\ [r EXCEPT !.pendingToolCalls = @ \ {i}] \in RuntimeState
  BY DEF RuntimeState, IdleRuntime

\* Updates of one slot of a batch.
LEMMA SlotTypes ==
  /\ NoSlots \in [Call -> Slot]
  /\ \A f \in [Call -> Slot], i \in Call, st \in Stage, o \in ToolOutcome,
        t \in BOOLEAN :
       /\ [f EXCEPT ![i].stage = st] \in [Call -> Slot]
       /\ [f EXCEPT ![i].stage = st, ![i].out = o] \in [Call -> Slot]
       /\ [f EXCEPT ![i].stage = st, ![i].terminate = t] \in [Call -> Slot]
  <1>1. NoSlots \in [Call -> Slot]
    BY DEF NoSlots, Slot, Stage, ToolOutcome
  <1>2. ASSUME NEW f \in [Call -> Slot], NEW i \in Call, NEW st \in Stage,
               NEW o \in ToolOutcome, NEW t \in BOOLEAN
        PROVE  /\ [f EXCEPT ![i].stage = st] \in [Call -> Slot]
               /\ [f EXCEPT ![i].stage = st, ![i].out = o] \in [Call -> Slot]
               /\ [f EXCEPT ![i].stage = st, ![i].terminate = t]
                    \in [Call -> Slot]
    <2>1. f[i] \in Slot
      OBVIOUS
    <2>2. [f[i] EXCEPT !.stage = st] \in Slot
      BY <2>1 DEF Slot
    <2>3. [f[i] EXCEPT !.stage = st, !.out = o] \in Slot
      BY <2>1 DEF Slot
    <2>4. [f[i] EXCEPT !.stage = st, !.terminate = t] \in Slot
      BY <2>1 DEF Slot
    <2> QED BY <2>2, <2>3, <2>4
  <1> QED BY <1>1, <1>2

\* The identities of user messages are numbers.
LEMMA IdsType ==
  ASSUME NEW s \in Seq(Message) PROVE IdsOf(s) \subseteq Nat
  <1>1. \A m \in Message : m.role = "user" => m.id \in Nat
    BY DEF Message, UserMessage, AssistantMessage, ToolResultMessage
  <1> QED BY <1>1 DEF IdsOf

LEMMA TypeInit == Init => TypeInv
  <1> SUFFICES ASSUME Init PROVE TypeInv
    OBVIOUS
  <1>1. runtime \in RuntimeState /\ slot \in [Call -> Slot]
    BY RuntimeTypes, SlotTypes DEF Init
  <1>2. batch \in [exec : ExecutionMode, n : 0..MaxCalls]
    BY BoundsAssumption DEF Init, NoBatch, ExecutionMode
  <1>3. nextId \in Nat \ {0} /\ openTurns \in Int /\ budget \in Nat
    BY BoundsAssumption DEF Init
  <1>4. /\ messages \in Seq(Message) /\ context \in Seq(Message)
        /\ newMessages \in Seq(Message) /\ pending \in Seq(UserMessage)
        /\ steering \in Seq(UserMessage) /\ followUp \in Seq(UserMessage)
    BY DEF Init
  <1>5. /\ hasMore \in BOOLEAN /\ started \in BOOLEAN /\ firstTurn \in BOOLEAN
        /\ cancelled \in BOOLEAN /\ StreamShape
    BY DEF Init, StreamShape
  <1>6. /\ phase \in Phase /\ discarded \in SUBSET Nat
        /\ outcome \in {"none", "ok", "err"}
        /\ mode \in [steering : Mode, followUp : Mode]
    BY DEF Init, Phase
  <1> QED
    BY <1>1, <1>2, <1>3, <1>4, <1>5, <1>6 DEF TypeInv, TypeOK, RuntimeState

\* Steps of other tasks.
LEMMA TypeOthers == TypeInv /\ Others => TypeInv'
  <1> SUFFICES ASSUME TypeInv, Others PROVE TypeInv'
    OBVIOUS
  <1>0. ASSUME OtherTask, steering' \in Seq(UserMessage),
               followUp' \in Seq(UserMessage), nextId' \in Nat \ {0},
               discarded' \in SUBSET Nat, cancelled' \in BOOLEAN
        PROVE  TypeInv'
    BY <1>0 DEF OtherTask, TypeInv, TypeOK, StreamShape, Partial, transcript,
                loop, tools, observed
  <1>1. /\ IdsOf(steering) \subseteq Nat /\ IdsOf(followUp) \subseteq Nat
        /\ IdsOf(messages) \subseteq Nat
    BY IdsType, UserSeq DEF TypeInv, TypeOK
  <1>2. /\ steering \in Seq(UserMessage) /\ followUp \in Seq(UserMessage)
        /\ nextId \in Nat \ {0} /\ discarded \in SUBSET Nat
        /\ cancelled \in BOOLEAN
    BY DEF TypeInv, TypeOK
  <1>3. CASE Steer
    BY <1>0, <1>2, <1>3, MessageTypes DEF Steer
  <1>4. CASE FollowUp
    BY <1>0, <1>2, <1>4, MessageTypes DEF FollowUp
  <1>5. CASE ClearSteeringQueue
    <2>1. discarded' = discarded \cup IdsOf(steering) /\ steering' = <<>>
      BY <1>5 DEF ClearSteeringQueue
    <2>2. discarded' \in SUBSET Nat
      BY <1>1, <1>2, <2>1
    <2>3. steering' \in Seq(UserMessage)
      BY <2>1
    <2> QED BY <1>0, <1>2, <1>5, <2>2, <2>3 DEF ClearSteeringQueue
  <1>6. CASE ClearFollowUpQueue
    <2>1. discarded' = discarded \cup IdsOf(followUp) /\ followUp' = <<>>
      BY <1>6 DEF ClearFollowUpQueue
    <2>2. discarded' \in SUBSET Nat
      BY <1>1, <1>2, <2>1
    <2>3. followUp' \in Seq(UserMessage)
      BY <2>1
    <2> QED BY <1>0, <1>2, <1>6, <2>2, <2>3 DEF ClearFollowUpQueue
  <1>7. CASE Abort
    BY <1>0, <1>2, <1>7 DEF Abort, queues, inputs
  <1>8. CASE Reset
    <2>1. runtime' \in RuntimeState
      BY <1>8, RuntimeTypes DEF Reset
    <2>2. discarded' \in SUBSET Nat
      BY <1>1, <1>2, <1>8 DEF Reset
    <2>3. ~started
      BY <1>8 DEF Reset, TypeInv, StreamShape
    <2>4. /\ messages' \in Seq(Message) /\ context' \in Seq(Message)
          /\ newMessages' \in Seq(Message)
          /\ steering' \in Seq(UserMessage) /\ followUp' \in Seq(UserMessage)
          /\ outcome' \in {"none", "ok", "err"}
      BY <1>8 DEF Reset
    <2> QED BY <1>8, <2>1, <2>2, <2>3, <2>4
               DEF Reset, TypeInv, TypeOK, StreamShape, RuntimeState, loop,
                   tools
  <1>9. CASE SetMode
    BY <1>9 DEF SetMode, TypeInv, TypeOK, StreamShape, Partial, transcript,
                loop, tools, queues, inputs, observed
  <1> QED
    BY <1>3, <1>4, <1>5, <1>6, <1>7, <1>8, <1>9 DEF Others

\* The entry points.
LEMMA TypeEntry == TypeInv /\ Entry => TypeInv'
  <1> SUFFICES ASSUME TypeInv, Entry PROVE TypeInv'
    OBVIOUS
  <1>0. ASSUME NEW prompts \in Seq(UserMessage),
               NEW first \in {"poll", "inject"}, StartRun(prompts, first),
               steering' \in Seq(UserMessage), followUp' \in Seq(UserMessage),
               nextId' \in Nat \ {0}
        PROVE  TypeInv'
    <2>1. runtime' \in RuntimeState
      BY <1>0, RuntimeTypes DEF StartRun
    <2>2. prompts \in Seq(Message) /\ context' \in Seq(Message)
      BY <1>0, UserSeq DEF StartRun, TypeInv, TypeOK
    <2>3. /\ phase' \in Phase /\ pending' \in Seq(UserMessage)
          /\ newMessages' \in Seq(Message) /\ openTurns' \in Int
          /\ outcome' \in {"none", "ok", "err"}
      BY <1>0, <2>2 DEF StartRun, Phase
    <2>4. /\ hasMore' \in BOOLEAN /\ started' \in BOOLEAN
          /\ firstTurn' \in BOOLEAN /\ cancelled' \in BOOLEAN
          /\ StreamShape'
      BY <1>0 DEF StartRun, StreamShape
    <2> QED
      BY <1>0, <2>1, <2>2, <2>3, <2>4 DEF StartRun, TypeInv, TypeOK,
                                          RuntimeState, tools
  <1>1. /\ steering \in Seq(UserMessage) /\ followUp \in Seq(UserMessage)
        /\ nextId \in Nat \ {0}
    BY DEF TypeInv, TypeOK
  <1>2. CASE Prompt
    <2>1. <<User("prompt", nextId)>> \in Seq(UserMessage)
      BY <1>1, MessageTypes
    <2>2. nextId' \in Nat \ {0}
      BY <1>1, <1>2 DEF Prompt
    <2> QED BY <1>0, <1>1, <1>2, <2>1, <2>2 DEF Prompt, queues
  <1>3. CASE ContinueWithSteering
    BY <1>0, <1>1, <1>3, DrainType DEF ContinueWithSteering
  <1>4. CASE ContinueWithFollowUp
    BY <1>0, <1>1, <1>4, DrainType DEF ContinueWithFollowUp
  <1>5. CASE RunContinuation
    <2>1. <<>> \in Seq(UserMessage)
      OBVIOUS
    <2> QED BY <1>0, <1>1, <1>5, <2>1 DEF RunContinuation, queues
  <1> QED
    BY <1>2, <1>3, <1>4, <1>5 DEF Entry

\* The steps of one tool call.
LEMMA TypeTool == TypeInv /\ (\E i \in Call : Tool(i)) => TypeInv'
  <1> SUFFICES ASSUME TypeInv, NEW i \in Call, Tool(i) PROVE TypeInv'
    OBVIOUS
  <1>0. ASSUME ToolFrame, slot' \in [Call -> Slot], runtime' \in RuntimeState
        PROVE  TypeInv'
    BY <1>0 DEF ToolFrame, TypeInv, TypeOK, StreamShape, Partial, transcript,
                loop, queues, inputs, RuntimeState
  <1>1. slot \in [Call -> Slot] /\ runtime \in RuntimeState
    BY DEF TypeInv, TypeOK, RuntimeState
  <1>2. /\ {"preparing", "prepared", "immediate", "executing", "executed",
            "ended"} \subseteq Stage
        /\ {"ok", "error", "aborted"} = ToolOutcome
    BY DEF Stage, ToolOutcome
  <1>3. CASE BeginTool(i)
    BY <1>0, <1>1, <1>2, <1>3, SlotTypes, RuntimeTypes DEF BeginTool
  <1>4. CASE PrepareTool(i)
    <2>1. slot' \in [Call -> Slot]
      <3>1. /\ [slot EXCEPT ![i].stage = "prepared"] \in [Call -> Slot]
            /\ [slot EXCEPT ![i].stage = "immediate", ![i].out = "error"]
                 \in [Call -> Slot]
        BY <1>1, <1>2, SlotTypes
      <3> QED BY <1>4, <3>1 DEF PrepareTool
    <2> QED BY <1>0, <1>1, <1>4, <2>1 DEF PrepareTool
  <1>5. CASE StartTool(i)
    BY <1>0, <1>1, <1>2, <1>5, SlotTypes DEF StartTool
  <1>6. CASE ToolReturns(i)
    <2>1. PICK o \in {"ok", "error"} :
            slot' = [slot EXCEPT ![i].stage = "executed", ![i].out = o]
      BY <1>6 DEF ToolReturns
    <2>2. slot' \in [Call -> Slot]
      BY <1>1, <1>2, <2>1, SlotTypes
    <2> QED BY <1>0, <1>1, <1>6, <2>2 DEF ToolReturns
  <1>7. CASE AbortTool(i)
    BY <1>0, <1>1, <1>2, <1>7, SlotTypes DEF AbortTool
  <1>8. CASE EndTool(i)
    <2>1. PICK t \in BOOLEAN :
            slot' = [slot EXCEPT ![i].stage = "ended", ![i].terminate = t]
      BY <1>8 DEF EndTool
    <2>2. slot' \in [Call -> Slot]
      BY <1>1, <1>2, <2>1, SlotTypes
    <2>3. runtime' \in RuntimeState
      BY <1>1, <1>8, RuntimeTypes DEF EndTool
    <2> QED BY <1>0, <1>8, <2>2, <2>3 DEF EndTool
  <1> QED
    BY <1>3, <1>4, <1>5, <1>6, <1>7, <1>8 DEF Tool

\* Where a message of the model goes in the context.
LEMMA PutType ==
  ASSUME TypeInv, NEW m \in Message
  PROVE  Put(m) \in Seq(Message) /\ Put(m) # <<>> /\ Put(m)[Len(Put(m))] = m
  <1>1. CASE started
    BY <1>1, ReplaceLast DEF Put, TypeInv, TypeOK, StreamShape
  <1>2. CASE ~started
    <2>1. context \in Seq(Message)
      BY DEF TypeInv, TypeOK
    <2> QED BY <1>2, <2>1, AppendLast DEF Put
  <1> QED BY <1>1, <1>2

\* The end of a run that returns Ok.
LEMMA TypeFinishOk ==
  ASSUME TypeInv, NEW final \in Seq(Message), NEW err \in BOOLEAN,
         FinishOk(final, err), newMessages' \in Seq(Message),
         openTurns' \in Int, followUp' \in Seq(UserMessage),
         UNCHANGED <<tools, steering, inputs, mode, cancelled, budget>>
  PROVE  TypeInv'
  <1>1. runtime' \in RuntimeState
    BY RuntimeTypes DEF FinishOk
  <1>2. /\ phase' \in Phase /\ outcome' \in {"none", "ok", "err"}
        /\ messages' \in Seq(Message) /\ context' \in Seq(Message)
        /\ pending' \in Seq(UserMessage)
    BY DEF FinishOk, DropLocals, Phase
  <1>3. /\ hasMore' \in BOOLEAN /\ started' \in BOOLEAN
        /\ firstTurn' \in BOOLEAN /\ StreamShape'
    BY DEF FinishOk, DropLocals, StreamShape
  <1> QED BY <1>1, <1>2, <1>3 DEF TypeInv, TypeOK, RuntimeState, tools, inputs

\* Concatenating messages.
LEMMA ConcatType ==
  ASSUME NEW S, NEW s \in Seq(S), NEW t \in Seq(S) PROVE s \o t \in Seq(S)
  OBVIOUS

LEMMA AppendType ==
  ASSUME NEW S, NEW s \in Seq(S), NEW x \in S PROVE Append(s, x) \in Seq(S)
  OBVIOUS

\* The events of the model stream.
LEMMA TypeStream == TypeInv /\ Stream => TypeInv'
  <1> SUFFICES ASSUME TypeInv, Stream PROVE TypeInv'
    OBVIOUS
  <1>0. /\ newMessages \in Seq(Message) /\ openTurns \in Int
        /\ followUp \in Seq(UserMessage) /\ runtime \in RuntimeState
        /\ budget \in Nat
    BY DEF TypeInv, TypeOK, RuntimeState
  <1>1. ASSUME NEW n \in 0..MaxCalls, phase = "stream",
               context' = Put(Assistant("Partial", n)), started' = TRUE,
               runtime' = [runtime EXCEPT !.streamingMessage =
                                            Assistant("Partial", n)],
               UNCHANGED <<phase, messages, newMessages, pending, hasMore,
                           firstTurn, tools, queues, inputs, openTurns,
                           outcome, mode, cancelled, budget>>
        PROVE  TypeInv'
    <2>1. Assistant("Partial", n) \in AssistantMessage /\
          Assistant("Partial", n) \in Message
      BY MessageTypes
    <2>2. /\ context' \in Seq(Message) /\ context' # <<>>
          /\ context'[Len(context')] = Assistant("Partial", n)
      BY <1>1, <2>1, PutType
    <2>3. runtime' \in RuntimeState
      BY <1>0, <1>1, <2>1, RuntimeTypes
    <2>4. StreamShape' /\ started' \in BOOLEAN
      BY <1>1, <2>1, <2>2 DEF StreamShape, Partial
    <2> QED BY <1>1, <2>2, <2>3, <2>4 DEF TypeInv, TypeOK, RuntimeState,
                                          tools, queues, inputs
  <1>2. CASE StreamStart
    BY <1>1, <1>2, BoundsAssumption DEF StreamStart
  <1>3. CASE StreamDelta
    <2>1. Partial \in AssistantMessage
      BY <1>3 DEF StreamDelta, TypeInv, StreamShape
    <2>2. Partial.calls + 1 \in 0..MaxCalls
      BY <1>3, <2>1, BoundsAssumption DEF StreamDelta, AssistantMessage
    <2> QED BY <1>1, <1>3, <2>2 DEF StreamDelta, loop
  <1>4. ASSUME NEW n \in 0..MaxCalls, NEW s \in Failure, StreamFails(s, n)
        PROVE  TypeInv'
    <2>1. Assistant(s, n) \in Message
      BY MessageTypes DEF Failure
    <2>2. Put(Assistant(s, n)) \in Seq(Message)
      BY <2>1, PutType
    <2>3. newMessages' \in Seq(Message)
      BY <1>0, <1>4, <2>1, AppendType DEF StreamFails
    <2>4. openTurns' \in Int /\ followUp' \in Seq(UserMessage)
      BY <1>0, <1>4 DEF StreamFails, queues
    <2> QED BY <1>4, <2>2, <2>3, <2>4, TypeFinishOk DEF StreamFails, queues
  <1>5. ASSUME NEW n \in 0..MaxCalls, NEW s \in Complete, StreamDone(s, n)
        PROVE  TypeInv'
    <2> DEFINE results == IF s = "Length" THEN TruncatedResults(n) ELSE <<>>
    <2>1. Assistant(s, n) \in Message
      BY MessageTypes DEF Complete
    <2>2. results \in Seq(Message)
      <3>1. \A i \in 1..n : ToolResult(i, "error") \in Message
        BY MessageTypes, BoundsAssumption DEF Call, ToolOutcome
      <3>2. TruncatedResults(n) \in Seq(Message)
        BY <3>1 DEF TruncatedResults
      <3> QED BY <3>2
    <2>3. context' \in Seq(Message)
      BY <1>5, <2>1, <2>2, PutType, ConcatType DEF StreamDone
    <2>4. newMessages' \in Seq(Message)
      BY <1>0, <1>5, <2>1, <2>2, AppendType, ConcatType DEF StreamDone
    <2>5. runtime' \in RuntimeState
      BY <1>0, <1>5, RuntimeTypes DEF StreamDone
    <2>6. budget' \in Nat
      BY <1>0, <1>5 DEF StreamDone
    <2>7. phase' \in Phase /\ batch' \in [exec : ExecutionMode, n : 0..MaxCalls]
      BY <1>5 DEF StreamDone, Phase, TypeInv, TypeOK
    <2>8. started' \in BOOLEAN /\ StreamShape'
      BY <1>5 DEF StreamDone, StreamShape
    <2>9. hasMore' \in BOOLEAN
      <3>1. hasMore \in BOOLEAN
        BY DEF TypeInv, TypeOK
      <3>2. hasMore' = hasMore \/ hasMore' = (n > 0)
        BY <1>5 DEF StreamDone
      <3>3. (n > 0) \in BOOLEAN
        OBVIOUS
      <3> QED BY <3>1, <3>2, <3>3, Zenon
    <2> QED
      BY <1>5, <2>3, <2>4, <2>5, <2>6, <2>7, <2>8, <2>9
         DEF StreamDone, TypeInv, TypeOK, RuntimeState, queues, inputs
  <1> QED
    BY <1>2, <1>3, <1>4, <1>5 DEF Stream, Ends

\* The steps of run_loop itself.
LEMMA TypeLoop == TypeInv /\ Loop => TypeInv'
  <1> SUFFICES ASSUME TypeInv, Loop PROVE TypeInv'
    OBVIOUS
  <1>0. /\ newMessages \in Seq(Message) /\ context \in Seq(Message)
        /\ openTurns \in Int /\ runtime.error \in BOOLEAN
        /\ steering \in Seq(UserMessage) /\ followUp \in Seq(UserMessage)
        /\ pending \in Seq(UserMessage) /\ pending \in Seq(Message)
    BY UserSeq DEF TypeInv, TypeOK
  <1>1. CASE PollSteering
    <2>1. pending' \in Seq(UserMessage) /\ steering' \in Seq(UserMessage)
      BY <1>0, <1>1, DrainType DEF PollSteering
    <2>2. phase' \in Phase
      BY <1>1 DEF PollSteering, Phase
    <2>3. StreamShape'
      BY <1>1 DEF PollSteering, TypeInv, StreamShape
    <2> QED BY <1>1, <2>1, <2>2, <2>3
               DEF PollSteering, TypeInv, TypeOK, transcript, tools, inputs,
                   observed
  <1>2. CASE InjectPending
    <2>1. /\ context' \in Seq(Message) /\ newMessages' \in Seq(Message)
          /\ pending' \in Seq(UserMessage)
      BY <1>0, <1>2, ConcatType DEF InjectPending
    <2>2. phase' \in Phase /\ openTurns' \in Int
      BY <1>0, <1>2 DEF InjectPending, Phase
    <2>3. firstTurn' \in BOOLEAN /\ StreamShape'
      BY <1>2 DEF InjectPending, TypeInv, StreamShape
    <2> QED BY <1>2, <2>1, <2>2, <2>3
               DEF InjectPending, TypeInv, TypeOK, tools, queues, inputs
  <1>3. CASE RequestAborted
    <2>1. Assistant("Aborted", 0) \in Message
      BY MessageTypes, BoundsAssumption DEF Failure
    <2>2. /\ Append(context, Assistant("Aborted", 0)) \in Seq(Message)
          /\ newMessages' \in Seq(Message)
      BY <1>0, <1>3, <2>1, AppendType DEF RequestAborted
    <2>3. openTurns' \in Int
      BY <1>0, <1>3 DEF RequestAborted
    <2> QED BY <1>0, <1>3, <2>2, <2>3, TypeFinishOk DEF RequestAborted, queues
  <1>4. CASE Request
    BY <1>4 DEF Request, TypeInv, TypeOK, StreamShape, Partial, Phase,
                transcript, loop, tools, queues, inputs, observed
  <1>5. CASE EndBatch
    <2> DEFINE results == [i \in Calls |-> ToolResult(i, slot[i].out)]
    <2>1. batch.n \in 0..MaxCalls
      BY DEF TypeInv, TypeOK
    <2>2. \A i \in Calls : ToolResult(i, slot[i].out) \in Message
      BY <2>1, MessageTypes, BoundsAssumption
         DEF Calls, Call, Slot, TypeInv, TypeOK
    <2>3. results \in Seq(Message)
      BY <2>1, <2>2 DEF Calls
    <2>4. context' \in Seq(Message) /\ newMessages' \in Seq(Message)
      BY <1>0, <1>5, <2>3, ConcatType DEF EndBatch
    <2>5. /\ slot' \in [Call -> Slot]
          /\ batch' \in [exec : ExecutionMode, n : 0..MaxCalls]
      BY <1>5, SlotTypes, BoundsAssumption
         DEF EndBatch, NoBatch, ExecutionMode
    <2>6. phase' \in Phase
      BY <1>5 DEF EndBatch, Phase
    <2>7. hasMore' \in BOOLEAN /\ StreamShape'
      BY <1>5 DEF EndBatch, TypeInv, StreamShape
    <2> QED BY <1>5, <2>4, <2>5, <2>6, <2>7
               DEF EndBatch, TypeInv, TypeOK, queues, inputs, observed
  <1>6. CASE TurnEndStop
    <2>1. openTurns' \in Int
      BY <1>0, <1>6 DEF TurnEndStop
    <2> QED BY <1>0, <1>6, <2>1, TypeFinishOk DEF TurnEndStop, queues
  <1>7. CASE TurnEndContinue
    <2>1. phase' \in Phase /\ openTurns' \in Int
      BY <1>0, <1>7 DEF TurnEndContinue, Phase
    <2>2. StreamShape'
      BY <1>7 DEF TurnEndContinue, TypeInv, StreamShape, loop
    <2> QED BY <1>7, <2>1, <2>2
               DEF TurnEndContinue, TypeInv, TypeOK, transcript, loop, tools,
                   queues, inputs
  <1>8. CASE PollFollowUp
    <2>1. CASE cancelled \/ followUp = <<>>
      BY <1>0, <1>8, <2>1, TypeFinishOk DEF PollFollowUp
    <2>2. CASE ~cancelled /\ followUp # <<>>
      <3>1. pending' \in Seq(UserMessage) /\ followUp' \in Seq(UserMessage)
        BY <1>0, <1>8, <2>2, DrainType DEF PollFollowUp
      <3>2. phase' \in Phase
        BY <1>8, <2>2 DEF PollFollowUp, Phase
      <3>3. ~started /\ started' = started
        BY <1>8, <2>2 DEF PollFollowUp, TypeInv, StreamShape
      <3>4. hasMore' \in BOOLEAN /\ StreamShape'
        BY <1>8, <2>2, <3>3 DEF PollFollowUp, StreamShape
      <3> QED BY <1>8, <2>2, <3>1, <3>2, <3>3, <3>4
                 DEF PollFollowUp, TypeInv, TypeOK, tools, inputs
    <2> QED BY <2>1, <2>2
  <1>9. CASE FinishErr
    <2>1. \A s \in {"Aborted", "Error"} : Assistant(s, 0) \in Message
      BY MessageTypes, BoundsAssumption DEF Failure
    <2>2. messages' \in Seq(Message) /\ context' \in Seq(Message)
      BY <1>0, <1>9, <2>1, AppendType DEF FinishErr
    <2>3. runtime' \in RuntimeState
      BY <1>9, RuntimeTypes DEF FinishErr
    <2>4. /\ phase' \in Phase /\ outcome' \in {"none", "ok", "err"}
          /\ pending' \in Seq(UserMessage)
      BY <1>9 DEF FinishErr, DropLocals, Phase
    <2>5. /\ hasMore' \in BOOLEAN /\ started' \in BOOLEAN
          /\ firstTurn' \in BOOLEAN /\ StreamShape'
      BY <1>9 DEF FinishErr, DropLocals, StreamShape
    <2> QED BY <1>9, <2>2, <2>3, <2>4, <2>5
               DEF FinishErr, TypeInv, TypeOK, RuntimeState, tools, queues,
                   inputs
  <1> QED
    BY <1>1, <1>2, <1>3, <1>4, <1>5, <1>6, <1>7, <1>8, <1>9 DEF Loop

LEMMA TypeStep == TypeInv /\ [Next]_vars => TypeInv'
  <1>1. TypeInv /\ UNCHANGED vars => TypeInv'
    BY DEF TypeInv, TypeOK, StreamShape, Partial, vars, transcript, loop,
           tools, queues, inputs, observed
  <1> QED BY <1>1, TypeOthers, TypeEntry, TypeTool, TypeStream, TypeLoop DEF Next

\* Every variable keeps its type, for every bound.
THEOREM TypeCorrect == Spec => []TypeOK
  <1>1. TypeInv => TypeOK
    BY DEF TypeInv
  <1> QED BY <1>1, TypeInit, TypeStep, PTL DEF Spec

----------------------------------------------------------------------------
(* What a run returns is what it added to the transcript. *)

\* More lemmas about sequences.
LEMMA AppendConcat ==
  \A s, t \in Seq(Message) : \A x \in Message :
    Append(s \o t, x) = s \o Append(t, x)
  <1> SUFFICES ASSUME NEW s \in Seq(Message), NEW t \in Seq(Message),
                      NEW x \in Message
               PROVE  Append(s \o t, x) = s \o Append(t, x)
    OBVIOUS
  <1> QED OBVIOUS

LEMMA ConcatMessages ==
  \A s, t, u \in Seq(Message) : (s \o t) \o u = s \o (t \o u)
  BY ConcatAssociative

LEMMA ReplaceAppended ==
  ASSUME NEW S, NEW s \in Seq(S), NEW t \in Seq(S), NEW x \in S, NEW y \in S
  PROVE  [(s \o Append(t, x)) EXCEPT ![Len(s \o Append(t, x))] = y]
           = s \o Append(t, y)
  <1> DEFINE c == s \o Append(t, x)
             d == [c EXCEPT ![Len(c)] = y]
             e == s \o Append(t, y)
  <1>1. c \in Seq(S) /\ Len(c) = Len(s) + Len(t) + 1
    OBVIOUS
  <1>2. e \in Seq(S) /\ Len(e) = Len(s) + Len(t) + 1
    OBVIOUS
  <1>3. \A k \in 1..(Len(s) + Len(t)) : c[k] = e[k]
    OBVIOUS
  <1>4. e[Len(e)] = y
    OBVIOUS
  <1> HIDE DEF c, e
  <1>5. /\ d \in Seq(S) /\ Len(d) = Len(c)
        /\ \A k \in 1..Len(c) : d[k] = IF k = Len(c) THEN y ELSE c[k]
    BY <1>1, ExceptSeq
  <1> HIDE DEF d
  <1>6. \A k \in 1..Len(d) : d[k] = e[k]
    BY <1>1, <1>2, <1>3, <1>4, <1>5
  <1>7. d = e
    BY <1>1, <1>2, <1>5, <1>6, SeqEqual
  <1> QED BY <1>7 DEF c, d, e

\* The messages the run has put in the context: those it will return and,
\* while the model streams, the partial message that ends the context.
Added == IF started THEN Append(newMessages, Partial) ELSE newMessages

\* The loop works on a copy of the transcript, which it only extends.
RunInv ==
  /\ TypeInv
  /\ phase = "idle" => context = messages
  /\ phase # "idle" => context = messages \o Added

\* A message of the model extends what was there before the stream.
LEMMA PutAdds ==
  ASSUME RunInv, phase = "stream", NEW m \in Message
  PROVE  Put(m) = messages \o Append(newMessages, m)
  <1>1. messages \in Seq(Message) /\ newMessages \in Seq(Message)
    BY DEF RunInv, TypeInv, TypeOK
  <1>2. CASE started
    <2>1. Partial \in Message
      BY <1>2, MessageTypes DEF RunInv, TypeInv, StreamShape
    <2>2. context = messages \o Append(newMessages, Partial)
      BY <1>2 DEF RunInv, Added
    <2>3. Put(m) = [context EXCEPT ![Len(context)] = m]
      BY <1>2 DEF Put
    <2> HIDE DEF Partial
    <2> QED BY <1>1, <2>1, <2>2, <2>3, ReplaceAppended
  <1>3. CASE ~started
    <2>1. context = messages \o newMessages
      BY <1>3 DEF RunInv, Added
    <2>2. Append(messages \o newMessages, m) = messages \o Append(newMessages, m)
      BY <1>1
    <2> QED BY <1>3, <2>1, <2>2 DEF Put
  <1> QED BY <1>2, <1>3

LEMMA RunInit == Init => RunInv
  BY TypeInit DEF Init, RunInv

\* Before and after a step: the transcript the agent keeps changes only when
\* the run ends, and the context grows by what the run will return.
Extends ==
  /\ messages' = messages
  /\ context' = messages \o Added'

Ended ==
  /\ phase' = "idle"
  /\ context' = messages'
  /\ \/ /\ outcome' = "ok"
        /\ messages' = messages \o newMessages'
     \/ /\ outcome' = "err"
        /\ newMessages' = newMessages
        /\ messages' = (messages \o newMessages) \o
                         <<messages'[Len(messages')]>>
        /\ messages'[Len(messages')].stop \in Failure

\* One step of a run, by the parts of Next.
LEMMA RunSteps ==
  ASSUME RunInv, phase # "idle", Stream \/ Loop \/ \E i \in Call : Tool(i)
  PROVE  (phase' # "idle" /\ Extends) \/ Ended
  <1>0. /\ messages \in Seq(Message) /\ newMessages \in Seq(Message)
        /\ context \in Seq(Message) /\ pending \in Seq(Message)
        /\ context = messages \o Added
        /\ phase # "stream" => ~started
        /\ phase # "stream" => context = messages \o newMessages
    BY UserSeq DEF RunInv, TypeInv, TypeOK, StreamShape, Added
  <1>1. ASSUME NEW i \in Call, Tool(i) PROVE phase' # "idle" /\ Extends
    <2>1. ToolFrame
      BY <1>1 DEF Tool, BeginTool, PrepareTool, StartTool, ToolReturns,
                  AbortTool, EndTool
    <2> QED BY <1>0, <2>1 DEF ToolFrame, transcript, loop, Extends, Added,
                              Partial
  <1>2. ASSUME NEW m \in Message, phase = "stream", context' = Put(m),
               started', newMessages' = newMessages
        PROVE  context' = messages \o Added'
    <2>1. context' = messages \o Append(newMessages, m)
      BY <1>2, PutAdds
    <2>2. Partial' = m
      BY <1>2, PutType DEF RunInv, Partial
    <2> QED BY <1>2, <2>1, <2>2 DEF Added
  <1>3. CASE StreamStart
    <2>1. Assistant("Partial", 0) \in Message
      BY MessageTypes, BoundsAssumption
    <2> QED BY <1>2, <1>3, <2>1 DEF StreamStart, Extends
  <1>4. CASE StreamDelta
    <2>1. Partial \in AssistantMessage
      BY <1>4 DEF StreamDelta, RunInv, TypeInv, StreamShape
    <2>2. Partial.calls + 1 \in 0..MaxCalls
      BY <1>4, <2>1, BoundsAssumption DEF StreamDelta, AssistantMessage
    <2>3. Assistant("Partial", Partial.calls + 1) \in Message
      BY <2>2, MessageTypes
    <2> QED BY <1>2, <1>4, <2>3 DEF StreamDelta, Extends, loop
  <1>5. ASSUME NEW n \in 0..MaxCalls, NEW s \in Failure, StreamFails(s, n)
        PROVE  Ended
    <2>1. Assistant(s, n) \in Message
      BY MessageTypes
    <2> QED BY <1>5, <2>1, PutAdds DEF StreamFails, FinishOk, Ended
  <1>6. ASSUME NEW n \in 0..MaxCalls, NEW s \in Complete, StreamDone(s, n)
        PROVE  phase' # "idle" /\ Extends
    <2> DEFINE results == IF s = "Length" THEN TruncatedResults(n) ELSE <<>>
    <2>1. Assistant(s, n) \in Message
      BY MessageTypes
    <2>2. results \in Seq(Message)
      <3>1. \A i \in 1..n : ToolResult(i, "error") \in Message
        BY MessageTypes, BoundsAssumption DEF Call, ToolOutcome
      <3>2. TruncatedResults(n) \in Seq(Message)
        BY <3>1 DEF TruncatedResults
      <3> QED BY <3>2
    <2>3. context' = (messages \o Append(newMessages, Assistant(s, n))) \o
                       results
      BY <1>6, <2>1, PutAdds DEF StreamDone
    <2>4. newMessages' = Append(newMessages, Assistant(s, n)) \o results
      BY <1>6 DEF StreamDone
    <2>5. Append(newMessages, Assistant(s, n)) \in Seq(Message)
      BY <1>0, <2>1
    <2> DEFINE kept == Append(newMessages, Assistant(s, n))
    <2> HIDE DEF results, kept
    <2>6. (messages \o kept) \o results = messages \o (kept \o results)
      <3>1. kept \in Seq(Message)
        BY <2>5 DEF kept
      <3>2. messages \in Seq(Message)
        BY <1>0
      <3>3. results \in Seq(Message)
        BY <2>2
      <3> QED BY <3>1, <3>2, <3>3, ConcatMessages, Zenon
    <2>7. context' = messages \o newMessages'
      BY <2>3, <2>4, <2>6 DEF kept
    <2> QED BY <1>6, <2>7 DEF StreamDone, Extends, Added
  <1>7. CASE PollSteering
    BY <1>0, <1>7 DEF PollSteering, Extends, Added, transcript
  <1>8. CASE InjectPending
    <2>1. context = messages \o newMessages /\ ~started
      BY <1>0, <1>8 DEF InjectPending
    <2>2. context \o pending = messages \o (newMessages \o pending)
      BY <1>0, <2>1, ConcatAssociative
    <2> QED BY <1>8, <2>1, <2>2 DEF InjectPending, Extends, Added
  <1>9. CASE RequestAborted
    <2>1. Assistant("Aborted", 0) \in Message
      BY MessageTypes, BoundsAssumption DEF Failure
    <2>2. context = messages \o newMessages
      BY <1>0, <1>9 DEF RequestAborted
    <2>3. \A m \in Message :
            Append(messages \o newMessages, m) = messages \o Append(newMessages, m)
      BY <1>0, AppendConcat
    <2>4. Append(context, Assistant("Aborted", 0))
            = messages \o Append(newMessages, Assistant("Aborted", 0))
      BY <2>1, <2>2, <2>3
    <2> QED BY <1>9, <2>4 DEF RequestAborted, FinishOk, Ended
  <1>10. CASE Request
    BY <1>0, <1>10 DEF Request, Extends, Added, Partial, transcript, loop
  <1>11. CASE EndBatch
    <2> DEFINE results == [i \in Calls |-> ToolResult(i, slot[i].out)]
    <2>1. batch.n \in 0..MaxCalls
      BY DEF RunInv, TypeInv, TypeOK
    <2>2. \A i \in Calls : ToolResult(i, slot[i].out) \in Message
      BY <2>1, MessageTypes, BoundsAssumption
         DEF Calls, Call, Slot, RunInv, TypeInv, TypeOK
    <2>3. results \in Seq(Message)
      BY <2>1, <2>2 DEF Calls
    <2>4. context' = context \o results /\ newMessages' = newMessages \o results
      BY <1>11 DEF EndBatch
    <2> HIDE DEF results
    <2>5. context' = messages \o newMessages'
      <3>1. context = messages \o newMessages
        BY <1>0, <1>11 DEF EndBatch
      <3> QED BY <1>0, <2>3, <2>4, <3>1, ConcatAssociative
    <2> QED BY <1>0, <1>11, <2>5 DEF EndBatch, Extends, Added
  <1>12. CASE TurnEndStop
    BY <1>0, <1>12 DEF TurnEndStop, FinishOk, Ended
  <1>13. CASE TurnEndContinue
    BY <1>0, <1>13 DEF TurnEndContinue, Extends, Added, transcript, loop
  <1>14. CASE PollFollowUp
    <2>1. CASE cancelled \/ followUp = <<>>
      BY <1>0, <1>14, <2>1 DEF PollFollowUp, FinishOk, Ended
    <2>2. CASE ~cancelled /\ followUp # <<>>
      BY <1>0, <1>14, <2>2 DEF PollFollowUp, Extends, Added
    <2> QED BY <2>1, <2>2
  <1>15. CASE FinishErr
    <2> DEFINE m == Assistant(IF cancelled THEN "Aborted" ELSE "Error", 0)
    <2>1. m \in Message /\ m.stop \in Failure
      BY MessageTypes, BoundsAssumption DEF Failure, Assistant
    <2>2. messages' = Append(context, m)
      BY <1>15 DEF FinishErr
    <2> HIDE DEF m
    <2>3. messages'[Len(messages')] = m
      BY <1>0, <2>1, <2>2, AppendLast
    <2>4. messages' = (messages \o newMessages) \o <<m>>
      <3>1. context = messages \o newMessages
        BY <1>0, <1>15 DEF FinishErr
      <3>2. Append(context, m) = context \o <<m>>
        BY <1>0, <2>1
      <3> QED BY <2>2, <3>1, <3>2
    <2> QED BY <1>15, <2>1, <2>3, <2>4 DEF FinishErr, Ended
  <1> QED
    BY <1>1, <1>3, <1>4, <1>5, <1>6, <1>7, <1>8, <1>9, <1>10, <1>11, <1>12,
       <1>13, <1>14, <1>15 DEF Stream, Ends, Loop

\* Between runs nothing of a run happens, and an entry point starts one.
LEMMA IdleSteps ==
  ASSUME RunInv, phase = "idle", Stream \/ Loop \/ \E i \in Call : Tool(i)
  PROVE  FALSE
  BY DEF Stream, Ends, StreamStart, StreamDelta, StreamDone, StreamFails,
         Loop, PollSteering, InjectPending, RequestAborted, Request, EndBatch,
         TurnEndStop, TurnEndContinue, PollFollowUp, FinishErr, Tool,
         BeginTool, PrepareTool, StartTool, ToolReturns, AbortTool, EndTool,
         ToolFrame

LEMMA EntrySteps ==
  ASSUME RunInv, Entry
  PROVE  phase = "idle" /\ phase' # "idle" /\ Extends
  <1>1. ASSUME NEW prompts, NEW first \in {"poll", "inject"},
               StartRun(prompts, first)
        PROVE  phase = "idle" /\ phase' # "idle" /\ Extends
    BY <1>1 DEF StartRun, Extends, Added
  <1> QED
    BY <1>1 DEF Entry, Prompt, ContinueWithSteering, ContinueWithFollowUp,
                RunContinuation

\* Other tasks leave the transcript alone, except for a reset between runs.
LEMMA OtherSteps ==
  ASSUME RunInv, Others
  PROVE  /\ phase' = phase
         /\ \/ UNCHANGED <<messages, context, newMessages, started>>
            \/ phase = "idle" /\ context' = messages'
  BY DEF Others, Steer, FollowUp, ClearSteeringQueue, ClearFollowUpQueue,
         Abort, Reset, SetMode, OtherTask, transcript, loop

LEMMA RunStep == RunInv /\ [Next]_vars => RunInv'
  <1> SUFFICES ASSUME RunInv, [Next]_vars PROVE RunInv'
    OBVIOUS
  <1>1. TypeInv'
    BY TypeStep DEF RunInv
  <1>2. CASE Stream \/ Loop \/ \E i \in Call : Tool(i)
    <2>1. phase # "idle"
      BY <1>2, IdleSteps
    <2>2. (phase' # "idle" /\ Extends) \/ Ended
      BY <1>2, <2>1, RunSteps
    <2> QED BY <1>1, <2>2 DEF RunInv, Extends, Ended
  <1>3. CASE Entry
    BY <1>1, <1>3, EntrySteps DEF RunInv, Extends
  <1>4. CASE Others
    BY <1>1, <1>4, OtherSteps DEF RunInv, Added, Partial
  <1>5. CASE UNCHANGED vars
    BY <1>1, <1>5 DEF RunInv, Added, Partial, vars, transcript, loop
  <1> QED BY <1>2, <1>3, <1>4, <1>5 DEF Next

\* A run's result, from which callers persist the conversation, is exactly
\* what the run added to the agent's transcript.
THEOREM RunReturnsWhatItAdded == Spec => ReturnsWhatItAdded
  <1>1. RunInv /\ [Next]_vars =>
          [phase # "idle" /\ phase' = "idle" =>
             IF outcome' = "ok"
               THEN messages' = messages \o newMessages'
               ELSE /\ messages' = messages \o newMessages' \o
                                     <<messages'[Len(messages')]>>
                    /\ messages'[Len(messages')].stop \in Failure]_vars
    <2> SUFFICES ASSUME RunInv, Next, phase # "idle", phase' = "idle"
                 PROVE  IF outcome' = "ok"
                          THEN messages' = messages \o newMessages'
                          ELSE /\ messages' = messages \o newMessages' \o
                                                <<messages'[Len(messages')]>>
                               /\ messages'[Len(messages')].stop \in Failure
      OBVIOUS
    <2>1. CASE Stream \/ Loop \/ \E i \in Call : Tool(i)
      <3>1. Ended
        BY <2>1, RunSteps
      <3> QED BY <3>1 DEF Ended
    <2>2. CASE Entry
      BY <2>2, EntrySteps
    <2>3. CASE Others
      BY <2>3, OtherSteps
    <2> QED BY <2>1, <2>2, <2>3 DEF Next
  <1> QED BY <1>1, RunInit, RunStep, PTL DEF Spec, ReturnsWhatItAdded


----------------------------------------------------------------------------
(* Turns nest. *)

InTurn == {"request", "failed", "stream", "tools", "turnEnd"}

\* The turn that is open in each phase: the entry point opens the first one
\* and tells the loop by firstTurn, every other one is opened by the injection.
TurnInv ==
  /\ phase = "idle" => openTurns \in {0, 1} /\ (outcome = "ok" => openTurns = 0)
  /\ phase \in {"poll", "inject"} => openTurns = IF firstTurn THEN 1 ELSE 0
  /\ phase = "followUp" => openTurns = 0
  /\ phase \in InTurn => openTurns = 1
  /\ firstTurn => phase \in {"poll", "inject"}
  /\ phase = "poll" /\ firstTurn => hasMore

LEMMA TurnInit == Init => TurnInv
  BY DEF Init, TurnInv, InTurn

LEMMA TurnStep == TurnInv /\ phase \in Phase /\ [Next]_vars => TurnInv'
  <1> SUFFICES ASSUME TurnInv, phase \in Phase, [Next]_vars PROVE TurnInv'
    OBVIOUS
  <1> USE DEF TurnInv, InTurn
  <1>1. CASE Entry
    <2>1. ASSUME NEW prompts, NEW first \in {"poll", "inject"},
                 StartRun(prompts, first)
          PROVE  TurnInv'
      BY <2>1 DEF StartRun
    <2> QED
      BY <1>1, <2>1 DEF Entry, Prompt, ContinueWithSteering,
                        ContinueWithFollowUp, RunContinuation
  <1>2. CASE Stream
    <2>1. CASE StreamStart \/ StreamDelta
      BY <2>1 DEF StreamStart, StreamDelta, loop
    <2>2. ASSUME NEW n, NEW s, StreamDone(s, n) PROVE TurnInv'
      BY <2>2 DEF StreamDone
    <2>3. ASSUME NEW n, NEW s, StreamFails(s, n) PROVE TurnInv'
      BY <2>3 DEF StreamFails, FinishOk, DropLocals
    <2> QED BY <1>2, <2>1, <2>2, <2>3 DEF Stream, Ends
  <1>3. CASE \E i \in Call : Tool(i)
    <2>1. ToolFrame
      BY <1>3 DEF Tool, BeginTool, PrepareTool, StartTool, ToolReturns,
                  AbortTool, EndTool
    <2> QED BY <2>1 DEF ToolFrame, loop
  <1>4. CASE Loop
    <2>1. CASE PollSteering
      BY <2>1 DEF PollSteering, observed
    <2>2. CASE InjectPending
      BY <2>2 DEF InjectPending
    <2>3. CASE RequestAborted
      BY <2>3 DEF RequestAborted, FinishOk, DropLocals
    <2>4. CASE Request
      BY <2>4 DEF Request, loop, observed
    <2>5. CASE EndBatch
      BY <2>5 DEF EndBatch, observed
    <2>6. CASE TurnEndStop
      BY <2>6 DEF TurnEndStop, FinishOk, DropLocals
    <2>7. CASE TurnEndContinue
      BY <2>7 DEF TurnEndContinue, loop
    <2>8. CASE PollFollowUp
      BY <2>8 DEF PollFollowUp, FinishOk, DropLocals, observed
    <2>9. CASE FinishErr
      BY <2>9 DEF FinishErr, DropLocals
    <2> QED
      BY <1>4, <2>1, <2>2, <2>3, <2>4, <2>5, <2>6, <2>7, <2>8, <2>9 DEF Loop
  <1>5. CASE Others
    <2>1. CASE OtherTask
      BY <2>1 DEF OtherTask, loop, observed
    <2>2. CASE Reset
      BY <2>2 DEF Reset, loop
    <2>3. CASE SetMode
      BY <2>3 DEF SetMode, loop, observed
    <2> QED BY <1>5, <2>1, <2>2, <2>3
               DEF Others, Steer, FollowUp, ClearSteeringQueue,
                   ClearFollowUpQueue, Abort
  <1>6. CASE UNCHANGED vars
    BY <1>6 DEF vars, loop, observed
  <1> QED BY <1>1, <1>2, <1>3, <1>4, <1>5, <1>6 DEF Next

\* Listeners see turns that nest: TurnStart and TurnEnd alternate, and a run
\* that returns Ok leaves no turn open.
THEOREM RunTurnsNest == Spec => []TurnsNest
  <1>1. TypeOK => phase \in Phase
    BY DEF TypeOK
  <1>2. TurnInv /\ phase \in Phase => TurnsNest
    BY DEF TurnInv, TurnsNest, InTurn, Phase
  <1> QED BY <1>1, <1>2, TypeCorrect, TurnInit, TurnStep, PTL DEF Spec

----------------------------------------------------------------------------
(* The published state mirrors the run. *)

LastFailed(s) ==
  s # <<>> /\ s[Len(s)].role = "assistant" /\ s[Len(s)].stop \in Failure

\* Calls that have started and not ended.
Pending(f) == {i \in Call : f[i].stage \notin {"waiting", "ended"}}

\* What the reduction of events relies on: no error is published before the
\* run ends, the slots are clear outside a batch, and where the run may end by
\* itself the transcript does not end in a failed message.
MirrorInv ==
  /\ runtime.isStreaming <=> phase # "idle"
  /\ runtime.streamingMessage = IF started THEN Partial ELSE NoMessage
  /\ runtime.pendingToolCalls = Pending(slot)
  /\ phase # "tools" => slot = NoSlots
  /\ \A i \in Call \ Calls : slot[i].stage = "waiting"
  /\ phase = "idle" /\ outcome # "none" =>
       (runtime.error <=> LastFailed(messages))
  /\ phase # "idle" => ~runtime.error
  /\ phase \in {"tools", "turnEnd", "followUp"} => ~LastFailed(context)
  /\ phase = "poll" /\ ~hasMore => ~LastFailed(context)

LEMMA MirrorInit == Init => MirrorInv
  <1>1. \A i \in Call : NoSlots[i].stage = "waiting"
    BY DEF NoSlots
  <1> QED BY <1>1 DEF Init, MirrorInv, IdleRuntime, Pending

LEMMA NoPending == Pending(NoSlots) = {}
  BY DEF Pending, NoSlots

\* The mirror, from its parts.
LEMMA MirrorHolds == TypeInv /\ MirrorInv => RuntimeMirrorsRun
  <1> SUFFICES ASSUME TypeInv, MirrorInv PROVE RuntimeMirrorsRun
    OBVIOUS
  <1>1. runtime.isStreaming <=> phase # "idle"
    BY DEF MirrorInv
  <1>2. runtime.streamingMessage =
          IF phase = "stream" /\ started THEN Partial ELSE NoMessage
    BY DEF MirrorInv, TypeInv, StreamShape
  <1>3. runtime.pendingToolCalls =
          {i \in Call : phase = "tools" /\ slot[i].stage \notin
                                             {"waiting", "ended"}}
    <2>1. CASE phase = "tools"
      BY <2>1 DEF MirrorInv, Pending
    <2>2. CASE phase # "tools"
      BY <2>2, NoPending DEF MirrorInv
    <2> QED BY <2>1, <2>2
  <1>4. phase = "idle" /\ outcome # "none" =>
          (runtime.error <=> /\ LastRole = "assistant"
                             /\ messages[Len(messages)].stop \in Failure)
    BY DEF MirrorInv, LastFailed, LastRole
  <1> QED BY <1>1, <1>2, <1>3, <1>4 DEF RuntimeMirrorsRun

\* One step of a call: it begins, goes on or ends, and no other call moves.
Underway == {"preparing", "immediate", "prepared", "executing", "executed"}

LEMMA ToolStages ==
  ASSUME TypeInv, NEW i \in Call, Tool(i)
  PROVE  /\ ToolFrame /\ i \in Calls
         /\ slot' \in [Call -> Slot]
         /\ \A j \in Call \ {i} : slot'[j] = slot[j]
         /\ \/ /\ slot[i].stage = "waiting" /\ slot'[i].stage = "preparing"
               /\ runtime' = [runtime EXCEPT !.pendingToolCalls = @ \cup {i}]
            \/ /\ slot[i].stage \in Underway /\ slot'[i].stage \in Underway
               /\ runtime' = runtime
            \/ /\ slot[i].stage \in Underway /\ slot'[i].stage = "ended"
               /\ runtime' = [runtime EXCEPT !.pendingToolCalls = @ \ {i}]
  <1>1. slot \in [Call -> Slot] /\ slot[i] \in Slot
    BY DEF TypeInv, TypeOK
  <1>2. slot' \in [Call -> Slot]
    BY TypeTool DEF TypeInv, TypeOK
  <1> USE DEF Underway
  <1>3. CASE BeginTool(i)
    BY <1>1, <1>2, <1>3 DEF BeginTool, Slot
  <1>4. CASE PrepareTool(i)
    BY <1>1, <1>2, <1>4 DEF PrepareTool, Slot
  <1>5. CASE StartTool(i)
    BY <1>1, <1>2, <1>5 DEF StartTool, Running, Slot
  <1>6. CASE ToolReturns(i)
    BY <1>1, <1>2, <1>6 DEF ToolReturns, Running, Slot
  <1>7. CASE AbortTool(i)
    BY <1>1, <1>2, <1>7 DEF AbortTool, Running, Slot
  <1>8. CASE EndTool(i)
    BY <1>1, <1>2, <1>8 DEF EndTool, Running, Slot
  <1> QED BY <1>3, <1>4, <1>5, <1>6, <1>7, <1>8 DEF Tool

LEMMA MirrorTool ==
  ASSUME TypeInv, MirrorInv, NEW i \in Call, Tool(i)
  PROVE  MirrorInv'
  <1>1. /\ ToolFrame /\ i \in Calls
        /\ \A j \in Call \ {i} : slot'[j] = slot[j]
    BY ToolStages
  <1>2. runtime \in RuntimeState
    BY DEF TypeInv, TypeOK, RuntimeState
  <1>3. /\ runtime'.isStreaming = runtime.isStreaming
        /\ runtime'.streamingMessage = runtime.streamingMessage
        /\ runtime'.error = runtime.error
        /\ runtime'.pendingToolCalls = Pending(slot')
    <2>1. CASE /\ slot[i].stage = "waiting" /\ slot'[i].stage = "preparing"
               /\ runtime' = [runtime EXCEPT !.pendingToolCalls = @ \cup {i}]
      <3>1. Pending(slot') = Pending(slot) \cup {i}
        BY <1>1, <2>1 DEF Pending
      <3> QED BY <1>2, <2>1, <3>1 DEF MirrorInv, RuntimeState
    <2>2. CASE /\ slot[i].stage \in Underway /\ slot'[i].stage \in Underway
               /\ runtime' = runtime
      <3>1. Pending(slot') = Pending(slot)
        BY <1>1, <2>2 DEF Pending, Underway
      <3> QED BY <2>2, <3>1 DEF MirrorInv
    <2>3. CASE /\ slot[i].stage \in Underway /\ slot'[i].stage = "ended"
               /\ runtime' = [runtime EXCEPT !.pendingToolCalls = @ \ {i}]
      <3>1. Pending(slot') = Pending(slot) \ {i}
        BY <1>1, <2>3 DEF Pending
      <3> QED BY <1>2, <2>3, <3>1 DEF MirrorInv, RuntimeState
    <2> QED BY <2>1, <2>2, <2>3, ToolStages
  <1>4. \A j \in Call \ Calls : slot'[j].stage = "waiting"
    BY <1>1 DEF MirrorInv
  <1>5. Calls' = Calls
    BY <1>1 DEF ToolFrame, Calls
  <1>6. /\ UNCHANGED <<phase, messages, context, hasMore, started, outcome>>
        /\ phase = "tools" /\ ~started
    BY <1>1 DEF ToolFrame, transcript, loop, TypeInv, StreamShape
  <1> QED BY <1>3, <1>4, <1>5, <1>6 DEF MirrorInv

\* The last message of a transcript that ends in messages of one kind.
LEMMA LastOfConcat ==
  ASSUME NEW S, NEW s \in Seq(S), NEW t \in Seq(S), t # <<>>
  PROVE  s \o t # <<>> /\ (s \o t)[Len(s \o t)] = t[Len(t)]
  OBVIOUS

\* The results of n calls, in the order of the calls.
ResultsOf(r, n) ==
  /\ r \in Seq(Message) /\ Len(r) = n
  /\ \A i \in 1..n : r[i].role = "toolResult" /\ r[i].call = i

LEMMA Truncated == \A n \in 0..MaxCalls : ResultsOf(TruncatedResults(n), n)
  <1> SUFFICES ASSUME NEW n \in 0..MaxCalls
               PROVE  ResultsOf(TruncatedResults(n), n)
    OBVIOUS
  <1>1. \A i \in 1..n : ToolResult(i, "error") \in Message
    BY MessageTypes, BoundsAssumption DEF Call, ToolOutcome
  <1>2. TruncatedResults(n) \in Seq(Message) /\ Len(TruncatedResults(n)) = n
    BY <1>1, BoundsAssumption DEF TruncatedResults
  <1> QED BY <1>2 DEF ResultsOf, TruncatedResults, ToolResult

BatchResults == [i \in Calls |-> ToolResult(i, slot[i].out)]

LEMMA Batched == TypeInv => ResultsOf(BatchResults, batch.n)
  <1> SUFFICES ASSUME TypeInv PROVE ResultsOf(BatchResults, batch.n)
    OBVIOUS
  <1>1. batch.n \in 0..MaxCalls
    BY DEF TypeInv, TypeOK
  <1>2. \A i \in Calls : ToolResult(i, slot[i].out) \in Message
    BY <1>1, MessageTypes, BoundsAssumption
       DEF Calls, Call, Slot, TypeInv, TypeOK
  <1>3. BatchResults \in Seq(Message) /\ Len(BatchResults) = batch.n
    BY <1>1, <1>2, BoundsAssumption DEF BatchResults, Calls
  <1> QED BY <1>1, <1>3 DEF ResultsOf, BatchResults, Calls, ToolResult

\* A run that returns Ok publishes an error exactly when its last message failed.
LEMMA MirrorFinish ==
  ASSUME NEW final, NEW err \in BOOLEAN, FinishOk(final, err),
         err <=> LastFailed(final), slot' = NoSlots
  PROVE  MirrorInv'
  <1>1. /\ phase' = "idle" /\ started' = FALSE /\ messages' = final
        /\ runtime' = IdleRuntime(err)
    BY DEF FinishOk, DropLocals
  <1>2. \A i \in Call : slot'[i].stage = "waiting"
    BY DEF NoSlots
  <1>3. Pending(slot') = {}
    BY NoPending
  <1> QED BY <1>1, <1>2, <1>3 DEF MirrorInv, IdleRuntime, LastFailed

LEMMA MirrorEntry ==
  ASSUME TypeInv, MirrorInv, Entry
  PROVE  MirrorInv'
  <1>1. ASSUME NEW prompts, NEW first \in {"poll", "inject"},
               StartRun(prompts, first)
        PROVE  MirrorInv'
    <2>1. slot = NoSlots /\ slot' = NoSlots
      BY <1>1 DEF StartRun, MirrorInv, tools
    <2>2. \A i \in Call : slot'[i].stage = "waiting"
      BY <2>1 DEF NoSlots
    <2> QED BY <1>1, <2>1, <2>2, NoPending DEF StartRun, MirrorInv, IdleRuntime
  <1> QED
    BY <1>1 DEF Entry, Prompt, ContinueWithSteering, ContinueWithFollowUp,
                RunContinuation

\* The events of the stream.
LEMMA MirrorStream ==
  ASSUME TypeInv, MirrorInv, Stream
  PROVE  MirrorInv'
  <1>0. runtime \in RuntimeState /\ context \in Seq(Message)
    BY DEF TypeInv, TypeOK, RuntimeState
  <1>1. ASSUME NEW n \in 0..MaxCalls, phase = "stream", phase' = "stream",
               context' = Put(Assistant("Partial", n)), started' = TRUE,
               runtime' = [runtime EXCEPT !.streamingMessage =
                                            Assistant("Partial", n)],
               UNCHANGED <<messages, hasMore, tools, outcome>>
        PROVE  MirrorInv'
    <2>1. Partial' = Assistant("Partial", n)
      BY <1>1, MessageTypes, PutType DEF Partial
    <2>2. Calls' = Calls /\ slot' = slot
      BY <1>1 DEF tools, Calls
    <2>3. /\ runtime'.streamingMessage = Assistant("Partial", n)
          /\ runtime'.isStreaming = runtime.isStreaming
          /\ runtime'.pendingToolCalls = runtime.pendingToolCalls
          /\ runtime'.error = runtime.error
      BY <1>0, <1>1 DEF RuntimeState
    <2> QED BY <1>1, <2>1, <2>2, <2>3 DEF MirrorInv
  <1>2. CASE StreamStart
    BY <1>1, <1>2, BoundsAssumption DEF StreamStart
  <1>3. CASE StreamDelta
    <2>1. Partial.calls + 1 \in 0..MaxCalls
      BY <1>3, BoundsAssumption DEF StreamDelta, TypeInv, StreamShape,
                                    AssistantMessage
    <2> QED BY <1>1, <1>3, <2>1 DEF StreamDelta, loop
  <1>4. ASSUME NEW n \in 0..MaxCalls, NEW s \in Failure, StreamFails(s, n)
        PROVE  MirrorInv'
    <2>1. /\ Put(Assistant(s, n)) # <<>>
          /\ Put(Assistant(s, n))[Len(Put(Assistant(s, n)))] = Assistant(s, n)
      BY MessageTypes, PutType
    <2>2. LastFailed(Put(Assistant(s, n)))
      BY <2>1 DEF LastFailed, Assistant
    <2> QED BY <1>4, <2>2, MirrorFinish DEF StreamFails, MirrorInv, tools
  <1>5. ASSUME NEW n \in 0..MaxCalls, NEW s \in Complete, StreamDone(s, n)
        PROVE  MirrorInv'
    <2> DEFINE m == Assistant(s, n)
               results == IF s = "Length" THEN TruncatedResults(n) ELSE <<>>
    <2>1. /\ Put(m) \in Seq(Message) /\ Put(m) # <<>>
          /\ Put(m)[Len(Put(m))] = m /\ m.stop \notin Failure
      BY MessageTypes, PutType DEF Assistant, Complete, Failure
    <2>2. context' = Put(m) \o results
      BY <1>5 DEF StreamDone
    <2>3. results \in Seq(Message) /\
          (results # <<>> => results[Len(results)].role = "toolResult")
      <3>1. ResultsOf(results, IF s = "Length" THEN n ELSE 0)
        BY Truncated DEF ResultsOf
      <3> QED BY <3>1, BoundsAssumption DEF ResultsOf
    <2> HIDE DEF m, results
    <2>4. ~LastFailed(context')
      <3>1. CASE results = <<>>
        BY <2>1, <2>2, <3>1 DEF LastFailed
      <3>2. CASE results # <<>>
        BY <2>1, <2>2, <2>3, <3>2, LastOfConcat DEF LastFailed
      <3> QED BY <3>1, <3>2
    <2>5. slot' = slot /\ slot = NoSlots /\ started' = FALSE
      BY <1>5 DEF StreamDone, MirrorInv
    <2>6. \A i \in Call : slot'[i].stage = "waiting"
      BY <2>5 DEF NoSlots
    <2>7. /\ runtime'.streamingMessage = NoMessage
          /\ runtime'.isStreaming = runtime.isStreaming
          /\ runtime'.pendingToolCalls = runtime.pendingToolCalls
          /\ runtime'.error = runtime.error
      BY <1>0, <1>5 DEF StreamDone, RuntimeState
    <2>8. phase = "stream" /\ phase' \in {"tools", "turnEnd"}
      BY <1>5 DEF StreamDone
    <2> QED BY <2>4, <2>5, <2>6, <2>7, <2>8 DEF MirrorInv
  <1> QED BY <1>2, <1>3, <1>4, <1>5 DEF Stream, Ends

\* The steps of the loop itself.
LEMMA MirrorLoop ==
  ASSUME TypeInv, MirrorInv, Loop
  PROVE  MirrorInv'
  <1>0. /\ context \in Seq(Message) /\ pending \in Seq(UserMessage)
        /\ batch.n \in 0..MaxCalls /\ slot \in [Call -> Slot]
    BY DEF TypeInv, TypeOK
  <1>1. ASSUME ~started, UNCHANGED <<messages, context, tools, runtime,
                                     outcome, started>>,
               phase # "idle", phase # "tools",
               phase' \notin {"idle", "tools"},
               LastFailed(context) => /\ phase' \notin {"turnEnd", "followUp"}
                                      /\ phase' # "poll" \/ hasMore'
        PROVE  MirrorInv'
    BY <1>1 DEF MirrorInv, tools, Calls
  <1>2. phase # "stream" => ~started
    BY DEF TypeInv, StreamShape
  <1>3. CASE PollSteering
    <2>1. LastFailed(context) => hasMore
      BY <1>3 DEF PollSteering, MirrorInv
    <2>2. /\ phase = "poll" /\ phase' \in {"inject", "followUp"}
          /\ hasMore => phase' = "inject"
          /\ UNCHANGED <<messages, context, tools, runtime, outcome, started>>
      BY <1>3 DEF PollSteering, transcript, observed
    <2> QED BY <1>1, <1>2, <2>1, <2>2
  <1>4. CASE InjectPending
    <2>1. /\ phase = "inject" /\ phase' = "request"
          /\ UNCHANGED <<messages, tools, runtime, outcome, started, hasMore>>
      BY <1>4 DEF InjectPending
    <2> QED BY <1>2, <2>1 DEF MirrorInv, tools, Calls
  <1>5. CASE RequestAborted
    <2>1. Assistant("Aborted", 0) \in Message
      BY MessageTypes, BoundsAssumption DEF Failure
    <2>2. LastFailed(Append(context, Assistant("Aborted", 0)))
      BY <1>0, <2>1, AppendLast DEF LastFailed, Assistant, Failure
    <2> QED BY <1>5, <2>2, MirrorFinish DEF RequestAborted, MirrorInv, tools
  <1>6. CASE Request
    <2>1. /\ phase = "request" /\ phase' \in {"stream", "failed"}
          /\ UNCHANGED <<messages, context, tools, runtime, outcome, started>>
      BY <1>6 DEF Request, transcript, loop, observed
    <2> QED BY <1>1, <1>2, <2>1
  <1>7. CASE EndBatch
    <2>1. /\ phase = "tools" /\ phase' = "turnEnd" /\ slot' = NoSlots
          /\ \A i \in Calls : slot[i].stage = "ended"
          /\ context' = context \o BatchResults
          /\ UNCHANGED <<messages, started, runtime, outcome>>
      BY <1>7 DEF EndBatch, observed, BatchResults
    <2>2. ~LastFailed(context')
      <3>1. ResultsOf(BatchResults, batch.n)
        BY Batched
      <3>2. CASE BatchResults = <<>>
        BY <1>0, <2>1, <3>2 DEF MirrorInv, LastFailed
      <3>3. CASE BatchResults # <<>>
        BY <1>0, <2>1, <3>1, <3>3, LastOfConcat DEF LastFailed, ResultsOf
      <3> QED BY <3>2, <3>3
    <2>3. Pending(slot) = {}
      BY <2>1 DEF MirrorInv, Pending
    <2>4. \A i \in Call : slot'[i].stage = "waiting"
      BY <2>1 DEF NoSlots
    <2> QED BY <1>2, <2>1, <2>2, <2>3, <2>4, NoPending DEF MirrorInv
  <1>8. CASE TurnEndStop
    <2>1. ~LastFailed(context) /\ ~runtime.error /\ slot = NoSlots
      BY <1>8 DEF TurnEndStop, MirrorInv
    <2>2. runtime.error \in BOOLEAN
      BY DEF TypeInv, TypeOK
    <2> QED BY <1>8, <2>1, <2>2, MirrorFinish DEF TurnEndStop, tools
  <1>9. CASE TurnEndContinue
    <2>1. /\ phase = "turnEnd" /\ phase' = "poll"
          /\ UNCHANGED <<messages, context, tools, runtime, outcome, started>>
      BY <1>9 DEF TurnEndContinue, transcript, loop
    <2>2. ~LastFailed(context)
      BY <2>1 DEF MirrorInv
    <2> QED BY <1>1, <1>2, <2>1, <2>2
  <1>10. CASE PollFollowUp
    <2>1. phase = "followUp" /\ slot' = slot /\ tools' = tools
      BY <1>10 DEF PollFollowUp, tools
    <2>2. ~LastFailed(context) /\ ~runtime.error /\ slot = NoSlots
      BY <2>1 DEF MirrorInv
    <2>3. CASE FinishOk(context, runtime.error)
      <3>1. runtime.error \in BOOLEAN
        BY DEF TypeInv, TypeOK
      <3> QED BY <2>1, <2>2, <2>3, <3>1, MirrorFinish
    <2>4. CASE /\ phase' = "inject"
               /\ UNCHANGED <<context, messages, runtime, outcome, started>>
      BY <1>1, <1>2, <2>1, <2>2, <2>4
    <2> QED BY <1>10, <2>3, <2>4 DEF PollFollowUp
  <1>11. CASE FinishErr
    <2> DEFINE m == Assistant(IF cancelled THEN "Aborted" ELSE "Error", 0)
    <2>1. m \in Message /\ m.role = "assistant" /\ m.stop \in Failure
      BY MessageTypes, BoundsAssumption DEF Failure, Assistant
    <2>2. /\ phase' = "idle" /\ started' = FALSE /\ slot' = slot
          /\ phase = "failed" /\ runtime' = IdleRuntime(TRUE)
          /\ messages' = Append(context, m)
      BY <1>11 DEF FinishErr, DropLocals, tools
    <2> HIDE DEF m
    <2>3. LastFailed(messages')
      BY <1>0, <2>1, <2>2, AppendLast DEF LastFailed
    <2>4. slot' = NoSlots
      BY <2>2 DEF MirrorInv
    <2>5. \A i \in Call : slot'[i].stage = "waiting"
      BY <2>4 DEF NoSlots
    <2> QED BY <2>2, <2>3, <2>4, <2>5, NoPending DEF MirrorInv, IdleRuntime
  <1> QED
    BY <1>3, <1>4, <1>5, <1>6, <1>7, <1>8, <1>9, <1>10, <1>11 DEF Loop

LEMMA MirrorOthers ==
  ASSUME TypeInv, MirrorInv, Others
  PROVE  MirrorInv'
  <1>1. CASE OtherTask
    BY <1>1 DEF OtherTask, MirrorInv, transcript, loop, tools, observed, Calls,
                Partial
  <1>2. CASE Reset
    <2>1. /\ phase = "idle" /\ phase' = "idle" /\ outcome' = "none"
          /\ runtime' = IdleRuntime(FALSE) /\ tools' = tools
          /\ started' = started
      BY <1>2 DEF Reset, loop
    <2>2. ~started /\ slot = NoSlots
      BY <2>1 DEF MirrorInv, TypeInv, StreamShape
    <2>3. \A i \in Call : NoSlots[i].stage = "waiting"
      BY DEF NoSlots
    <2> QED
      BY <2>1, <2>2, <2>3, NoPending DEF MirrorInv, IdleRuntime, tools
  <1>3. CASE SetMode
    BY <1>3 DEF SetMode, MirrorInv, transcript, loop, tools, observed, Calls,
                Partial
  <1> QED BY <1>1, <1>2, <1>3
          DEF Others, Steer, FollowUp, ClearSteeringQueue, ClearFollowUpQueue,
              Abort

LEMMA MirrorStep == TypeInv /\ MirrorInv /\ [Next]_vars => MirrorInv'
  <1>1. TypeInv /\ MirrorInv /\ UNCHANGED vars => MirrorInv'
    BY DEF MirrorInv, vars, transcript, loop, tools, observed, Calls, Partial
  <1> QED BY <1>1, MirrorEntry, MirrorStream, MirrorTool, MirrorLoop,
             MirrorOthers DEF Next

\* The type invariant holds, for use below.
LEMMA TypesHold == Spec => []TypeInv
  BY TypeInit, TypeStep, PTL DEF Spec

\* state() tells what the run is doing, through every interleaving of parallel
\* tool calls and other tasks, and afterwards how the run ended.
THEOREM StateMirrorsRun == Spec => []RuntimeMirrorsRun
  <1> QED BY TypesHold, MirrorInit, MirrorStep, MirrorHolds, PTL DEF Spec

----------------------------------------------------------------------------
(* The flow of user messages. *)

\* What the run has been given: the context, then what waits to be injected.
Delivered == context \o pending

NoUser(s) == \A k \in DOMAIN s : s[k].role # "user"

\* The identities of the messages that came by one way, and their order.
IdsVia(v, s) ==
  {s[k].id : k \in {j \in DOMAIN s : s[j].role = "user" /\ s[j].via = v}}
Below(v, s, t) == \A a \in IdsVia(v, s), b \in IdsVia(v, t) : a < b

\* Two transcripts with the same user messages in the same order.
SameUsers(s, t) ==
  /\ IdsOf(s) = IdsOf(t)
  /\ \A v : IdsVia(v, s) = IdsVia(v, t) /\ (Ordered(v, s) <=> Ordered(v, t))

\* Where the elements of a concatenation come from.
LEMMA ConcatParts ==
  \A s, t \in Seq(Message) :
    /\ \A k \in DOMAIN s : k \in DOMAIN (s \o t) /\ (s \o t)[k] = s[k]
    /\ \A k \in DOMAIN t : /\ Len(s) + k \in DOMAIN (s \o t)
                           /\ (s \o t)[Len(s) + k] = t[k]
    /\ \A k \in DOMAIN (s \o t) :
         k \in DOMAIN s \/ \E j \in DOMAIN t : k = Len(s) + j
  <1> SUFFICES ASSUME NEW s \in Seq(Message), NEW t \in Seq(Message)
               PROVE  /\ \A k \in DOMAIN s : /\ k \in DOMAIN (s \o t)
                                             /\ (s \o t)[k] = s[k]
                      /\ \A k \in DOMAIN t : /\ Len(s) + k \in DOMAIN (s \o t)
                                             /\ (s \o t)[Len(s) + k] = t[k]
                      /\ \A k \in DOMAIN (s \o t) :
                           \/ k \in DOMAIN s
                           \/ \E j \in DOMAIN t : k = Len(s) + j
    OBVIOUS
  <1>1. /\ DOMAIN (s \o t) = 1..(Len(s) + Len(t))
        /\ DOMAIN s = 1..Len(s) /\ DOMAIN t = 1..Len(t)
        /\ Len(s) \in Nat /\ Len(t) \in Nat
    OBVIOUS
  <1>2. ASSUME NEW k \in DOMAIN (s \o t), k \notin DOMAIN s
        PROVE  \E j \in DOMAIN t : k = Len(s) + j
    <2>1. k - Len(s) \in DOMAIN t /\ k = Len(s) + (k - Len(s))
      BY <1>1, <1>2
    <2> QED BY <2>1
  <1> QED BY <1>1, <1>2

LEMMA IdsConcat ==
  \A s, t \in Seq(Message) : IdsOf(s \o t) = IdsOf(s) \cup IdsOf(t)
  <1> SUFFICES ASSUME NEW s \in Seq(Message), NEW t \in Seq(Message)
               PROVE  IdsOf(s \o t) = IdsOf(s) \cup IdsOf(t)
    OBVIOUS
  <1>1. ASSUME NEW k \in DOMAIN (s \o t), (s \o t)[k].role = "user"
        PROVE  (s \o t)[k].id \in IdsOf(s) \cup IdsOf(t)
    <2>1. CASE k \in DOMAIN s
      BY <1>1, <2>1, ConcatParts DEF IdsOf
    <2>2. CASE \E j \in DOMAIN t : k = Len(s) + j
      BY <1>1, <2>2, ConcatParts DEF IdsOf
    <2> QED BY <2>1, <2>2, ConcatParts
  <1>2. ASSUME NEW k \in DOMAIN s, s[k].role = "user"
        PROVE  s[k].id \in IdsOf(s \o t)
    BY <1>2, ConcatParts DEF IdsOf
  <1>3. ASSUME NEW k \in DOMAIN t, t[k].role = "user"
        PROVE  t[k].id \in IdsOf(s \o t)
    <2>1. /\ Len(s) + k \in DOMAIN (s \o t) /\ (s \o t)[Len(s) + k] = t[k]
      BY ConcatParts
    <2> QED BY <1>3, <2>1 DEF IdsOf
  <1>4. IdsOf(s \o t) \subseteq IdsOf(s) \cup IdsOf(t)
    <2>1. ASSUME NEW x \in IdsOf(s \o t) PROVE x \in IdsOf(s) \cup IdsOf(t)
      <3>1. PICK k \in DOMAIN (s \o t) :
              (s \o t)[k].role = "user" /\ x = (s \o t)[k].id
        BY <2>1 DEF IdsOf
      <3> QED BY <1>1, <3>1
    <2> QED BY <2>1
  <1>5. IdsOf(s) \subseteq IdsOf(s \o t)
    BY <1>2 DEF IdsOf
  <1>6. IdsOf(t) \subseteq IdsOf(s \o t)
    BY <1>3 DEF IdsOf
  <1> QED BY <1>4, <1>5, <1>6

LEMMA IdsViaConcat ==
  \A s, t \in Seq(Message) : \A v :
    IdsVia(v, s \o t) = IdsVia(v, s) \cup IdsVia(v, t)
  <1> SUFFICES ASSUME NEW s \in Seq(Message), NEW t \in Seq(Message), NEW v
               PROVE  IdsVia(v, s \o t) = IdsVia(v, s) \cup IdsVia(v, t)
    OBVIOUS
  <1>1. ASSUME NEW k \in DOMAIN (s \o t), (s \o t)[k].role = "user",
               (s \o t)[k].via = v
        PROVE  (s \o t)[k].id \in IdsVia(v, s) \cup IdsVia(v, t)
    <2>1. CASE k \in DOMAIN s
      BY <1>1, <2>1, ConcatParts DEF IdsVia
    <2>2. CASE \E j \in DOMAIN t : k = Len(s) + j
      BY <1>1, <2>2, ConcatParts DEF IdsVia
    <2> QED BY <2>1, <2>2, ConcatParts
  <1>2. ASSUME NEW k \in DOMAIN s, s[k].role = "user", s[k].via = v
        PROVE  s[k].id \in IdsVia(v, s \o t)
    BY <1>2, ConcatParts DEF IdsVia
  <1>3. ASSUME NEW k \in DOMAIN t, t[k].role = "user", t[k].via = v
        PROVE  t[k].id \in IdsVia(v, s \o t)
    <2>1. /\ Len(s) + k \in DOMAIN (s \o t) /\ (s \o t)[Len(s) + k] = t[k]
      BY ConcatParts
    <2> QED BY <1>3, <2>1 DEF IdsVia
  <1>4. IdsVia(v, s \o t) \subseteq IdsVia(v, s) \cup IdsVia(v, t)
    <2>1. ASSUME NEW x \in IdsVia(v, s \o t)
          PROVE  x \in IdsVia(v, s) \cup IdsVia(v, t)
      <3>1. PICK k \in DOMAIN (s \o t) :
              /\ (s \o t)[k].role = "user" /\ (s \o t)[k].via = v
              /\ x = (s \o t)[k].id
        BY <2>1 DEF IdsVia
      <3> QED BY <1>1, <3>1
    <2> QED BY <2>1
  <1>5. IdsVia(v, s) \subseteq IdsVia(v, s \o t)
    BY <1>2 DEF IdsVia
  <1>6. IdsVia(v, t) \subseteq IdsVia(v, s \o t)
    BY <1>3 DEF IdsVia
  <1> QED BY <1>4, <1>5, <1>6

\* A concatenation is in order when its parts are, and one is below the other.
LEMMA OrderedConcat ==
  \A s, t \in Seq(Message) : \A v :
    Ordered(v, s \o t) <=> Ordered(v, s) /\ Ordered(v, t) /\ Below(v, s, t)
  <1> SUFFICES ASSUME NEW s \in Seq(Message), NEW t \in Seq(Message), NEW v
               PROVE  Ordered(v, s \o t) <=>
                        Ordered(v, s) /\ Ordered(v, t) /\ Below(v, s, t)
    OBVIOUS
  <1>1. /\ DOMAIN (s \o t) = 1..(Len(s) + Len(t))
        /\ DOMAIN s = 1..Len(s) /\ DOMAIN t = 1..Len(t)
        /\ Len(s) \in Nat /\ Len(t) \in Nat
        /\ \A k \in DOMAIN s : (s \o t)[k] = s[k]
        /\ \A k \in DOMAIN t : (s \o t)[Len(s) + k] = t[k]
    OBVIOUS
  <1>2. ASSUME Ordered(v, s \o t)
        PROVE  Ordered(v, s) /\ Ordered(v, t) /\ Below(v, s, t)
    <2>1. Ordered(v, s)
      BY <1>1, <1>2 DEF Ordered
    <2>2. Ordered(v, t)
      <3> SUFFICES ASSUME NEW j \in DOMAIN t, NEW k \in DOMAIN t, j < k,
                          t[j].role = "user", t[k].role = "user",
                          t[j].via = v, t[k].via = v
                   PROVE  t[j].id < t[k].id
        BY DEF Ordered
      <3>1. /\ Len(s) + j \in DOMAIN (s \o t) /\ Len(s) + k \in DOMAIN (s \o t)
            /\ Len(s) + j < Len(s) + k
        BY <1>1
      <3> QED BY <1>1, <1>2, <3>1 DEF Ordered
    <2>3. Below(v, s, t)
      <3> SUFFICES ASSUME NEW j \in DOMAIN s, NEW k \in DOMAIN t,
                          s[j].role = "user", t[k].role = "user",
                          s[j].via = v, t[k].via = v
                   PROVE  s[j].id < t[k].id
        BY DEF Below, IdsVia
      <3>1. /\ j \in DOMAIN (s \o t) /\ Len(s) + k \in DOMAIN (s \o t)
            /\ j < Len(s) + k
        BY <1>1
      <3> QED BY <1>1, <1>2, <3>1 DEF Ordered
    <2> QED BY <2>1, <2>2, <2>3
  <1>3. ASSUME Ordered(v, s), Ordered(v, t), Below(v, s, t)
        PROVE  Ordered(v, s \o t)
    <2> SUFFICES ASSUME NEW j \in DOMAIN (s \o t), NEW k \in DOMAIN (s \o t),
                        j < k, (s \o t)[j].role = "user",
                        (s \o t)[k].role = "user",
                        (s \o t)[j].via = v, (s \o t)[k].via = v
                 PROVE  (s \o t)[j].id < (s \o t)[k].id
      BY DEF Ordered
    <2>1. CASE k \in DOMAIN s
      <3>1. j \in DOMAIN s
        BY <1>1, <2>1
      <3> QED BY <1>1, <1>3, <2>1, <3>1 DEF Ordered
    <2>2. CASE j \in DOMAIN s /\ k \notin DOMAIN s
      <3>1. k - Len(s) \in DOMAIN t /\ k = Len(s) + (k - Len(s))
        BY <1>1, <2>2
      <3>2. (s \o t)[k] = t[k - Len(s)] /\ (s \o t)[j] = s[j]
        BY <1>1, <2>2, <3>1
      <3>3. s[j].id \in IdsVia(v, s) /\ t[k - Len(s)].id \in IdsVia(v, t)
        BY <2>2, <3>1, <3>2 DEF IdsVia
      <3> QED BY <1>3, <3>2, <3>3 DEF Below
    <2>3. CASE j \notin DOMAIN s
      <3>1. /\ j - Len(s) \in DOMAIN t /\ j = Len(s) + (j - Len(s))
            /\ k - Len(s) \in DOMAIN t /\ k = Len(s) + (k - Len(s))
            /\ j - Len(s) < k - Len(s)
        BY <1>1, <2>3
      <3>2. (s \o t)[k] = t[k - Len(s)] /\ (s \o t)[j] = t[j - Len(s)]
        BY <1>1, <3>1
      <3> QED BY <1>3, <3>1, <3>2 DEF Ordered
    <2> QED BY <1>1, <2>1, <2>2, <2>3
  <1> QED BY <1>2, <1>3

\* Messages of the model and of tools carry no user message.
LEMMA SilentTail ==
  \A s, t \in Seq(Message) : NoUser(t) => SameUsers(s, s \o t)
  <1> SUFFICES ASSUME NEW s \in Seq(Message), NEW t \in Seq(Message), NoUser(t)
               PROVE  SameUsers(s, s \o t)
    OBVIOUS
  <1>1. IdsOf(t) = {} /\ \A v : IdsVia(v, t) = {} /\ Ordered(v, t)
    BY DEF NoUser, IdsOf, IdsVia, Ordered
  <1>2. \A v : Below(v, s, t)
    BY <1>1 DEF Below
  <1>3. IdsOf(s) = IdsOf(s \o t)
    <2>1. IdsOf(s \o t) = IdsOf(s) \cup IdsOf(t)
      BY IdsConcat
    <2> QED BY <1>1, <2>1
  <1>4. ASSUME NEW v PROVE IdsVia(v, s) = IdsVia(v, s \o t)
    <2>1. IdsVia(v, s \o t) = IdsVia(v, s) \cup IdsVia(v, t)
      BY IdsViaConcat
    <2> QED BY <1>1, <2>1
  <1>5. \A v : Ordered(v, s) <=> Ordered(v, s \o t)
    BY <1>1, <1>2, OrderedConcat
  <1> QED BY <1>3, <1>4, <1>5 DEF SameUsers

LEMMA SilentAppend ==
  \A s \in Seq(Message), m \in Message :
    m.role # "user" => SameUsers(s, Append(s, m))
  <1> SUFFICES ASSUME NEW s \in Seq(Message), NEW m \in Message,
                      m.role # "user"
               PROVE  SameUsers(s, Append(s, m))
    OBVIOUS
  <1>1. /\ <<m>> \in Seq(Message) /\ Append(s, m) = s \o <<m>>
        /\ NoUser(<<m>>)
    BY DEF NoUser
  <1> QED BY <1>1, SilentTail

\* PendingQueue::drain splits the queue.
LEMMA DrainSplit ==
  \A q \in Seq(UserMessage) : \A m : Drain(q, m) \o Undrained(q, m) = q
  <1> SUFFICES ASSUME NEW q \in Seq(UserMessage), NEW m
               PROVE  Drain(q, m) \o Undrained(q, m) = q
    OBVIOUS
  <1>1. CASE m = "All" \/ q = <<>>
    BY <1>1 DEF Drain, Undrained
  <1>2. CASE ~(m = "All" \/ q = <<>>)
    <2>1. <<Head(q)>> \o Tail(q) = q
      BY <1>2
    <2> QED BY <1>2, <2>1 DEF Drain, Undrained
  <1> QED BY <1>1, <1>2

LEMMA OneUser ==
  \A v, n : /\ IdsOf(<<User(v, n)>>) = {n}
            /\ \A w : /\ IdsVia(w, <<User(v, n)>>) = IF w = v THEN {n} ELSE {}
                      /\ Ordered(w, <<User(v, n)>>)
  <1> SUFFICES ASSUME NEW v, NEW n
               PROVE  /\ IdsOf(<<User(v, n)>>) = {n}
                      /\ \A w : /\ IdsVia(w, <<User(v, n)>>) =
                                     IF w = v THEN {n} ELSE {}
                                /\ Ordered(w, <<User(v, n)>>)
    OBVIOUS
  <1> DEFINE u == User(v, n)
  <1>1. u.role = "user" /\ u.via = v /\ u.id = n
    BY DEF User
  <1> HIDE DEF u
  <1>2. DOMAIN <<u>> = {1} /\ <<u>>[1] = u
    OBVIOUS
  <1>3. IdsOf(<<u>>) = {n}
    BY <1>1, <1>2 DEF IdsOf
  <1>4. \A w : IdsVia(w, <<u>>) = IF w = v THEN {n} ELSE {}
    BY <1>1, <1>2 DEF IdsVia
  <1>5. \A w : Ordered(w, <<u>>)
    BY <1>2 DEF Ordered
  <1>6. u = User(v, n)
    BY DEF u
  <1> QED BY <1>3, <1>4, <1>5, <1>6

LEMMA ViaIds == \A v, s : IdsVia(v, s) \subseteq IdsOf(s)
  BY DEF IdsVia, IdsOf

\* A queue holds messages of its own way only.
CameBy(v, q) == \A w : w # v => IdsVia(w, q) = {}

\* The messages handed out so far are those delivered, queued or discarded.  A
\* queue and the discarded messages have nothing in common, or an aborted run
\* could not tell a cleared queue from one that was drained.
FlowInv ==
  /\ pending # <<>> => phase = "inject"
  /\ UNION {IdsOf(Delivered), IdsOf(steering), IdsOf(followUp), discarded}
       = 1..(nextId - 1)
  /\ IdsOf(steering) \cap discarded = {}
  /\ IdsOf(followUp) \cap discarded = {}
  /\ IdsOf(steering) \cap IdsOf(followUp) = {}
  /\ CameBy("steer", steering)
  /\ CameBy("followUp", followUp)
  /\ Ordered("steer", Delivered \o steering)
  /\ Ordered("followUp", Delivered \o followUp)

LEMMA FlowInit == Init => FlowInv
  <1> SUFFICES ASSUME Init PROVE FlowInv
    OBVIOUS
  <1>1. Delivered = <<>> /\ steering = <<>> /\ followUp = <<>>
    BY DEF Init, Delivered
  <1>2. IdsOf(<<>>) = {} /\ \A v : IdsVia(v, <<>>) = {} /\ Ordered(v, <<>>)
    BY DEF IdsOf, IdsVia, Ordered
  <1>3. Delivered \o steering = <<>> /\ Delivered \o followUp = <<>>
    BY <1>1
  <1>4. 1..(nextId - 1) = {} /\ discarded = {}
    BY DEF Init
  <1> QED BY <1>1, <1>2, <1>3, <1>4 DEF FlowInv, CameBy, Init

\* What a step does to the flow of messages: the run says something, takes a
\* prompt or drains a queue; another task submits, clears or resets.
Talks == SameUsers(Delivered, Delivered') /\ UNCHANGED <<queues, inputs>>
TakesPrompt ==
  /\ Delivered' = Delivered \o <<User("prompt", nextId)>>
  /\ nextId' = nextId + 1
  /\ UNCHANGED <<queues, discarded>>
TakesSteering(m) ==
  /\ Delivered' = Delivered \o Drain(steering, m)
  /\ steering' = Undrained(steering, m)
  /\ UNCHANGED <<followUp, inputs>>
TakesFollowUp(m) ==
  /\ Delivered' = Delivered \o Drain(followUp, m)
  /\ followUp' = Undrained(followUp, m)
  /\ UNCHANGED <<steering, inputs>>
Resets ==
  /\ Delivered' = <<>> /\ steering' = <<>> /\ followUp' = <<>>
  /\ discarded' = UNION {discarded, IdsOf(Delivered), IdsOf(steering),
                         IdsOf(followUp)}
  /\ nextId' = nextId
Flows ==
  \/ Talks \/ TakesPrompt \/ Resets
  \/ (\E m : TakesSteering(m) \/ TakesFollowUp(m))
  \/ Delivered' = Delivered /\ (Steer \/ FollowUp \/ ClearSteeringQueue
                                      \/ ClearFollowUpQueue)

\* A step that moves messages only as Flows says keeps the invariant.
LEMMA FlowKeeps ==
  ASSUME TypeInv, TypeInv', FlowInv, Flows, pending' # <<>> => phase' = "inject"
  PROVE  FlowInv'
  <1> DEFINE D == Delivered  S == steering  F == followUp
  <1>0. /\ D \in Seq(Message) /\ S \in Seq(UserMessage) /\ S \in Seq(Message)
        /\ F \in Seq(UserMessage) /\ F \in Seq(Message)
        /\ D' \in Seq(Message) /\ S' \in Seq(Message) /\ F' \in Seq(Message)
        /\ nextId \in Nat \ {0} /\ discarded \in SUBSET Nat
    BY UserSeq, ConcatType DEF TypeInv, TypeOK, Delivered
  <1>i. \A v : /\ IdsVia(v, D \o S) \subseteq 1..(nextId - 1)
               /\ IdsVia(v, D \o F) \subseteq 1..(nextId - 1)
    BY <1>0, ViaIds, IdsConcat DEF FlowInv
  <1>1. CASE Talks
    <2>1. S' = S /\ F' = F /\ discarded' = discarded /\ nextId' = nextId
      BY <1>1 DEF Talks, queues, inputs
    <2>2. /\ IdsOf(D') = IdsOf(D)
          /\ \A v : IdsVia(v, D') = IdsVia(v, D) /\ (Ordered(v, D') <=> Ordered(v, D))
      BY <1>1 DEF Talks, SameUsers
    <2> HIDE DEF D, S, F
    <2>3. Ordered("steer", D' \o S') /\ Ordered("followUp", D' \o F')
      BY <1>0, <2>1, <2>2, OrderedConcat DEF FlowInv, Below, D, S, F
    <2> QED BY <2>1, <2>2, <2>3 DEF FlowInv, D, S, F
  <1> HIDE DEF D, S, F
  <1>f. /\ UNION {IdsOf(D), IdsOf(S), IdsOf(F), discarded} = 1..(nextId - 1)
        /\ IdsOf(S) \cap discarded = {} /\ IdsOf(F) \cap discarded = {}
        /\ IdsOf(S) \cap IdsOf(F) = {}
        /\ CameBy("steer", S) /\ CameBy("followUp", F)
        /\ Ordered("steer", D \o S) /\ Ordered("followUp", D \o F)
    BY DEF FlowInv, D, S, F
  <1>g. ASSUME
          UNION {IdsOf(D'), IdsOf(S'), IdsOf(F'), discarded'} = 1..(nextId' - 1),
          IdsOf(S') \cap discarded' = {}, IdsOf(F') \cap discarded' = {},
          IdsOf(S') \cap IdsOf(F') = {},
          CameBy("steer", S'), CameBy("followUp", F'),
          Ordered("steer", D' \o S'), Ordered("followUp", D' \o F')
        PROVE  FlowInv'
    BY <1>g DEF FlowInv, D, S, F
  <1>2. CASE TakesPrompt
    <2> DEFINE p == <<User("prompt", nextId)>>
    <2>1. /\ D' = D \o p /\ nextId' = nextId + 1
          /\ S' = S /\ F' = F /\ discarded' = discarded
      BY <1>2 DEF TakesPrompt, queues, D, S, F
    <2>2. p \in Seq(Message)
      BY <1>0, MessageTypes
    <2>3. /\ IdsOf(p) = {nextId} /\ IdsVia("steer", p) = {}
          /\ IdsVia("followUp", p) = {}
          /\ Ordered("steer", p) /\ Ordered("followUp", p)
      BY OneUser
    <2> HIDE DEF p
    <2>4. /\ IdsOf(D') = IdsOf(D) \cup {nextId}
          /\ IdsVia("steer", D') = IdsVia("steer", D)
          /\ IdsVia("followUp", D') = IdsVia("followUp", D)
      <3>1. /\ IdsOf(D \o p) = IdsOf(D) \cup IdsOf(p)
            /\ \A v : IdsVia(v, D \o p) = IdsVia(v, D) \cup IdsVia(v, p)
        BY <1>0, <2>2, IdsConcat, IdsViaConcat
      <3> QED BY <2>1, <2>3, <3>1
    <2>5. Ordered("steer", D') /\ Ordered("followUp", D')
      BY <1>0, <1>f, <2>1, <2>2, <2>3, OrderedConcat DEF Below
    <2>6. Ordered("steer", D' \o S') /\ Ordered("followUp", D' \o F')
      BY <1>0, <1>f, <2>1, <2>4, <2>5, OrderedConcat DEF Below
    <2> QED BY <1>0, <1>f, <1>g, <2>1, <2>4, <2>6
  <1>3. ASSUME NEW m, TakesSteering(m) PROVE FlowInv'
    <2> DEFINE d == Drain(S, m)
    <2>1. /\ D' = D \o d /\ S' = Undrained(S, m) /\ F' = F
          /\ discarded' = discarded /\ nextId' = nextId
      BY <1>3 DEF TakesSteering, inputs, D, S, F
    <2>2. d \in Seq(Message) /\ d \o S' = S
      BY <1>0, <2>1, DrainType, DrainSplit
    <2> HIDE DEF d
    <2>3. /\ IdsOf(S) = IdsOf(d) \cup IdsOf(S')
          /\ IdsOf(D') = IdsOf(D) \cup IdsOf(d)
      <3>1. IdsOf(d \o S') = IdsOf(d) \cup IdsOf(S')
        BY <1>0, <2>2, IdsConcat
      <3>2. IdsOf(D \o d) = IdsOf(D) \cup IdsOf(d)
        BY <1>0, <2>2, IdsConcat
      <3> QED BY <2>1, <2>2, <3>1, <3>2
    <2>4. CameBy("steer", S') /\ IdsVia("followUp", d) = {}
          /\ IdsVia("followUp", D') = IdsVia("followUp", D)
      <3>1. \A v : IdsVia(v, d \o S') = IdsVia(v, d) \cup IdsVia(v, S')
        BY <1>0, <2>2, IdsViaConcat
      <3>2. ASSUME NEW v, v # "steer"
            PROVE  IdsVia(v, d) = {} /\ IdsVia(v, S') = {}
        <4>1. IdsVia(v, S) = {}
          BY <1>f, <3>2 DEF CameBy
        <4> QED BY <2>2, <3>1, <4>1
      <3>3. IdsVia("followUp", D \o d) = IdsVia("followUp", D) \cup IdsVia("followUp", d)
        BY <1>0, <2>2, IdsViaConcat
      <3>4. IdsVia("followUp", d) = {}
        BY <3>2
      <3>5. IdsVia("followUp", D') = IdsVia("followUp", D)
        BY <2>1, <3>3, <3>4
      <3> QED BY <3>2, <3>4, <3>5 DEF CameBy
    <2>5. Ordered("followUp", D' \o F')
      <3>1. Ordered("followUp", d)
        <4>1. IdsVia("followUp", d) = {}
          BY <2>4
        <4>2. \A k \in DOMAIN d : ~(d[k].role = "user" /\ d[k].via = "followUp")
          BY <4>1, Zenon DEF IdsVia
        <4> QED BY <4>2 DEF Ordered
      <3>2. Ordered("followUp", D')
        BY <1>0, <1>f, <2>1, <2>2, <2>4, <3>1, OrderedConcat DEF Below
      <3> QED BY <1>0, <1>f, <2>1, <2>4, <3>2, OrderedConcat DEF Below
    <2>6. D' \o S' = D \o S
      <3>1. (D \o d) \o S' = D \o (d \o S')
        <4>1. D \in Seq(Message) /\ d \in Seq(Message) /\ S' \in Seq(Message)
          BY <1>0, <2>2
        <4> QED BY <4>1, ConcatMessages
      <3> QED BY <2>1, <2>2, <3>1
    <2> QED BY <1>f, <1>g, <2>1, <2>3, <2>4, <2>5, <2>6
  <1>4. ASSUME NEW m, TakesFollowUp(m) PROVE FlowInv'
    <2> DEFINE d == Drain(F, m)
    <2>1. /\ D' = D \o d /\ F' = Undrained(F, m) /\ S' = S
          /\ discarded' = discarded /\ nextId' = nextId
      BY <1>4 DEF TakesFollowUp, inputs, D, S, F
    <2>2. d \in Seq(Message) /\ d \o F' = F
      BY <1>0, <2>1, DrainType, DrainSplit
    <2> HIDE DEF d
    <2>3. /\ IdsOf(F) = IdsOf(d) \cup IdsOf(F')
          /\ IdsOf(D') = IdsOf(D) \cup IdsOf(d)
      <3>1. IdsOf(d \o F') = IdsOf(d) \cup IdsOf(F')
        BY <1>0, <2>2, IdsConcat
      <3>2. IdsOf(D \o d) = IdsOf(D) \cup IdsOf(d)
        BY <1>0, <2>2, IdsConcat
      <3> QED BY <2>1, <2>2, <3>1, <3>2
    <2>4. CameBy("followUp", F') /\ IdsVia("steer", d) = {}
          /\ IdsVia("steer", D') = IdsVia("steer", D)
      <3>1. \A v : IdsVia(v, d \o F') = IdsVia(v, d) \cup IdsVia(v, F')
        BY <1>0, <2>2, IdsViaConcat
      <3>2. ASSUME NEW v, v # "followUp"
            PROVE  IdsVia(v, d) = {} /\ IdsVia(v, F') = {}
        <4>1. IdsVia(v, F) = {}
          BY <1>f, <3>2 DEF CameBy
        <4> QED BY <2>2, <3>1, <4>1
      <3>3. IdsVia("steer", D \o d) = IdsVia("steer", D) \cup IdsVia("steer", d)
        BY <1>0, <2>2, IdsViaConcat
      <3>4. IdsVia("steer", d) = {}
        BY <3>2
      <3>5. IdsVia("steer", D') = IdsVia("steer", D)
        BY <2>1, <3>3, <3>4
      <3> QED BY <3>2, <3>4, <3>5 DEF CameBy
    <2>5. Ordered("steer", D' \o S')
      <3>1. Ordered("steer", d)
        <4>1. IdsVia("steer", d) = {}
          BY <2>4
        <4>2. \A k \in DOMAIN d : ~(d[k].role = "user" /\ d[k].via = "steer")
          BY <4>1, Zenon DEF IdsVia
        <4> QED BY <4>2 DEF Ordered
      <3>2. Ordered("steer", D')
        BY <1>0, <1>f, <2>1, <2>2, <2>4, <3>1, OrderedConcat DEF Below
      <3> QED BY <1>0, <1>f, <2>1, <2>4, <3>2, OrderedConcat DEF Below
    <2>6. D' \o F' = D \o F
      <3>1. (D \o d) \o F' = D \o (d \o F')
        <4>1. D \in Seq(Message) /\ d \in Seq(Message) /\ F' \in Seq(Message)
          BY <1>0, <2>2
        <4> QED BY <4>1, ConcatMessages
      <3> QED BY <2>1, <2>2, <3>1
    <2> QED BY <1>f, <1>g, <2>1, <2>3, <2>4, <2>5, <2>6
  <1>5. CASE Delivered' = Delivered /\ Steer
    <2> DEFINE u == <<User("steer", nextId)>>
    <2>1. /\ D' = D /\ S' = Append(S, User("steer", nextId)) /\ F' = F
          /\ discarded' = discarded /\ nextId' = nextId + 1
      BY <1>5 DEF Steer, D, S, F
    <2>2. u \in Seq(Message) /\ User("steer", nextId) \in Message
      BY <1>0, MessageTypes
    <2>3. S' = S \o u
      BY <1>0, <2>1, <2>2
    <2>4. /\ IdsOf(u) = {nextId} /\ IdsVia("steer", u) = {nextId}
          /\ CameBy("steer", u) /\ Ordered("steer", u)
      BY OneUser DEF CameBy
    <2> HIDE DEF u
    <2>5. IdsOf(S') = IdsOf(S) \cup {nextId}
      BY <1>0, <2>2, <2>3, <2>4, IdsConcat
    <2>6. CameBy("steer", S')
      <3>1. \A v : IdsVia(v, S \o u) = IdsVia(v, S) \cup IdsVia(v, u)
        BY <1>0, <2>2, IdsViaConcat
      <3>2. ASSUME NEW v, v # "steer" PROVE IdsVia(v, S') = {}
        <4>1. IdsVia(v, S) = {} /\ IdsVia(v, u) = {}
          BY <1>f, <2>4, <3>2 DEF CameBy
        <4> QED BY <2>3, <3>1, <4>1
      <3> QED BY <3>2 DEF CameBy
    <2>7. Ordered("steer", D' \o S')
      <3>1. D \o S \in Seq(Message)
        BY <1>0, ConcatType
      <3>2. (D \o S) \o u = D \o (S \o u)
        <4>1. D \in Seq(Message) /\ S \in Seq(Message) /\ u \in Seq(Message)
          BY <1>0, <2>2
        <4> QED BY <4>1, ConcatMessages
      <3>3. Below("steer", D \o S, u)
        BY <1>0, <1>i, <2>4 DEF Below, D, S
      <3>4. Ordered("steer", (D \o S) \o u)
        BY <1>f, <2>2, <2>4, <3>1, <3>3, OrderedConcat
      <3> QED BY <2>1, <2>3, <3>2, <3>4
    <2>8. nextId \notin discarded /\ nextId \notin IdsOf(F)
      BY <1>0, <1>f
    <2> QED BY <1>0, <1>f, <1>g, <2>1, <2>5, <2>6, <2>7, <2>8
  <1>6. CASE Delivered' = Delivered /\ FollowUp
    <2> DEFINE u == <<User("followUp", nextId)>>
    <2>1. /\ D' = D /\ F' = Append(F, User("followUp", nextId)) /\ S' = S
          /\ discarded' = discarded /\ nextId' = nextId + 1
      BY <1>6 DEF FollowUp, D, S, F
    <2>2. u \in Seq(Message) /\ User("followUp", nextId) \in Message
      BY <1>0, MessageTypes
    <2>3. F' = F \o u
      BY <1>0, <2>1, <2>2
    <2>4. /\ IdsOf(u) = {nextId} /\ IdsVia("followUp", u) = {nextId}
          /\ CameBy("followUp", u) /\ Ordered("followUp", u)
      BY OneUser DEF CameBy
    <2> HIDE DEF u
    <2>5. IdsOf(F') = IdsOf(F) \cup {nextId}
      BY <1>0, <2>2, <2>3, <2>4, IdsConcat
    <2>6. CameBy("followUp", F')
      <3>1. \A v : IdsVia(v, F \o u) = IdsVia(v, F) \cup IdsVia(v, u)
        BY <1>0, <2>2, IdsViaConcat
      <3>2. ASSUME NEW v, v # "followUp" PROVE IdsVia(v, F') = {}
        <4>1. IdsVia(v, F) = {} /\ IdsVia(v, u) = {}
          BY <1>f, <2>4, <3>2 DEF CameBy
        <4> QED BY <2>3, <3>1, <4>1
      <3> QED BY <3>2 DEF CameBy
    <2>7. Ordered("followUp", D' \o F')
      <3>1. D \o F \in Seq(Message)
        BY <1>0, ConcatType
      <3>2. (D \o F) \o u = D \o (F \o u)
        <4>1. D \in Seq(Message) /\ F \in Seq(Message) /\ u \in Seq(Message)
          BY <1>0, <2>2
        <4> QED BY <4>1, ConcatMessages
      <3>3. Below("followUp", D \o F, u)
        BY <1>0, <1>i, <2>4 DEF Below, D, F
      <3>4. Ordered("followUp", (D \o F) \o u)
        BY <1>f, <2>2, <2>4, <3>1, <3>3, OrderedConcat
      <3> QED BY <2>1, <2>3, <3>2, <3>4
    <2>8. nextId \notin discarded /\ nextId \notin IdsOf(S)
      BY <1>0, <1>f
    <2> QED BY <1>0, <1>f, <1>g, <2>1, <2>5, <2>6, <2>7, <2>8
  <1>e. /\ IdsOf(<<>>) = {} /\ \A v : IdsVia(v, <<>>) = {}
        /\ \A v : Ordered(v, <<>>)
    BY DEF IdsOf, IdsVia, Ordered
  <1>d. Ordered("steer", D) /\ Ordered("followUp", D)
    BY <1>0, <1>f, OrderedConcat
  <1>7. CASE Delivered' = Delivered /\ ClearSteeringQueue
    <2>1. /\ D' = D /\ S' = <<>> /\ F' = F /\ nextId' = nextId
          /\ discarded' = discarded \cup IdsOf(S)
      BY <1>7 DEF ClearSteeringQueue, D, S, F
    <2>2. D' \o S' = D
      BY <1>0, <2>1
    <2> QED BY <1>d, <1>e, <1>f, <1>g, <2>1, <2>2 DEF CameBy
  <1>8. CASE Delivered' = Delivered /\ ClearFollowUpQueue
    <2>1. /\ D' = D /\ F' = <<>> /\ S' = S /\ nextId' = nextId
          /\ discarded' = discarded \cup IdsOf(F)
      BY <1>8 DEF ClearFollowUpQueue, D, S, F
    <2>2. D' \o F' = D
      BY <1>0, <2>1
    <2> QED BY <1>d, <1>e, <1>f, <1>g, <2>1, <2>2 DEF CameBy
  <1>9. CASE Resets
    <2>1. /\ D' = <<>> /\ S' = <<>> /\ F' = <<>> /\ nextId' = nextId
          /\ discarded' = UNION {discarded, IdsOf(D), IdsOf(S), IdsOf(F)}
      BY <1>9 DEF Resets, D, S, F
    <2>2. D' \o S' = <<>> /\ D' \o F' = <<>>
      BY <2>1
    <2> QED BY <1>e, <1>f, <1>g, <2>1, <2>2 DEF CameBy
  <1> QED BY <1>1, <1>2, <1>3, <1>4, <1>5, <1>6, <1>7, <1>8, <1>9 DEF Flows

\* What the run has appended so far, and how a step of the model or of the
\* tools extends it.
Base == messages \o newMessages

LEMMA BaseOf ==
  ASSUME RunInv, phase # "idle"
  PROVE  /\ Base \in Seq(Message)
         /\ ~started => context = Base
         /\ started => Partial \in AssistantMessage /\ context = Append(Base, Partial)
         /\ \A m \in Message : phase = "stream" => Put(m) = Append(Base, m)
  <1>1. messages \in Seq(Message) /\ newMessages \in Seq(Message)
    BY DEF RunInv, TypeInv, TypeOK
  <1>2. Base \in Seq(Message)
    BY <1>1, ConcatType DEF Base
  <1>3. ~started => context = Base
    BY DEF RunInv, Added, Base
  <1>4. ASSUME started
        PROVE  Partial \in AssistantMessage /\ context = Append(Base, Partial)
    <2>1. Partial \in AssistantMessage /\ Partial \in Message
      BY <1>4, MessageTypes DEF RunInv, TypeInv, StreamShape
    <2>2. context = messages \o Append(newMessages, Partial)
      BY <1>4 DEF RunInv, Added
    <2> QED BY <1>1, <2>1, <2>2, AppendConcat DEF Base
  <1>5. \A m \in Message : phase = "stream" => Put(m) = Append(Base, m)
    BY <1>1, PutAdds, AppendConcat DEF Base
  <1> QED BY <1>2, <1>3, <1>4, <1>5

LEMMA SameUsersTransitive ==
  \A s, t, u : SameUsers(s, t) /\ SameUsers(s, u) => SameUsers(t, u)
  BY DEF SameUsers

\* A message of the model, started or complete, adds no user message.
LEMMA PutUsers ==
  ASSUME RunInv, phase = "stream", NEW m \in Message, m.role # "user"
  PROVE  SameUsers(context, Put(m))
  <1>1. Base \in Seq(Message) /\ Put(m) = Append(Base, m)
    BY BaseOf
  <1>2. SameUsers(Base, Put(m))
    BY <1>1, SilentAppend
  <1>3. SameUsers(Base, context)
    <2>1. CASE started
      <3>1. /\ Partial \in AssistantMessage
            /\ context = Append(Base, Partial)
        BY <2>1, BaseOf
      <3> HIDE DEF Partial
      <3>2. Partial \in Message /\ Partial.role # "user"
        BY <3>1, MessageTypes DEF AssistantMessage
      <3> QED BY <1>1, <3>1, <3>2, SilentAppend
    <2>2. CASE ~started
      BY <2>2, BaseOf DEF SameUsers
    <2> QED BY <2>1, <2>2
  <1> QED BY <1>2, <1>3, SameUsersTransitive

\* Every step moves messages as Flows says, and drained messages wait only for
\* the injection.
PendingWaits == pending # <<>> => phase = "inject"

LEMMA ResultsSilent == \A r, n : ResultsOf(r, n) => r \in Seq(Message) /\ NoUser(r)
  BY DEF ResultsOf, NoUser

\* A step that leaves nothing pending before and after talks in the context.
LEMMA TalkInContext ==
  ASSUME TypeInv, TypeInv', pending = <<>>, pending' = <<>>,
         SameUsers(context, context'), UNCHANGED <<queues, inputs>>
  PROVE  Flows /\ PendingWaits'
  <1>1. context \o <<>> = context /\ context' \o <<>> = context'
    BY DEF TypeInv, TypeOK
  <1>2. Delivered = context /\ Delivered' = context'
    BY <1>1 DEF Delivered
  <1> QED BY <1>2 DEF Flows, Talks, PendingWaits

LEMMA FlowStream ==
  ASSUME RunInv, TypeInv', PendingWaits, Stream
  PROVE  Flows /\ PendingWaits'
  <1>0. TypeInv /\ context \in Seq(Message)
    BY DEF RunInv, TypeInv, TypeOK
  <1>1. ASSUME NEW n \in 0..MaxCalls, context' = Put(Assistant("Partial", n)),
               phase = "stream", UNCHANGED <<pending, queues, inputs>>
        PROVE  Flows /\ PendingWaits'
    <2> DEFINE m == Assistant("Partial", n)
    <2>1. m \in Message /\ m.role # "user"
      BY MessageTypes DEF Assistant
    <2>2. pending = <<>>
      BY <1>1 DEF PendingWaits
    <2> QED BY <1>0, <1>1, <2>1, <2>2, PutUsers, TalkInContext
  <1>2. CASE StreamStart
    BY <1>1, <1>2, BoundsAssumption DEF StreamStart
  <1>3. CASE StreamDelta
    <2>1. Partial.calls + 1 \in 0..MaxCalls
      BY <1>3, BoundsAssumption DEF StreamDelta, RunInv, TypeInv, StreamShape,
                                    AssistantMessage
    <2> QED BY <1>1, <1>3, <2>1 DEF StreamDelta, loop
  <1>4. ASSUME NEW n \in 0..MaxCalls, NEW s \in Failure, StreamFails(s, n)
        PROVE  Flows /\ PendingWaits'
    <2> DEFINE m == Assistant(s, n)
    <2>1. m \in Message /\ m.role # "user"
      BY MessageTypes DEF Assistant
    <2>2. /\ context' = Put(m) /\ phase = "stream" /\ pending' = <<>>
          /\ pending = <<>> /\ UNCHANGED <<queues, inputs>>
      BY <1>4 DEF StreamFails, FinishOk, DropLocals, PendingWaits
    <2> QED BY <1>0, <2>1, <2>2, PutUsers, TalkInContext
  <1>5. ASSUME NEW n \in 0..MaxCalls, NEW s \in Complete, StreamDone(s, n)
        PROVE  Flows /\ PendingWaits'
    <2> DEFINE m == Assistant(s, n)
               results == IF s = "Length" THEN TruncatedResults(n) ELSE <<>>
    <2>1. m \in Message /\ m.role # "user"
      BY MessageTypes DEF Assistant
    <2>2. /\ context' = Put(m) \o results /\ phase = "stream"
          /\ pending' = pending /\ UNCHANGED <<queues, inputs>>
      BY <1>5 DEF StreamDone
    <2>3. pending = <<>>
      BY <2>2 DEF PendingWaits
    <2>4. results \in Seq(Message) /\ NoUser(results)
      BY Truncated, ResultsSilent DEF NoUser
    <2>5. Put(m) \in Seq(Message)
      BY <1>0, <2>1, PutType
    <2>6. SameUsers(context, Put(m))
      BY <2>1, <2>2, PutUsers
    <2> HIDE DEF m, results
    <2>7. SameUsers(Put(m), context')
      BY <2>2, <2>4, <2>5, SilentTail
    <2>8. SameUsers(context, context')
      BY <2>6, <2>7 DEF SameUsers
    <2> QED BY <1>0, <2>2, <2>3, <2>8, TalkInContext
  <1> QED BY <1>2, <1>3, <1>4, <1>5 DEF Stream, Ends

LEMMA FlowEntry ==
  ASSUME RunInv, TypeInv', PendingWaits, Entry
  PROVE  Flows /\ PendingWaits'
  <1>0. /\ messages \in Seq(Message) /\ steering \in Seq(UserMessage)
        /\ followUp \in Seq(UserMessage) /\ nextId \in Nat \ {0}
    BY DEF RunInv, TypeInv, TypeOK
  <1>1. ASSUME NEW prompts \in Seq(Message), NEW first,
               StartRun(prompts, first)
        PROVE  /\ Delivered = messages /\ Delivered' = messages \o prompts
               /\ discarded' = discarded /\ PendingWaits'
    <2>1. /\ pending = <<>> /\ pending' = <<>> /\ context = messages
          /\ context' = messages \o prompts
      BY <1>1 DEF StartRun, RunInv, PendingWaits
    <2> QED BY <1>0, <1>1, <2>1 DEF Delivered, StartRun, PendingWaits
  <1>2. CASE Prompt
    <2>1. <<User("prompt", nextId)>> \in Seq(Message)
      BY <1>0, MessageTypes
    <2> QED BY <1>1, <1>2, <2>1 DEF Prompt, Flows, TakesPrompt
  <1>3. CASE ContinueWithSteering
    <2>1. Drain(steering, mode.steering) \in Seq(Message)
      BY <1>0, DrainType, UserSeq
    <2>2. TakesSteering(mode.steering) /\ PendingWaits'
      BY <1>1, <1>3, <2>1 DEF ContinueWithSteering, TakesSteering, inputs
    <2> QED BY <2>2 DEF Flows
  <1>4. CASE ContinueWithFollowUp
    <2>1. Drain(followUp, mode.followUp) \in Seq(Message)
      BY <1>0, DrainType, UserSeq
    <2>2. TakesFollowUp(mode.followUp) /\ PendingWaits'
      BY <1>1, <1>4, <2>1 DEF ContinueWithFollowUp, TakesFollowUp, inputs
    <2> QED BY <2>2 DEF Flows
  <1>5. CASE RunContinuation
    <2>1. <<>> \in Seq(Message) /\ messages \o <<>> = messages
      BY <1>0
    <2>2. Delivered' = Delivered /\ PendingWaits' /\ UNCHANGED <<queues, inputs>>
      BY <1>1, <1>5, <2>1 DEF RunContinuation, inputs
    <2> QED BY <2>2 DEF Flows, Talks, SameUsers
  <1> QED BY <1>2, <1>3, <1>4, <1>5 DEF Entry

LEMMA FlowOthers ==
  ASSUME RunInv, TypeInv', PendingWaits, Others
  PROVE  Flows /\ PendingWaits'
  <1>1. CASE OtherTask /\ (Steer \/ FollowUp \/ ClearSteeringQueue
                                  \/ ClearFollowUpQueue)
    BY <1>1 DEF OtherTask, transcript, loop, Delivered, Flows, PendingWaits
  <1>2. CASE Abort \/ SetMode
    BY <1>2 DEF Abort, OtherTask, SetMode, transcript, loop, Delivered, Flows,
                Talks, SameUsers, PendingWaits
  <1>3. CASE Reset
    <2>1. /\ context = messages /\ pending = <<>> /\ pending' = <<>>
          /\ context' = <<>> /\ messages \in Seq(Message)
      BY <1>3 DEF Reset, RunInv, TypeInv, TypeOK, PendingWaits, loop
    <2>2. Delivered = messages /\ Delivered' = <<>>
      BY <2>1 DEF Delivered
    <2> QED BY <1>3, <2>1, <2>2 DEF Reset, Flows, Resets, PendingWaits
  <1> QED BY <1>1, <1>2, <1>3
          DEF Others, Steer, FollowUp, ClearSteeringQueue, ClearFollowUpQueue

LEMMA FlowLoop ==
  ASSUME RunInv, TypeInv', PendingWaits, Loop
  PROVE  Flows /\ PendingWaits'
  <1>0. /\ TypeInv /\ context \in Seq(Message) /\ context' \in Seq(Message)
        /\ steering \in Seq(UserMessage) /\ followUp \in Seq(UserMessage)
        /\ pending \in Seq(Message) /\ batch.n \in 0..MaxCalls
    BY UserSeq DEF RunInv, TypeInv, TypeOK
  <1>1. ASSUME context' = context, pending = <<>>, pending' = <<>>,
               UNCHANGED <<queues, inputs>>
        PROVE  Flows /\ PendingWaits'
    BY <1>1, <1>0, TalkInContext DEF SameUsers
  <1>2. CASE PollSteering
    <2>1. /\ phase = "poll" /\ pending = <<>> /\ context' = context
          /\ followUp' = followUp /\ inputs' = inputs
          /\ pending' # <<>> => phase' = "inject"
      BY <1>2 DEF PollSteering, PendingWaits, transcript
    <2>2. CASE cancelled
      <3>1. pending' = <<>> /\ steering' = steering
        BY <1>2, <2>2 DEF PollSteering
      <3> QED BY <1>1, <2>1, <3>1 DEF queues
    <2>3. CASE ~cancelled
      <3>1. /\ pending' = Drain(steering, mode.steering)
            /\ steering' = Undrained(steering, mode.steering)
        BY <1>2, <2>3 DEF PollSteering
      <3>2. Delivered = context /\ Delivered' = context \o pending'
        BY <1>0, <2>1 DEF Delivered
      <3> QED BY <2>1, <3>1, <3>2 DEF Flows, TakesSteering, PendingWaits
    <2> QED BY <2>2, <2>3
  <1>3. CASE InjectPending
    <2>1. /\ context' = context \o pending /\ pending' = <<>>
          /\ UNCHANGED <<queues, inputs>>
      BY <1>3 DEF InjectPending
    <2>2. Delivered' = Delivered
      BY <1>0, <2>1 DEF Delivered
    <2> QED BY <2>1, <2>2 DEF Flows, Talks, SameUsers, PendingWaits
  <1>4. ASSUME NEW m \in Message, m.role # "user", context' = Append(context, m),
               pending = <<>>, pending' = <<>>, UNCHANGED <<queues, inputs>>
        PROVE  Flows /\ PendingWaits'
    BY <1>0, <1>4, SilentAppend, TalkInContext
  <1>5. CASE RequestAborted
    <2>1. /\ Assistant("Aborted", 0) \in Message
          /\ Assistant("Aborted", 0).role # "user"
      BY MessageTypes, BoundsAssumption DEF Failure, Assistant
    <2> QED BY <1>4, <1>5, <2>1
            DEF RequestAborted, FinishOk, DropLocals, PendingWaits
  <1>6. CASE Request
    BY <1>1, <1>6 DEF Request, transcript, loop, PendingWaits
  <1>7. CASE EndBatch
    <2>1. BatchResults \in Seq(Message) /\ NoUser(BatchResults)
      BY <1>0, Batched, ResultsSilent
    <2>2. /\ context' = context \o BatchResults /\ pending' = pending
          /\ phase = "tools" /\ UNCHANGED <<queues, inputs>>
      BY <1>7 DEF EndBatch, BatchResults
    <2> QED BY <1>0, <2>1, <2>2, SilentTail, TalkInContext DEF PendingWaits
  <1>8. CASE TurnEndStop
    BY <1>1, <1>8 DEF TurnEndStop, FinishOk, DropLocals, PendingWaits
  <1>9. CASE TurnEndContinue
    BY <1>1, <1>9 DEF TurnEndContinue, transcript, loop, PendingWaits
  <1>10. CASE PollFollowUp
    <2>1. /\ phase = "followUp" /\ pending = <<>> /\ context' = context
          /\ steering' = steering /\ inputs' = inputs
      BY <1>10 DEF PollFollowUp, FinishOk, PendingWaits
    <2>2. CASE followUp' = followUp /\ FinishOk(context, runtime.error)
      BY <1>1, <2>1, <2>2 DEF FinishOk, DropLocals, queues
    <2>3. CASE /\ phase' = "inject"
               /\ pending' = Drain(followUp, mode.followUp)
               /\ followUp' = Undrained(followUp, mode.followUp)
      <3>1. Delivered = context /\ Delivered' = context \o pending'
        BY <1>0, <2>1 DEF Delivered
      <3> QED BY <2>1, <2>3, <3>1 DEF Flows, TakesFollowUp, PendingWaits
    <2> QED BY <1>10, <2>2, <2>3 DEF PollFollowUp
  <1>11. CASE FinishErr
    <2> DEFINE m == Assistant(IF cancelled THEN "Aborted" ELSE "Error", 0)
    <2>1. m \in Message /\ m.role # "user"
      BY MessageTypes, BoundsAssumption DEF Failure, Assistant
    <2>2. /\ context' = Append(context, m) /\ pending' = <<>> /\ pending = <<>>
          /\ UNCHANGED <<queues, inputs>>
      BY <1>11 DEF FinishErr, DropLocals, PendingWaits
    <2> QED BY <1>4, <2>1, <2>2
  <1> QED
    BY <1>2, <1>3, <1>5, <1>6, <1>7, <1>8, <1>9, <1>10, <1>11 DEF Loop

LEMMA FlowSteps ==
  ASSUME RunInv, TypeInv', PendingWaits, [Next]_vars
  PROVE  Flows /\ PendingWaits'
  <1>1. CASE UNCHANGED <<phase, context, pending, queues, inputs>>
    BY <1>1 DEF Flows, Talks, SameUsers, Delivered, PendingWaits
  <1>2. CASE \E i \in Call : Tool(i)
    <2>1. ToolFrame
      BY <1>2 DEF Tool, BeginTool, PrepareTool, StartTool, ToolReturns,
                  AbortTool, EndTool
    <2> QED BY <1>1, <2>1 DEF ToolFrame, transcript, loop
  <1>3. CASE UNCHANGED vars
    BY <1>1, <1>3 DEF vars, transcript, loop
  <1> QED BY <1>2, <1>3, FlowEntry, FlowStream, FlowLoop, FlowOthers DEF Next

LEMMA FlowStep == RunInv /\ RunInv' /\ FlowInv /\ [Next]_vars => FlowInv'
  <1> SUFFICES ASSUME RunInv, RunInv', FlowInv, [Next]_vars PROVE FlowInv'
    OBVIOUS
  <1>1. TypeInv /\ TypeInv' /\ PendingWaits
    BY DEF RunInv, FlowInv, PendingWaits
  <1>2. Flows /\ PendingWaits'
    BY <1>1, FlowSteps
  <1> QED BY <1>1, <1>2, FlowKeeps DEF PendingWaits

LEMMA FlowHolds == Spec => [](RunInv /\ FlowInv)
  BY RunInit, RunStep, FlowInit, FlowStep, PTL DEF Spec

\* No user message is lost, through failed and aborted runs, interleaved
\* submissions, clears and resets.
THEOREM NoneLost == Spec => []NoMessageLost
  <1>1. RunInv /\ FlowInv => NoMessageLost
    <2> SUFFICES ASSUME RunInv, FlowInv PROVE NoMessageLost
      OBVIOUS
    <2>1. context \in Seq(Message) /\ pending \in Seq(Message)
      BY UserSeq DEF RunInv, TypeInv, TypeOK
    <2>2. IdsOf(Delivered) = IdsOf(context) \cup IdsOf(pending)
      BY <2>1, IdsConcat DEF Delivered
    <2> QED BY <2>2 DEF FlowInv, NoMessageLost
  <1> QED BY <1>1, FlowHolds, PTL

\* Each queue delivers in the order of submission, and never twice.
THEOREM InOrder == Spec => []QueuesDeliverInOrder
  <1>1. FlowInv => QueuesDeliverInOrder
    BY DEF FlowInv, QueuesDeliverInOrder, Delivered
  <1> QED BY <1>1, FlowHolds, PTL

\* A cancelled run takes nothing more from the queues, opens no stream and
\* starts no tool: what it may still do is end.
THEOREM AbortFreezes == Spec => AbortFreezesRun
  <1> DEFINE Frozen ==
        phase # "idle" /\ cancelled =>
          /\ discarded' = discarded => /\ Len(steering') >= Len(steering)
                                       /\ Len(followUp') >= Len(followUp)
          /\ phase # "stream" => phase' # "stream"
          /\ \A i \in Call : slot'[i].stage = "executing"
                             => slot[i].stage = "executing"
  <1>1. RunInv /\ FlowInv /\ MirrorInv /\ [Next]_vars => [Frozen]_vars
    <2> SUFFICES ASSUME RunInv, FlowInv, MirrorInv, [Next]_vars,
                        phase # "idle", cancelled
                 PROVE  Frozen
      OBVIOUS
    <2>0. /\ steering \in Seq(UserMessage) /\ followUp \in Seq(UserMessage)
          /\ nextId \in Nat \ {0} /\ TypeInv /\ slot \in [Call -> Slot]
      BY DEF RunInv, TypeInv, TypeOK
    <2>1. ASSUME UNCHANGED queues, phase # "stream" => phase' # "stream",
                 slot' = slot \/ slot' = NoSlots
          PROVE  Frozen
      BY <2>0, <2>1 DEF queues, NoSlots
    <2>2. CASE UNCHANGED vars
      BY <2>1, <2>2 DEF vars, tools
    <2>3. CASE Entry
      BY <2>3 DEF Entry, Prompt, ContinueWithSteering, ContinueWithFollowUp,
                  RunContinuation, StartRun
    <2>4. CASE Stream
      BY <2>1, <2>4 DEF Stream, Ends, StreamStart, StreamDelta, StreamFails,
                        StreamDone, FinishOk, tools
    <2>5. ASSUME NEW i \in Call, Tool(i) PROVE Frozen
      <3>1. ToolFrame /\ slot[i] \in Slot
        BY <2>0, <2>5 DEF Tool, BeginTool, PrepareTool, StartTool, ToolReturns,
                          AbortTool, EndTool
      <3>2. phase' = phase /\ UNCHANGED queues
        BY <3>1 DEF ToolFrame
      <3>3. ASSUME NEW st \in Stage \ {"executing"}, NEW o, NEW t,
                   \/ slot' = [slot EXCEPT ![i].stage = st]
                   \/ slot' = [slot EXCEPT ![i].stage = st, ![i].out = o]
                   \/ slot' = [slot EXCEPT ![i].stage = st, ![i].terminate = t]
            PROVE  Frozen
        <4>1. \A j \in Call : slot'[j].stage = "executing"
                                => slot[j].stage = "executing"
          BY <2>0, <3>1, <3>3 DEF Slot
        <4> QED BY <2>0, <3>2, <4>1 DEF queues
      <3> HIDE DEF Frozen
      <3>4. CASE BeginTool(i)
        BY <3>3, <3>4 DEF BeginTool, Stage
      <3>5. CASE PrepareTool(i)
        BY <3>3, <3>5 DEF PrepareTool, Stage
      <3>6. CASE StartTool(i) \/ ToolReturns(i)
        BY <3>6 DEF StartTool, ToolReturns
      <3>7. CASE AbortTool(i)
        BY <3>3, <3>7 DEF AbortTool, Stage
      <3>8. CASE EndTool(i)
        BY <3>3, <3>8 DEF EndTool, Stage
      <3> QED BY <2>5, <3>4, <3>5, <3>6, <3>7, <3>8 DEF Tool
    <2>6. CASE Loop
      <3> HIDE DEF Frozen
      <3>1. CASE PollSteering
        BY <2>1, <3>1 DEF PollSteering, tools, queues
      <3>2. CASE InjectPending
        BY <2>1, <3>2 DEF InjectPending, tools
      <3>3. CASE RequestAborted
        BY <2>1, <3>3 DEF RequestAborted, FinishOk, tools
      <3>4. CASE Request
        BY <3>4 DEF Request
      <3>5. CASE EndBatch
        BY <2>1, <3>5 DEF EndBatch
      <3>6. CASE TurnEndStop
        BY <2>1, <3>6 DEF TurnEndStop, FinishOk, tools
      <3>7. CASE TurnEndContinue
        BY <3>7 DEF TurnEndContinue
      <3>8. CASE PollFollowUp
        BY <2>1, <3>8 DEF PollFollowUp, FinishOk, tools, queues
      <3>9. CASE FinishErr
        BY <2>1, <3>9 DEF FinishErr, tools
      <3> QED
        BY <2>6, <3>1, <3>2, <3>3, <3>4, <3>5, <3>6, <3>7, <3>8, <3>9 DEF Loop
    <2>7. CASE Others
      <3>1. /\ steering # <<>> => IdsOf(steering) # {}
            /\ followUp # <<>> => IdsOf(followUp) # {}
        <4>1. ASSUME NEW q \in Seq(UserMessage), q # <<>> PROVE q[1].id \in IdsOf(q)
          <5>1. 1 \in DOMAIN q /\ q[1] \in UserMessage
            BY <4>1
          <5> QED BY <5>1 DEF IdsOf, UserMessage
        <4> QED BY <2>0, <4>1
      <3>2. CASE Steer
        BY <2>0, <3>2 DEF Steer, OtherTask, tools
      <3>3. CASE FollowUp
        BY <2>0, <3>3 DEF FollowUp, OtherTask, tools
      <3>4. CASE ClearSteeringQueue
        <4>1. discarded' # discarded
          BY <3>1, <3>4 DEF ClearSteeringQueue, FlowInv
        <4> QED BY <3>4, <4>1 DEF ClearSteeringQueue, OtherTask, tools
      <3>5. CASE ClearFollowUpQueue
        <4>1. discarded' # discarded
          BY <3>1, <3>5 DEF ClearFollowUpQueue, FlowInv
        <4> QED BY <3>5, <4>1 DEF ClearFollowUpQueue, OtherTask, tools
      <3>6. CASE Abort
        BY <3>6 DEF Abort
      <3>7. CASE Reset \/ SetMode
        BY <3>7 DEF Reset, SetMode
      <3> QED BY <2>7, <3>2, <3>3, <3>4, <3>5, <3>6, <3>7 DEF Others
    <2> QED BY <2>2, <2>3, <2>4, <2>5, <2>6, <2>7 DEF Next
  <1> QED BY <1>1, FlowHolds, TypesHold, MirrorInit, MirrorStep, PTL
          DEF Spec, AbortFreezesRun

----------------------------------------------------------------------------
(* Tool calls are answered. *)

Completed(m) == m.role = "assistant" /\ m.stop \in Complete

\* What ToolCallsAnswered says of a transcript outside tool execution.
Whole(s) ==
  /\ \A k \in DOMAIN s : Completed(s[k]) =>
       \A i \in 1..s[k].calls :
         /\ k + i \in DOMAIN s
         /\ s[k + i].role = "toolResult"
         /\ s[k + i].call = i
  /\ \A k \in DOMAIN s : s[k].role = "toolResult" =>
       /\ k - s[k].call \in DOMAIN s
       /\ Completed(s[k - s[k].call])
       /\ s[k].call <= s[k - s[k].call].calls

\* Messages that neither call tools nor answer: users, failures, partials.
Inert(m) == m.role # "toolResult" /\ ~Completed(m)

LEMMA NumbersOf ==
  \A m \in Message : /\ Completed(m) => m.calls \in Nat
                     /\ m.role = "toolResult" => m.call \in Nat \ {0}
  BY BoundsAssumption
     DEF Completed, Message, UserMessage, AssistantMessage, ToolResultMessage

LEMMA WholeInert ==
  \A s, t \in Seq(Message) :
    Whole(s) /\ (\A k \in DOMAIN t : Inert(t[k])) => Whole(s \o t)
  <1> SUFFICES ASSUME NEW s \in Seq(Message), NEW t \in Seq(Message), Whole(s),
                      \A k \in DOMAIN t : Inert(t[k])
               PROVE  Whole(s \o t)
    OBVIOUS
  <1>1. /\ DOMAIN (s \o t) = 1..(Len(s) + Len(t))
        /\ DOMAIN s = 1..Len(s) /\ DOMAIN t = 1..Len(t)
        /\ Len(s) \in Nat /\ Len(t) \in Nat
        /\ \A k \in DOMAIN s : (s \o t)[k] = s[k]
        /\ \A k \in DOMAIN t : (s \o t)[Len(s) + k] = t[k]
    OBVIOUS
  <1>2. \A k \in DOMAIN (s \o t) : ~Inert((s \o t)[k]) => k \in DOMAIN s
    <2>1. ASSUME NEW k \in DOMAIN (s \o t), k \notin DOMAIN s
          PROVE  Inert((s \o t)[k])
      <3>1. k - Len(s) \in DOMAIN t /\ k = Len(s) + (k - Len(s))
        BY <1>1, <2>1
      <3>2. (s \o t)[k] = t[k - Len(s)]
        BY <1>1, <3>1
      <3> QED BY <3>1, <3>2
    <2> QED BY <2>1
  <1>3. ASSUME NEW k \in DOMAIN (s \o t), Completed((s \o t)[k]),
               NEW i \in 1..(s \o t)[k].calls
        PROVE  /\ k + i \in DOMAIN (s \o t)
               /\ (s \o t)[k + i].role = "toolResult"
               /\ (s \o t)[k + i].call = i
    <2>1. k \in DOMAIN s /\ (s \o t)[k] = s[k]
      BY <1>1, <1>2, <1>3 DEF Inert
    <2>2. k + i \in DOMAIN s /\ s[k + i].role = "toolResult" /\ s[k + i].call = i
      BY <1>3, <2>1 DEF Whole
    <2> QED BY <1>1, <2>2
  <1>4. ASSUME NEW k \in DOMAIN (s \o t), (s \o t)[k].role = "toolResult"
        PROVE  LET c == (s \o t)[k].call
               IN /\ k - c \in DOMAIN (s \o t)
                  /\ Completed((s \o t)[k - c])
                  /\ c <= (s \o t)[k - c].calls
    <2>1. k \in DOMAIN s /\ (s \o t)[k] = s[k]
      BY <1>1, <1>2, <1>4 DEF Inert
    <2>2. /\ k - s[k].call \in DOMAIN s /\ Completed(s[k - s[k].call])
          /\ s[k].call <= s[k - s[k].call].calls
      BY <1>4, <2>1 DEF Whole
    <2> QED BY <1>1, <2>1, <2>2
  <1> QED BY <1>3, <1>4 DEF Whole

\* A completed message and the results of its calls, in order.
LEMMA WholeAnswers ==
  \A s \in Seq(Message), m \in Message : \A r :
    Whole(s) /\ Completed(m) /\ ResultsOf(r, m.calls) => Whole(Append(s, m) \o r)
  <1> SUFFICES ASSUME NEW s \in Seq(Message), NEW m \in Message, NEW r,
                      Whole(s), Completed(m), ResultsOf(r, m.calls)
               PROVE  Whole(Append(s, m) \o r)
    OBVIOUS
  <1> DEFINE c == Append(s, m) \o r
             z == Len(s) + 1
  <1>0. m.calls \in Nat /\ r \in Seq(Message) /\ Len(r) = m.calls
    BY NumbersOf DEF ResultsOf
  <1>1. /\ DOMAIN c = 1..(z + m.calls) /\ DOMAIN s = 1..Len(s)
        /\ Len(s) \in Nat /\ z \in Nat
        /\ \A k \in DOMAIN s : c[k] = s[k]
        /\ c[z] = m
        /\ \A i \in 1..m.calls : c[z + i] = r[i]
    BY <1>0
  <1> HIDE DEF c
  <1>2. \A i \in 1..m.calls : c[z + i].role = "toolResult" /\ c[z + i].call = i
    BY <1>1 DEF ResultsOf
  <1>3. \A k \in DOMAIN c : \/ k \in DOMAIN s \/ k = z
                            \/ (k - z \in 1..m.calls /\ k = z + (k - z))
    BY <1>0, <1>1
  <1> HIDE DEF z
  <1>4. ASSUME NEW k \in DOMAIN c, Completed(c[k]), NEW i \in 1..c[k].calls
        PROVE  /\ k + i \in DOMAIN c
               /\ c[k + i].role = "toolResult" /\ c[k + i].call = i
    <2>1. CASE k \in DOMAIN s
      <3>1. k + i \in DOMAIN s /\ s[k + i].role = "toolResult" /\ s[k + i].call = i
        BY <1>1, <1>4, <2>1 DEF Whole
      <3> QED BY <1>0, <1>1, <3>1 DEF z
    <2>2. CASE k = z
      <3>1. i \in 1..m.calls
        BY <1>1, <2>2
      <3>2. z + i \in 1..(z + m.calls)
        BY <1>0, <1>1, <3>1
      <3> QED BY <1>1, <1>2, <2>2, <3>1, <3>2
    <2>3. CASE k - z \in 1..m.calls /\ k = z + (k - z)
      BY <1>2, <1>4, <2>3 DEF Completed
    <2> QED BY <1>3, <2>1, <2>2, <2>3
  <1>5. ASSUME NEW k \in DOMAIN c, c[k].role = "toolResult"
        PROVE  /\ k - c[k].call \in DOMAIN c
               /\ Completed(c[k - c[k].call])
               /\ c[k].call <= c[k - c[k].call].calls
    <2>1. CASE k \in DOMAIN s
      <3>1. c[k] = s[k]
        BY <1>1, <2>1
      <3>2. /\ k - s[k].call \in DOMAIN s /\ Completed(s[k - s[k].call])
            /\ s[k].call <= s[k - s[k].call].calls
        BY <1>5, <2>1, <3>1 DEF Whole
      <3> QED BY <1>0, <1>1, <3>1, <3>2 DEF z
    <2>2. CASE k = z
      BY <1>1, <1>5, <2>2 DEF Completed
    <2>3. CASE k - z \in 1..m.calls /\ k = z + (k - z)
      <3>1. c[k].call = k - z
        BY <1>2, <2>3
      <3>2. k - c[k].call = z
        BY <1>1, <2>3, <3>1
      <3>3. z \in DOMAIN c /\ k - z <= m.calls
        BY <1>0, <1>1, <2>3, z > 0 DEF z
      <3>4. c[z] = m
        BY <1>1
      <3> QED BY <3>1, <3>2, <3>3, <3>4
    <2> QED BY <1>3, <2>1, <2>2, <2>3
  <1>6. Whole(c)
    BY <1>4, <1>5 DEF Whole
  <1> QED BY <1>6 DEF c

\* The transcript is whole except for the message the model is streaming and
\* for the one whose calls are being executed.
Executing(s, n) ==
  \E b \in Seq(Message), m \in Message :
    s = Append(b, m) /\ Whole(b) /\ Completed(m) /\ m.calls = n

AnswerInv ==
  /\ phase \notin {"stream", "tools"} => Whole(context)
  /\ phase = "stream" => Whole(Base) /\ (started => Partial.stop = "Partial")
  /\ phase = "tools" => Executing(context, batch.n)

LEMMA WholeAppend ==
  \A s \in Seq(Message), m \in Message :
    Whole(s) /\ Inert(m) => Whole(Append(s, m))
  <1> SUFFICES ASSUME NEW s \in Seq(Message), NEW m \in Message, Whole(s),
                      Inert(m)
               PROVE  Whole(Append(s, m))
    OBVIOUS
  <1>1. /\ <<m>> \in Seq(Message) /\ Append(s, m) = s \o <<m>>
        /\ \A k \in DOMAIN <<m>> : Inert(<<m>>[k])
    OBVIOUS
  <1> QED BY <1>1, WholeInert

LEMMA UsersInert == \A q \in Seq(UserMessage) : \A k \in DOMAIN q : Inert(q[k])
  <1>1. \A m \in UserMessage : Inert(m)
    BY DEF UserMessage, Inert, Completed
  <1>2. ASSUME NEW q \in Seq(UserMessage), NEW k \in DOMAIN q
        PROVE  q[k] \in UserMessage
    OBVIOUS
  <1> QED BY <1>1, <1>2

LEMMA AssistantsInert ==
  \A s \in Failure \cup {"Partial"}, n \in 0..MaxCalls :
    Assistant(s, n) \in Message /\ Inert(Assistant(s, n))
  BY MessageTypes DEF Inert, Completed, Assistant, Complete, Failure

LEMMA AnswerInit == Init => AnswerInv
  BY DEF Init, AnswerInv, Whole

\* What the invariant says in the properties' words.
LEMMA AnswerHolds == RunInv /\ AnswerInv => ToolCallsAnswered
  <1> SUFFICES ASSUME RunInv, AnswerInv PROVE ToolCallsAnswered
    OBVIOUS
  <1>1. CASE phase \notin {"stream", "tools"}
    BY <1>1 DEF AnswerInv, Whole, Completed, ToolCallsAnswered
  <1>2. CASE phase = "stream"
    <2>1. Whole(context)
      <3>1. CASE ~started
        BY <1>2, <3>1, BaseOf DEF AnswerInv
      <3>2. CASE started
        <4>1. /\ Partial \in AssistantMessage /\ Partial.stop = "Partial"
              /\ context = Append(Base, Partial) /\ Whole(Base)
              /\ Base \in Seq(Message)
          BY <1>2, <3>2, BaseOf DEF AnswerInv
        <4> HIDE DEF Partial
        <4>2. Partial \in Message /\ Inert(Partial)
          BY <4>1, MessageTypes
             DEF Inert, Completed, Complete, AssistantMessage
        <4> QED BY <4>1, <4>2, WholeAppend
      <3> QED BY <3>1, <3>2
    <2> QED BY <1>2, <2>1 DEF Whole, Completed, ToolCallsAnswered
  <1>3. CASE phase = "tools"
    <2>1. PICK b \in Seq(Message), m \in Message :
            context = Append(b, m) /\ Whole(b) /\ Completed(m)
      BY <1>3 DEF AnswerInv, Executing
    <2>2. /\ Len(context) = Len(b) + 1 /\ DOMAIN context = 1..(Len(b) + 1)
          /\ DOMAIN b = 1..Len(b) /\ Len(b) \in Nat
          /\ \A k \in DOMAIN b : context[k] = b[k]
          /\ context[Len(context)] = m
      BY <2>1
    <2>3. ASSUME NEW k \in DOMAIN context, Completed(context[k]),
                 k # Len(context), NEW i \in 1..context[k].calls
          PROVE  /\ k + i \in DOMAIN context
                 /\ context[k + i].role = "toolResult"
                 /\ context[k + i].call = i
      <3>1. k \in DOMAIN b /\ context[k] = b[k]
        BY <2>2, <2>3
      <3>2. /\ k + i \in DOMAIN b /\ b[k + i].role = "toolResult"
            /\ b[k + i].call = i
        BY <2>1, <2>3, <3>1 DEF Whole
      <3> QED BY <2>2, <3>2
    <2>4. ASSUME NEW k \in DOMAIN context, context[k].role = "toolResult"
          PROVE  LET c == context[k].call
                 IN /\ k - c \in DOMAIN context
                    /\ Completed(context[k - c])
                    /\ c <= context[k - c].calls
      <3>1. k \in DOMAIN b /\ context[k] = b[k]
        BY <2>1, <2>2, <2>4 DEF Completed
      <3>2. /\ k - b[k].call \in DOMAIN b /\ Completed(b[k - b[k].call])
            /\ b[k].call <= b[k - b[k].call].calls
        BY <2>1, <2>4, <3>1 DEF Whole
      <3> QED BY <2>2, <3>1, <3>2
    <2>5. \A k \in DOMAIN context :
            /\ context[k].role = "assistant" /\ context[k].stop \in Complete
            /\ ~(phase = "tools" /\ k = Len(context))
            => \A i \in 1..context[k].calls :
                 /\ k + i \in DOMAIN context
                 /\ context[k + i].role = "toolResult"
                 /\ context[k + i].call = i
      BY <1>3, <2>3 DEF Completed
    <2>6. \A k \in DOMAIN context : context[k].role = "toolResult" =>
            LET c == context[k].call
            IN /\ k - c \in DOMAIN context
               /\ context[k - c].role = "assistant"
               /\ context[k - c].stop \in Complete
               /\ c <= context[k - c].calls
      BY <2>4 DEF Completed
    <2> QED BY <2>5, <2>6 DEF ToolCallsAnswered
  <1> QED BY <1>1, <1>2, <1>3

LEMMA AnswerStream ==
  ASSUME RunInv, AnswerInv, Stream
  PROVE  AnswerInv'
  <1>0. /\ context \in Seq(Message) /\ phase = "stream" /\ TypeInv
        /\ Base \in Seq(Message) /\ Whole(Base)
    BY BaseOf DEF RunInv, TypeInv, TypeOK, Stream, Ends, StreamStart,
                  StreamDelta, StreamDone, StreamFails, AnswerInv
  <1>1. ASSUME NEW n \in 0..MaxCalls, context' = Put(Assistant("Partial", n)),
               phase' = "stream", UNCHANGED <<messages, newMessages>>
        PROVE  AnswerInv'
    <2> DEFINE m == Assistant("Partial", n)
    <2>1. m \in Message /\ m.stop = "Partial"
      BY MessageTypes DEF Assistant
    <2>2. Partial' = m
      BY <1>0, <1>1, <2>1, PutType DEF Partial
    <2>3. Base' = Base
      BY <1>1 DEF Base
    <2> QED BY <1>0, <1>1, <2>1, <2>2, <2>3 DEF AnswerInv
  <1>2. CASE StreamStart
    BY <1>1, <1>2, BoundsAssumption DEF StreamStart
  <1>3. CASE StreamDelta
    <2>1. Partial.calls + 1 \in 0..MaxCalls
      BY <1>3, BoundsAssumption DEF StreamDelta, RunInv, TypeInv, StreamShape,
                                    AssistantMessage
    <2> QED BY <1>1, <1>3, <2>1 DEF StreamDelta, loop
  <1>4. ASSUME NEW n \in 0..MaxCalls, NEW s \in Failure, StreamFails(s, n)
        PROVE  AnswerInv'
    <2> DEFINE m == Assistant(s, n)
    <2>1. m \in Message /\ Inert(m)
      BY AssistantsInert
    <2>2. context' = Put(m) /\ phase' = "idle"
      BY <1>4 DEF StreamFails, FinishOk
    <2>3. Put(m) = Append(Base, m)
      BY <1>0, <2>1, BaseOf
    <2> HIDE DEF m
    <2>4. Whole(context')
      BY <1>0, <2>1, <2>2, <2>3, WholeAppend
    <2> QED BY <2>2, <2>4 DEF AnswerInv
  <1>5. ASSUME NEW n \in 0..MaxCalls, NEW s \in Complete, StreamDone(s, n)
        PROVE  AnswerInv'
    <2> DEFINE m == Assistant(s, n)
               results == IF s = "Length" THEN TruncatedResults(n) ELSE <<>>
    <2>1. m \in Message /\ Completed(m) /\ m.calls = n
      BY MessageTypes DEF Assistant, Completed
    <2>2. context' = Put(m) \o results
      BY <1>5 DEF StreamDone
    <2>3. Put(m) = Append(Base, m)
      BY <1>0, <2>1, BaseOf
    <2>4. CASE n > 0 /\ s # "Length" /\ phase' = "tools" /\ batch'.n = n
      <3>1. context' = Append(Base, m)
        <4>1. results = <<>>
          BY <2>4
        <4> HIDE DEF m, results
        <4> QED BY <1>0, <2>1, <2>2, <2>3, <4>1
      <3> HIDE DEF m
      <3>2. Executing(context', batch'.n)
        BY <1>0, <2>1, <2>4, <3>1 DEF Executing
      <3> QED BY <2>4, <3>2 DEF AnswerInv
    <2>5. CASE (n = 0 \/ s = "Length") /\ phase' = "turnEnd"
      <3>1. ResultsOf(results, n)
        BY <2>5, Truncated DEF ResultsOf
      <3> HIDE DEF m, results
      <3>2. Whole(context')
        BY <1>0, <2>1, <2>2, <2>3, <3>1, WholeAnswers
      <3> QED BY <2>5, <3>2 DEF AnswerInv
    <2> QED BY <1>5, <2>4, <2>5 DEF StreamDone
  <1> QED BY <1>2, <1>3, <1>4, <1>5 DEF Stream, Ends

LEMMA AnswerLoop ==
  ASSUME RunInv, AnswerInv, Loop
  PROVE  AnswerInv'
  <1>0. /\ context \in Seq(Message) /\ TypeInv /\ batch.n \in 0..MaxCalls
        /\ pending \in Seq(UserMessage) /\ pending \in Seq(Message)
    BY UserSeq DEF RunInv, TypeInv, TypeOK
  <1>1. ASSUME phase \notin {"stream", "tools"},
               phase' \notin {"stream", "tools"}, context' = context
        PROVE  AnswerInv'
    BY <1>1 DEF AnswerInv
  <1>2. ASSUME phase \notin {"stream", "tools"}, phase' = "idle",
               NEW m \in Message, Inert(m), context' = Append(context, m)
        PROVE  AnswerInv'
    BY <1>0, <1>2, WholeAppend DEF AnswerInv
  <1>3. CASE PollSteering
    BY <1>1, <1>3 DEF PollSteering, transcript
  <1>4. CASE InjectPending
    <2>1. Whole(context \o pending)
      BY <1>0, <1>4, WholeInert, UsersInert DEF InjectPending, AnswerInv
    <2> QED BY <1>4, <2>1 DEF InjectPending, AnswerInv
  <1>5. CASE RequestAborted
    <2>1. Assistant("Aborted", 0) \in Message /\ Inert(Assistant("Aborted", 0))
      BY AssistantsInert, BoundsAssumption DEF Failure
    <2> QED BY <1>2, <1>5, <2>1 DEF RequestAborted, FinishOk
  <1>6. CASE Request
    <2>1. /\ phase = "request" /\ phase' \in {"stream", "failed"} /\ ~started
          /\ ~started' /\ context' = context
          /\ messages' = messages /\ newMessages' = newMessages
      BY <1>0, <1>6 DEF Request, loop, transcript, TypeInv, StreamShape
    <2>2. context = Base /\ Base' = Base /\ Whole(context)
      BY <2>1, BaseOf DEF Base, AnswerInv
    <2> QED BY <2>1, <2>2 DEF AnswerInv
  <1>7. CASE EndBatch
    <2>1. /\ phase = "tools" /\ phase' = "turnEnd"
          /\ context' = context \o BatchResults
      BY <1>7 DEF EndBatch, BatchResults
    <2>2. PICK b \in Seq(Message), m \in Message :
            /\ context = Append(b, m) /\ Whole(b) /\ Completed(m)
            /\ m.calls = batch.n
      BY <2>1 DEF AnswerInv, Executing
    <2>3. ResultsOf(BatchResults, m.calls)
      BY <1>0, <2>2, Batched
    <2>4. Whole(context')
      BY <2>1, <2>2, <2>3, WholeAnswers
    <2> QED BY <2>1, <2>4 DEF AnswerInv
  <1>8. CASE TurnEndStop
    BY <1>1, <1>8 DEF TurnEndStop, FinishOk
  <1>9. CASE TurnEndContinue
    BY <1>1, <1>9 DEF TurnEndContinue, transcript
  <1>10. CASE PollFollowUp
    BY <1>1, <1>10 DEF PollFollowUp, FinishOk
  <1>11. CASE FinishErr
    <2> DEFINE m == Assistant(IF cancelled THEN "Aborted" ELSE "Error", 0)
    <2>1. m \in Message /\ Inert(m)
      BY AssistantsInert, BoundsAssumption DEF Failure
    <2>2. /\ phase = "failed" /\ phase' = "idle"
          /\ context' = Append(context, m)
      BY <1>11 DEF FinishErr
    <2> QED BY <1>2, <2>1, <2>2
  <1> QED
    BY <1>3, <1>4, <1>5, <1>6, <1>7, <1>8, <1>9, <1>10, <1>11 DEF Loop

LEMMA AnswerEntry ==
  ASSUME RunInv, AnswerInv, Entry
  PROVE  AnswerInv'
  <1>0. /\ messages \in Seq(Message) /\ steering \in Seq(UserMessage)
        /\ followUp \in Seq(UserMessage) /\ nextId \in Nat \ {0}
    BY DEF RunInv, TypeInv, TypeOK
  <1>1. ASSUME NEW prompts \in Seq(UserMessage),
               NEW first \in {"poll", "inject"}, StartRun(prompts, first)
        PROVE  AnswerInv'
    <2>1. Whole(messages)
      BY <1>1 DEF StartRun, RunInv, AnswerInv
    <2>2. Whole(messages \o prompts)
      BY <1>0, <2>1, UserSeq, UsersInert, WholeInert
    <2> QED BY <1>1, <2>2 DEF StartRun, AnswerInv
  <1>2. CASE Prompt
    <2>1. <<User("prompt", nextId)>> \in Seq(UserMessage)
      BY <1>0, MessageTypes
    <2> QED BY <1>1, <1>2, <2>1 DEF Prompt
  <1>3. CASE ContinueWithSteering
    BY <1>0, <1>1, <1>3, DrainType DEF ContinueWithSteering
  <1>4. CASE ContinueWithFollowUp
    BY <1>0, <1>1, <1>4, DrainType DEF ContinueWithFollowUp
  <1>5. CASE RunContinuation
    <2>1. <<>> \in Seq(UserMessage)
      OBVIOUS
    <2> QED BY <1>1, <1>5, <2>1 DEF RunContinuation
  <1> QED BY <1>2, <1>3, <1>4, <1>5 DEF Entry

LEMMA AnswerStep == RunInv /\ AnswerInv /\ [Next]_vars => AnswerInv'
  <1> SUFFICES ASSUME RunInv, AnswerInv, [Next]_vars PROVE AnswerInv'
    OBVIOUS
  <1>1. ASSUME UNCHANGED <<phase, context, messages, newMessages, started, batch>>
        PROVE  AnswerInv'
    BY <1>1 DEF AnswerInv, Base, Partial
  <1>2. CASE \E i \in Call : Tool(i)
    <2>1. ToolFrame
      BY <1>2 DEF Tool, BeginTool, PrepareTool, StartTool, ToolReturns,
                  AbortTool, EndTool
    <2> QED BY <1>1, <2>1 DEF ToolFrame, transcript, loop
  <1>3. CASE UNCHANGED vars
    BY <1>1, <1>3 DEF vars, transcript, loop, tools
  <1>4. CASE Others
    <2>1. CASE OtherTask \/ SetMode
      BY <1>1, <2>1 DEF OtherTask, SetMode, transcript, loop, tools
    <2>2. CASE Reset
      BY <2>2 DEF Reset, AnswerInv, Whole
    <2> QED BY <1>4, <2>1, <2>2
            DEF Others, Steer, FollowUp, ClearSteeringQueue,
                ClearFollowUpQueue, Abort
  <1> QED BY <1>2, <1>3, <1>4, AnswerEntry, AnswerStream, AnswerLoop DEF Next

\* Every completed assistant message is followed at once by one result per
\* tool call, in the order of the calls, whatever the completion order of a
\* parallel batch, a truncated message or an abort did.
THEOREM CallsAnswered == Spec => []ToolCallsAnswered
  BY RunInit, RunStep, AnswerInit, AnswerStep, AnswerHolds, PTL DEF Spec
=============================================================================
