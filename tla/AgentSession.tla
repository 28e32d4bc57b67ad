----------------------------- MODULE AgentSession -----------------------------
(***************************************************************************)
(* AgentSession (crates/coding-agent/src/core/agent_session.rs) with the   *)
(* SessionManager it journals to (session_manager.rs): one conversation    *)
(* held three times, as the live context the model reads, as the entries   *)
(* in memory and as the journal in the store.                              *)
(*                                                                         *)
(* send_message holds `&mut self` across its awaits, so session operations *)
(* run only when no send is in flight; steer, follow_up and abort go       *)
(* through cloned handles (Arc<Mutex<_>>) and may come at any moment.  The *)
(* agent loop is reduced to the messages it adds and the points where it   *)
(* polls (AgentLoop has the rest): an assistant message stands for itself  *)
(* and its tool results.                                                   *)
(***************************************************************************)
EXTENDS Naturals, Sequences, FiniteSets, SequencesExt, Filter

CONSTANTS
  MaxMessages,     \* bound: messages and entries ever made
  MaxSessions,     \* bound: sessions ever created
  MaxContinuations,\* MAX_TURN_END_CONTINUATIONS
  Mode,            \* steering_mode and follow_up_mode
  HasTurnEndHook,  \* some extension has an on_turn_end hook
  MayFail,         \* run_agent_loop may return Err
  MayTimeout,      \* the interactive driver's watchdog may drop a send
  MayCompact,      \* compaction, manual or automatic
  MayWrite,        \* extension hooks queue session writes
  WritesFail       \* the store may refuse an append

ASSUME SessionAssumption ==
  /\ {MaxMessages, MaxSessions, MaxContinuations} \subseteq Nat
  /\ MaxSessions > 0
  /\ Mode \in {"OneAtATime", "All"}
  /\ {HasTurnEndHook, MayFail, MayTimeout, MayCompact, MayWrite, WritesFail}
       \subseteq BOOLEAN

VARIABLES
  phase,        \* where send_message or compact is suspended
  context,      \* self.context.messages
  entries,      \* session_manager.entries, without the header
  store,        \* the journals in the store, by session
  sid,          \* the session the manager writes to
  lineage,      \* ghost: a session and the ones it was branched from
  produced,     \* new_messages of the run
  promptsLen,   \* prompts_len of the run
  more,         \* has_more_tool_calls
  continuations,\* the counter of the follow-up callback
  steering,     \* steering_queue
  followUp,     \* follow_up_queue
  sink,         \* extension_sink
  cancelled,    \* the token in self.cancel is cancelled
  tools,        \* self.tools is Some
  streaming,    \* is_streaming
  compacting,   \* is_compacting
  abortAsked,   \* ghost: an abort came since the current send began
  next          \* ghost: messages and entries made so far

conversation == <<entries, store, sid, lineage>>
run == <<produced, promptsLen, more, continuations>>
queues == <<steering, followUp>>
flags == <<tools, streaming, compacting>>
vars == <<phase, context, conversation, run, queues, sink, cancelled, flags,
          abortAsked, next>>

Authors == {"user", "context", "hook", "assistant", "aborted", "error",
            "custom"}
\* Message::User, however it came about.
UserMade == {"user", "context", "hook"}

Message == [n: 1..MaxMessages, by: Authors, sid: 1..MaxSessions]
Kinds == {"message", "custom_message", "custom", "info", "compaction"}
NoEntry == 0
Entry == [id: 1..MaxMessages, kind: Kinds, by: Authors, sid: 1..MaxSessions,
          firstKept: {NoEntry}]

\* The k-th message made by a step.
Msg(k, by) == [n |-> next + k, by |-> by, sid |-> sid]
Room(k) == next + k <= MaxMessages
Make(k) == Room(k) /\ next' = next + k

EntryOf(kind, m) == [id |-> m.n, kind |-> kind, by |-> m.by, sid |-> m.sid,
                     firstKept |-> NoEntry]
AsEntries(kind, ms) == [i \in DOMAIN ms |-> EntryOf(kind, ms[i])]
MessageOf(e) == [n |-> e.id, by |-> e.by, sid |-> e.sid]

\* build_context: the entries from the one that the latest compaction names
\* on, the ones that are messages to the model.
InContext(e) == e.kind \in {"message", "custom_message"}
Those(es, Test(_)) == Keep(es, {e \in ToSet(es) : Test(e)})
BuildContext(es) ==
  LET c    == SelectLastInSeq(es, LAMBDA e : e.kind = "compaction")
      from == IF c = 0 THEN 1
              ELSE SelectInSeq(es, LAMBDA e : InContext(e)
                                              /\ e.id = es[c].firstKept)
      kept == IF from = 0 THEN <<>>
              ELSE Those(SubSeq(es, from, Len(es)), InContext)
  IN [i \in DOMAIN kept |-> MessageOf(kept[i])]

\* drain_queue.
Drained(q) == IF Mode = "All" \/ q = <<>> THEN q ELSE <<Head(q)>>
Rest(q) == IF Mode = "All" \/ q = <<>> THEN <<>> ELSE Tail(q)

\* SessionManager::append_*: in memory first, then in the store, which may
\* refuse.  Saves(es) is the choice of the ids that reach the store.
Ids(es) == {es[i].id : i \in DOMAIN es}
Saves(es) == IF WritesFail THEN SUBSET Ids(es) ELSE {Ids(es)}
Journal(es, saved) ==
  /\ entries' = entries \o es
  /\ store' = [store EXCEPT ![sid] =
                 @ \o Those(es, LAMBDA e : e.id \in saved)]
  /\ UNCHANGED <<sid, lineage>>

Init ==
  /\ phase = "idle"
  /\ context = <<>>
  /\ entries = <<>>
  /\ store = <<<<>>>>
  /\ sid = 1
  /\ lineage = <<{1}>>
  /\ produced = <<>>
  /\ promptsLen = 0
  /\ more = FALSE
  /\ continuations = 0
  /\ steering = <<>>
  /\ followUp = <<>>
  /\ sink = <<>>
  /\ cancelled = FALSE
  /\ tools = TRUE
  /\ streaming = FALSE
  /\ compacting = FALSE
  /\ abortAsked = FALSE
  /\ next = 0

-----------------------------------------------------------------------------
(* send_message up to the loop. *)

\* load_extensions and dispatch_user_message_hook are awaited first.
Send ==
  /\ phase = "idle"
  /\ phase' = "hooks"
  /\ abortAsked' = FALSE
  /\ UNCHANGED <<context, conversation, run, queues, sink, cancelled, flags,
                 next>>

\* Mutant: the prompt is journalled before the hook is asked.
HookCancels_Journalled ==
  LET e == <<EntryOf("message", Msg(1, "user"))>> IN
  /\ phase = "hooks"
  /\ phase' = "idle"
  /\ Make(1)
  /\ Journal(e, Ids(e))
  /\ UNCHANGED <<context, run, queues, sink, cancelled, flags, abortAsked>>

\* An extension cancels the message: Err, with nothing to unwind.
HookCancels ==
  /\ phase = "hooks"
  /\ phase' = "idle"
  /\ UNCHANGED <<context, conversation, run, queues, sink, cancelled, flags,
                 abortAsked, next>>

Prompts(withContext) ==
  IF withContext THEN <<Msg(1, "context"), Msg(2, "user")>>
                 ELSE <<Msg(1, "user")>>

\* Both prompts are journalled, then everything up to the first await of
\* run_agent_loop: fresh token, tools moved out, prompts into the context.
Launch(prompts) ==
  /\ phase = "hooks"
  /\ Make(Len(prompts))
  /\ Journal(AsEntries("message", prompts), Ids(AsEntries("message", prompts)))
  /\ phase' = "poll"
  /\ context' = context \o prompts
  /\ produced' = prompts
  /\ promptsLen' = Len(prompts)
  /\ more' = TRUE
  /\ continuations' = 0
  /\ streaming' = TRUE
  /\ tools' = FALSE
  /\ UNCHANGED <<queues, sink, compacting, abortAsked>>

\* Mutant: the token in the cell is kept.
BeginTurn_OldToken(withContext) ==
  Launch(Prompts(withContext)) /\ UNCHANGED cancelled

BeginTurn(withContext) ==
  Launch(Prompts(withContext)) /\ cancelled' = FALSE

\* The append of the i-th prompt fails and `?` returns: that prompt and the
\* ones before it stay in memory, the ones before it in the store too.
PromptNotSaved(withContext, i) ==
  LET prompts == SubSeq(Prompts(withContext), 1, i)
      before  == AsEntries("message", SubSeq(prompts, 1, i - 1)) IN
  /\ phase = "hooks"
  /\ WritesFail
  /\ i <= Len(Prompts(withContext))
  /\ Make(i)
  /\ Journal(AsEntries("message", prompts), Ids(before))
  /\ phase' = "idle"
  /\ UNCHANGED <<context, run, queues, sink, cancelled, flags, abortAsked>>

-----------------------------------------------------------------------------
(* What follows the loop. *)

EndRun == /\ produced' = <<>> /\ promptsLen' = 0
          /\ more' = FALSE /\ continuations' = 0

\* Ok: the guard puts the tools back, what the loop added after the prompts is
\* journalled and then the writes of extensions; failed appends are ignored.
\* maybe_compact_if_needed may start a compaction.
JournalTurn(ms) ==
  LET added  == AsEntries("message", ms)
      writes == [i \in DOMAIN sink |-> EntryOf(sink[i].kind, sink[i].msg)]
  IN
  /\ \E saved \in Saves(added \o writes) : Journal(added \o writes, saved)
  /\ sink' = <<>>
  /\ tools' = TRUE
  /\ streaming' = FALSE
  /\ EndRun
  /\ \/ phase' = "idle" /\ UNCHANGED compacting
     \/ MayCompact /\ phase' = "autocompact" /\ compacting' = TRUE

\* Mutant: the prompts are journalled again.
EndTurn_AllMessages(new) == JournalTurn(produced \o new)

EndTurn(new) ==
  JournalTurn(SubSeq(produced \o new, promptsLen + 1,
                     Len(produced) + Len(new)))

\* run_agent_loop returns Err: what it added stays in the context and is not
\* journalled, and the sink is not drained.
LoopFails ==
  /\ MayFail
  /\ phase = "request"
  /\ phase' = "idle"
  /\ tools' = TRUE
  /\ streaming' = FALSE
  /\ EndRun
  /\ UNCHANGED <<context, conversation, queues, sink, cancelled, compacting,
                 abortAsked, next>>

Sending == {"hooks", "poll", "request", "stream", "stop", "turn_end",
            "autocompact"}

\* run_under_watchdog: the future is dropped where it waits (the guard restores
\* the tools, nothing else unwinds), then the token in the cell is cancelled.
Timeout ==
  /\ MayTimeout
  /\ phase \in Sending
  /\ phase' = "idle"
  /\ tools' = TRUE
  /\ cancelled' = TRUE
  /\ EndRun
  /\ UNCHANGED <<context, conversation, queues, sink, streaming, compacting,
                 abortAsked, next>>

-----------------------------------------------------------------------------
(* The loop, by its polls and its messages. *)

\* get_steering_messages answers nothing once cancelled.
Poll ==
  LET got == IF cancelled THEN <<>> ELSE Drained(steering) IN
  /\ phase = "poll"
  /\ steering' = IF cancelled THEN steering ELSE Rest(steering)
  /\ context' = context \o got
  /\ produced' = produced \o got
  /\ phase' = IF more \/ got # <<>> THEN "request" ELSE "stop"
  /\ UNCHANGED <<conversation, promptsLen, more, continuations, followUp,
                 sink, cancelled, flags, abortAsked, next>>

\* A cancelled run answers itself and ends.
RequestAborted ==
  /\ phase = "request"
  /\ cancelled
  /\ Make(1)
  /\ context' = Append(context, Msg(1, "aborted"))
  /\ EndTurn(<<Msg(1, "aborted")>>)
  /\ UNCHANGED <<queues, cancelled, abortAsked>>

\* The stream opens: its partial message is in the context from now on.
Request ==
  /\ phase = "request"
  /\ ~cancelled
  /\ Make(1)
  /\ phase' = "stream"
  /\ context' = Append(context, Msg(1, "assistant"))
  /\ UNCHANGED <<conversation, run, queues, sink, cancelled, flags,
                 abortAsked>>

\* The stream is aborted or fails: the partial message is replaced by one that
\* says so, and the run ends.
StreamBreaks ==
  LET by == IF cancelled THEN "aborted" ELSE "error"
      m  == [Last(context) EXCEPT !.by = by] IN
  /\ phase = "stream"
  /\ context' = [context EXCEPT ![Len(context)] = m]
  /\ EndTurn(<<m>>)
  /\ UNCHANGED <<queues, cancelled, abortAsked, next>>

\* The answer and its tool results are complete; a run cancelled meanwhile
\* stops here (finish_with_cancel).
StreamDone(hasMore) ==
  /\ phase = "stream"
  /\ \/ /\ cancelled
        /\ EndTurn(<<Last(context)>>)
     \/ /\ ~cancelled
        /\ phase' = "poll"
        /\ produced' = Append(produced, Last(context))
        /\ more' = hasMore
        /\ UNCHANGED <<conversation, promptsLen, continuations, sink, flags>>
  /\ UNCHANGED <<context, queues, cancelled, abortAsked, next>>

\* The pending messages of the next turn are injected and the model asked.
Resume(ms) ==
  /\ phase' = "request"
  /\ more' = TRUE
  /\ context' = context \o ms
  /\ produced' = produced \o ms

\* get_follow_up_messages: the user's queue first, then, below the bound, the
\* on_turn_end hooks.
FollowUpOrEnd(askHook) ==
  /\ phase = "stop"
  /\ \/ /\ ~cancelled /\ followUp # <<>>
        /\ Resume(Drained(followUp))
        /\ followUp' = Rest(followUp)
        /\ UNCHANGED <<conversation, promptsLen, continuations, sink, flags>>
     \/ /\ ~cancelled /\ followUp = <<>> /\ askHook
        /\ phase' = "turn_end"
        /\ UNCHANGED <<context, conversation, run, followUp, sink, flags>>
     \/ /\ cancelled \/ (followUp = <<>> /\ ~askHook)
        /\ EndTurn(<<>>)
        /\ UNCHANGED <<context, followUp>>
  /\ UNCHANGED <<steering, cancelled, abortAsked, next>>

PollFollowUp ==
  FollowUpOrEnd(HasTurnEndHook /\ continuations < MaxContinuations)

\* dispatch_turn_end: Cancel(reason) keeps the agent working on the reason.
HookContinues ==
  /\ phase = "turn_end"
  /\ Make(1)
  /\ continuations' = continuations + 1
  /\ Resume(<<Msg(1, "hook")>>)
  /\ UNCHANGED <<conversation, promptsLen, queues, sink, cancelled, flags,
                 abortAsked>>

HookLetsEnd ==
  /\ phase = "turn_end"
  /\ EndTurn(<<>>)
  /\ UNCHANGED <<context, queues, cancelled, abortAsked, next>>

\* SessionSink: a hook queues a Custom or a CustomMessage entry.
ExtensionWrites(kind) ==
  /\ MayWrite
  /\ phase \in {"hooks", "stream", "turn_end"}
  /\ Make(1)
  /\ sink' = Append(sink, [kind |-> kind, msg |-> Msg(1, "custom")])
  /\ UNCHANGED <<phase, context, conversation, run, queues, cancelled, flags,
                 abortAsked>>

-----------------------------------------------------------------------------
(* Compaction: the context is summarised, the live context is left as it is. *)

Compact ==
  /\ MayCompact
  /\ phase = "idle"
  /\ phase' = "compact"
  /\ compacting' = TRUE
  /\ UNCHANGED <<context, conversation, run, queues, sink, cancelled, tools,
                 streaming, abortAsked, next>>

\* Mutant: a failed append returns before the flag is cleared.
Summarised_FlagLast ==
  LET e == <<EntryOf("compaction", Msg(1, "custom"))>> IN
  /\ phase \in {"compact", "autocompact"}
  /\ Make(1)
  /\ \E saved \in Saves(e) :
       /\ Journal(e, saved)
       /\ compacting' = (saved = {})
  /\ phase' = "idle"
  /\ UNCHANGED <<context, run, queues, sink, cancelled, tools, streaming,
                 abortAsked>>

\* first_kept_id is minted from the clock and names no entry.  The flag is
\* cleared before a failed append returns.
Summarised ==
  LET e == <<EntryOf("compaction", Msg(1, "custom"))>> IN
  /\ phase \in {"compact", "autocompact"}
  /\ Make(1)
  /\ \E saved \in Saves(e) : Journal(e, saved)
  /\ compacting' = FALSE
  /\ phase' = "idle"
  /\ UNCHANGED <<context, run, queues, sink, cancelled, tools, streaming,
                 abortAsked>>

-----------------------------------------------------------------------------
(* Session operations: they need `&mut self`, hence no send in flight. *)

\* set_model and set_label append entries that are no messages.
SetInfo ==
  LET e == <<EntryOf("info", Msg(1, "custom"))>> IN
  /\ phase = "idle"
  /\ Make(1)
  /\ \E saved \in Saves(e) : Journal(e, saved)
  /\ UNCHANGED <<phase, context, run, queues, sink, cancelled, flags,
                 abortAsked>>

\* Mutant: the queues of the prior session are kept.
Adopt_KeepsQueues(es) ==
  /\ phase = "idle"
  /\ entries' = es
  /\ context' = BuildContext(es)
  /\ streaming' = FALSE
  /\ compacting' = FALSE
  /\ UNCHANGED <<phase, run, queues, sink, cancelled, tools, abortAsked, next>>

\* The manager is replaced: flags and queues start afresh.
Adopt(es) ==
  /\ phase = "idle"
  /\ entries' = es
  /\ context' = BuildContext(es)
  /\ streaming' = FALSE
  /\ compacting' = FALSE
  /\ steering' = <<>>
  /\ followUp' = <<>>
  /\ UNCHANGED <<phase, run, sink, cancelled, tools, abortAsked, next>>

NewSession(es, ancestors) ==
  /\ Len(store) < MaxSessions
  /\ store' = Append(store, es)
  /\ sid' = Len(store')
  /\ lineage' = Append(lineage, ancestors \union {sid'})

ResetSession == Adopt(<<>>) /\ NewSession(<<>>, {})

\* Mutant: the context is rebuilt with the forked message in it.
Fork_Through(i) ==
  /\ entries[i].kind = "message" /\ entries[i].by \in UserMade
  /\ NewSession(SubSeq(entries, 1, i - 1), lineage[sid])
  /\ Adopt(SubSeq(entries, 1, i))

\* The entries strictly before a user message, into a new session.
Fork(i) ==
  /\ entries[i].kind = "message" /\ entries[i].by \in UserMade
  /\ NewSession(SubSeq(entries, 1, i - 1), lineage[sid])
  /\ Adopt(SubSeq(entries, 1, i - 1))

CloneSession == NewSession(entries, lineage[sid]) /\ Adopt(entries)

\* from_branched_entries fails part-way: the new journal stays in the store
\* and the session goes on as it was.
BranchFails(body, n) ==
  /\ phase = "idle"
  /\ WritesFail
  /\ Len(store) < MaxSessions
  /\ store' = Append(store, SubSeq(body, 1, n))
  /\ lineage' = Append(lineage, lineage[sid] \union {Len(store')})
  /\ UNCHANGED <<phase, context, entries, sid, run, queues, sink, cancelled,
                 flags, abortAsked, next>>

\* switch_session, and resuming a session in AgentSession::new.
SwitchSession(s) ==
  /\ Adopt(store[s])
  /\ sid' = s
  /\ UNCHANGED <<store, lineage>>

-----------------------------------------------------------------------------
(* Through the cloned handles, at any moment. *)

EnqueueSteer ==
  /\ Make(1)
  /\ steering' = Append(steering, Msg(1, "user"))
  /\ UNCHANGED <<phase, context, conversation, run, followUp, sink, cancelled,
                 flags, abortAsked>>

EnqueueFollowUp ==
  /\ Make(1)
  /\ followUp' = Append(followUp, Msg(1, "user"))
  /\ UNCHANGED <<phase, context, conversation, run, steering, sink, cancelled,
                 flags, abortAsked>>

\* abort cancels the token that is in the cell now.
Abort ==
  /\ cancelled' = TRUE
  /\ abortAsked' = (phase \in Sending)
  /\ UNCHANGED <<phase, context, conversation, run, queues, sink, flags, next>>

Turn ==
  \/ Send \/ HookCancels \/ LoopFails \/ Timeout
  \/ \E c \in BOOLEAN : BeginTurn(c) \/ (\E i \in 1..2 : PromptNotSaved(c, i))
  \/ Poll \/ RequestAborted \/ Request \/ StreamBreaks
  \/ \E m \in BOOLEAN : StreamDone(m)
  \/ PollFollowUp \/ HookContinues \/ HookLetsEnd
  \/ \E k \in {"custom", "custom_message"} : ExtensionWrites(k)
  \/ Compact \/ Summarised

Manage ==
  \/ SetInfo \/ ResetSession \/ CloneSession
  \/ \E i \in DOMAIN entries : Fork(i)
  \/ \E n \in 0..(Len(entries) - 1) : BranchFails(entries, n)
  \/ \E s \in DOMAIN store : SwitchSession(s)

Handles == EnqueueSteer \/ EnqueueFollowUp \/ Abort

Next == Turn \/ Manage \/ Handles
Spec == Init /\ [][Next]_vars

-----------------------------------------------------------------------------
(* Properties. *)

\* The types of the session's state.
TypeOK ==
  /\ phase \in Sending \union {"idle", "compact"}
  /\ context \in Seq(Message)
  /\ entries \in Seq(Entry)
  /\ store \in Seq(Seq(Entry)) /\ Len(store) \in 1..MaxSessions
  /\ sid \in DOMAIN store
  /\ lineage \in Seq(SUBSET (1..MaxSessions)) /\ Len(lineage) = Len(store)
  /\ produced \in Seq(Message)
  /\ promptsLen \in 0..2 /\ promptsLen <= Len(produced)
  /\ {more, cancelled, tools, streaming, compacting, abortAsked}
       \subseteq BOOLEAN
  /\ continuations \in 0..MaxContinuations
  /\ steering \in Seq(Message) /\ followUp \in Seq(Message)
  /\ sink \in Seq([kind: Kinds, msg: Message])
  /\ next \in 0..MaxMessages

\* s is t with some elements left out.
InOrder(s, t) == Keep(t, ToSet(s)) = s

\* Resuming the session between sends would hand the model the conversation
\* it has now: the journal in the store rebuilds to the live context
\* (send_message, fork, clone_session, switch_session against build_context).
ResumeReplays == phase = "idle" => BuildContext(store[sid]) = context

\* Until a compaction, what the journal says was said is in the context the
\* model reads, in the same order: a send that was cancelled, failed, timed out
\* or refused by the store leaves no message in the transcript that no model
\* ever read.  (A context message whose prompt the store then refuses is.)
TranscriptWasRead ==
  LET said == Those(store[sid], LAMBDA e : /\ e.kind = "message"
                                           /\ e.by # "context") IN
  (\A e \in ToSet(entries) : e.kind # "compaction") =>
    InOrder([i \in DOMAIN said |-> MessageOf(said[i])], context)

\* No message is recorded twice, although the prompts are journalled before
\* the loop and are again part of what the loop returns.
PersistedOnce == Cardinality(Ids(entries)) = Len(entries)

\* A run answers itself as aborted only when an abort came during its own
\* send: neither an earlier abort nor a watchdog timeout poisons it.
NoStaleAbort ==
  [][\A m \in ToSet(context') \ ToSet(context) :
       phase # "idle" /\ m.by = "aborted" => abortAsked]_vars

\* A message said in one session is journalled in no other, unless that one
\* was branched from it: replacing the session drops what was queued for it.
TranscriptsDontMix ==
  \A s \in DOMAIN store : \A e \in ToSet(store[s]) :
    e.kind = "message" => e.sid \in lineage[s]

\* However a turn or a compaction ends, the session can be used again: it has
\* its tools, which send_message would panic without, also when the watchdog
\* drops the send; and the flag that was set is cleared, with an error of any
\* part too.  Only a dropped send leaves the flags as they are.
SessionStaysUsable ==
  /\ [](phase \in {"idle", "hooks"} => tools)
  /\ [][phase # "idle" /\ phase' = "idle" =>
         \/ Timeout
         \/ /\ phase \notin {"hooks", "compact"} => ~streaming'
            /\ phase \in {"compact", "autocompact"} => ~compacting']_vars

\* Compaction keeps recent messages: the last one journalled is part of what a
\* resume rebuilds.
CompactionKeepsRecent ==
  LET last == SelectLastInSeq(store[sid], LAMBDA e : e.kind = "message") IN
  last # 0 => MessageOf(store[sid][last]) \in ToSet(BuildContext(store[sid]))
=============================================================================
