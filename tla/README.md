# Verification of hand-ai

hand-ai is a coding agent in Rust. This directory holds TLA+ models of the parts that
carry its state, TLC configurations that check them on small instances, and proofs
checked by TLAPS. Paths below are relative to the repository; `src/crates/...` is where
the source lies as seen from this project's parent directory.

    tlc -workers 2 -config AgentLoop_runs.cfg MCAgentLoop      # one run
    tlapm AgentLoopProofs.tla                                  # one module of proofs

`PROJECT.json` lists the runs with their properties, the source lines behind every
definition, the mutations that each property is known to catch, and the hazards.

## The system

| Part | State it keeps | Operations | What makes it hard |
|---|---|---|---|
| **Agent and agent loop** (`agent/src/agent.rs`, `agent_loop.rs`) | transcript, context of the run, two message queues, cancel token, published runtime state | `prompt`, `continue`, `steer`, `follow_up`, clears, `abort`, `reset` | parallel tool calls, queues filled while the loop runs, an abort at every await |
| **Session stores** (`agent/src/session/`) | an append-only log per session | create, append, fork, load, header scan, list | unlocked files, torn writes, several processes |
| **Agent session, session manager** (`coding-agent/src/core/agent_session.rs`, `session_manager.rs`) | live context, entries in memory, journal, tools, token, flags, extension sink | `send_message`, compaction, reset, fork, clone, switch, handles | one conversation held three times, `?` and dropped futures between the copies |
| **Interactive driver** (`modes/interactive/rt_driver/`) | submits, `DriverState`, the mounted dialog, its done flag | keys, turns, commands, dialogs, events | three tasks on several threads, four locks, a watchdog that drops a send |
| **Subprocess extensions** (`core/extensions/subprocess.rs`) | a child behind a mutex, an `unhealthy` flag | `rpc_within`, `on_shutdown` | frames without ids, timeouts, dropped calls |
| **Extension dispatch and lifecycle** (`core/extensions/`, `agent_session.rs`) | the chain, loaded flags, errors | load, four hooks, shutdown | hooks that change what other hooks saw, a load dropped half-way |
| **RPC server** (`rpc/server.rs`) | deferred commands, the command in flight, the outbound channel | one handler per command | commands read while a prompt or bash runs, end of input, a dead writer |
| **Bash executor** (`core/bash_executor.rs`) | a shell, two pipes, a channel | run, timeout, abort, truncate | background processes that hold the pipes, bounded pipes, dropping a future |
| **File tools** (`tools/edit.rs`, `write.rs`, `file_mutation_queue.rs`) | files, a lock per file | edit, edits, write | offsets of several replacements, fuzzy matches, two tools on one file |
| **Model client** (`model/src/transform.rs`, `stream.rs`, `providers/`) | the message being built | transform, convert, stream, retry, cancel | conversations of several models, streams that stop anywhere, retries after output |
| **Proxy stream** (`agent/src/proxy.rs`) | a partial message | request, event reducer | events for absent slots, chunks cut off |
| **Settings** (`core/settings.rs`) | YAML and legacy JSON files, the merged view | migrate, load, save, watch | several processes and editors on the same files |
| **Terminal** (`tui/src/rt/`) | the frame due, the prompt text with undo and folded pastes | request a frame; keys | deferred frames; undo over renumbered tokens |
| **Web UI** (`web-ui/src/`, `web-ui/web/src/`) | the page's list, counters and connection; its database; a hub of calls on the server | prompt, abort, new and load session, requests, browser tools, reconnect | two copies of a conversation, a socket that goes and comes back to another session, saves across awaits |
| **Auth storage, registry, CLI** | files | read, write, render | not modelled |

Who calls whom: a front end (TUI, RPC server, print mode; the web UI has an RPC server per socket) owns one `AgentSession` and
awaits `send_message`, which holds `&mut self` to its end. Meanwhile the front end reaches
the session only through cloned handles: the two queues, the cancel token, the bash
cancellation. The session runs the agent loop on its own context and takes the loop's
callbacks (poll the queues, ask the `on_turn_end` hooks); after the loop it journals the
result through the session manager to a store. Tools and hooks may live in a subprocess.

Correctness, per part: every tool call is answered once and in order, no queued message
is lost, a run returns what it added and always ends after an abort (loop); what was
acknowledged is loaded (stores); a resume replays the conversation, one session's
messages stay in it, a send that ends badly leaves the session usable (session); an
answer belongs to its question and no call hangs, hooks see what goes through and only
extensions that are set up are asked (extensions); commands run in order and are answered
once, and the server exits (RPC); how a turn ended is shown, nothing is left on the screen, every
submit is served (driver); an edit changes what it names and no other tool's work,
output is whole or its tail (tools); a request pairs calls with results, a message holds
what the server sent, a response ends once (model client); no setting is lost, the watcher
catches up (settings); undo restores, a burst of typing is one unit, a token keeps its payload,
a frame is drawn in time (terminal); what is said is shown once, the page knows when a turn is
over, what was saved of a session stays (web UI).

## Modules

Steps are the code between two await points, or between two accesses to state another
task can write. Contents of messages are abstracted to a role or author and an identity.

**AgentLoop** models `Agent` with the loop it drives. `phase` is the await at which the
run is suspended: `poll` of the steering queue, `inject`ion, `request`, `stream`,
`tools`, `turnEnd`, follow-up poll. `context` is the loop's copy of `messages`,
`newMessages` its return value. A tool batch is a vector of `slot`s that go through the
stages of `execute_tool_calls_sequential` and `_parallel`; results are put into the
context in call order when the batch ends. `runtime` is reduced from events exactly as
the sink in `agent.rs` does. `Prompt`, `ContinueWithSteering`, `ContinueWithFollowUp` and
`RunContinuation` are the entry points with their refusals as guards; `Steer`,
`FollowUp`, `Abort` and the clears come at any moment; `Reset` and `SetMode` need
`&mut self`. The model and the tools are environment: they answer anything, at any time
or never.

**SessionStore** is the contract of `SessionStore` in `store.rs`, as `memory.rs`
realises it: sessions appear, grow by one entry, are forked, atomically.

**JsonlStore** is `jsonl.rs`. A file is the texts between newlines, because `writeln!` on
an unbuffered `File` is one write for the text and one for the newline and no lock is
taken. `Load` and `ScanHeader` are the parsers with their tolerance of a last partial
line. A writer may stop at or inside any write (`Interrupt`). Its refinement mapping gives
`SessionStore` what a load returns.

**SubprocessExtension** is the path of one call: health check, fair mutex, spawn, write,
read, all under a budget; `Timeout` drops the call where it stands and queues for the lock
to kill the child, for at most a second; `Drop` is an aborted run dropping a custom tool's
future. The child is external: it answers late, malformed or never, or exits. `orphaned` is
a history variable.

**AgentSession** is `send_message` from the hooks to automatic compaction with the journal
behind it. The loop is reduced to the points where it polls and to the messages it adds; an
assistant message stands for itself and its tool results. `Journal` puts entries into memory
and then into the store, which may refuse any of them. `Timeout` is the watchdog dropping
the future: only the guard's restoring of the tools happens. `abortAsked` and `lineage` are
history variables. The constants `MayFail`, `MayTimeout`, `MayCompact`, `MayWrite` and
`WritesFail` switch families of faults on.

**RpcServer** is the dispatcher of `server.rs`: the main loop takes deferred commands before
the wire, a `prompt` or `bash` is raced against the wire (`ReadInline`, `ReadDeferred`,
`ReadEnd`), answers go through the outbound channel to the writer task, and the exit waits
until every sender of that channel is dropped. Of a command's effect only the steering
queue, `new_session` and the cancellation of bash are kept.

**InteractiveDriver** is the TUI's three tasks: the input loop, the turn runner and the event
applier, a step being what one does under one lock. `state` is the record behind the one mutex;
`token`, `overlay`, `done` and the channel of a dialog (`answer`) are behind others, so that
`Answer`, `RaiseDone` and `CheckDone` are three steps of one key, and `MarkCancelled` and
`CancelToken` two. A submit is one of eight kinds of `Work`, as `run_turn` tells them apart;
dialogs differ in what ends them and in who holds a sender (`HasSender`). `send` is
`send_message` reduced to its await points and to the events that show; `events` carry the
number of their turn. `ended` and `pressed` are history variables. `Quit` forgets everything.

**SqliteStore** is `sqlite.rs` with SQLite's locking as the code relies on it: a transaction
reads its snapshot, takes the write lock at its first write, and is refused when it waits too
long (`Busy`) or its snapshot is out of date. A connection may die in the middle (`Crash`).
`AtomicCommit` says that each commit is one operation of `SessionStore` or one imported session.

**Settings** is `from_paths` (migration, then load), `save` and `watch` of several processes,
one step per file access. A layer is a function from keys to values; `Merge` lets the project
layer win. The watcher polls, waits until no event comes, and reads the two files in turn.

**RequestMessages** is the request side of the model client: a conversation as the agent loop
may leave it, `transform_messages` as operators over it, and the providers' loops one message
per step, so that a loop that does not advance is seen as such. Blocks are told apart by what
the code asks of them (text, blank, thinking, signed, redacted, call).

**AssistantEvents** is the vocabulary of `AssistantMessageEvent`. **AnthropicStream**,
**OpenAiStream**, **ResponsesStream** and **GoogleStream** are the adapters, each with the
state its parser keeps and an external server that sends numbered pieces and stops anywhere;
**ProxyStream** is the same for the proxy's client. **ModelStream** is `stream_simple` around
any of them (abort, timeout, drain, backoff, retry), with the part of
`stream_assistant_response` that consumes it. Of the provider's stream, `inner`, it is told whether
it has come to its last event (`terminal`) or reads on after an error (`lingering`), as the
Anthropic and Responses adapters do.

**ExtensionChain** is a session's chain of extensions: `load_extensions` one `on_load` at a
time, the four dispatchers one extension at a time with the re-runs after a rewrite, and
`shutdown_extensions`. `DropSend` is the watchdog at any of these awaits.

**FileTools** has the algorithms of `edit.rs` as operators on texts that are sequences of
characters (with carriage returns, a byte order mark and one pair of characters that only
match when folded) and the tools as tasks: wait for the file's lock, read, truncate, fill.

**BashExecutor** is `execute_bash`: a shell and a child that both hold two bounded pipes, a
forwarder per pipe, the wait in the code's order, timeout and abort as drops of the future.

**FrameScheduler** is the loop of `scheduler.rs` with the clock as ticks; its ghost `asked` has the
delays of the requests not yet drawn. **Editor** is
`editor.rs` without rendering: a text of cells, some of which are tokens of folded pastes, the
registry, undo units with their positions and registry snapshots, kill ring and history.
`Record` is `record_edit` with the latch as it finds it; pastes, yanks and yank-pops all come to
`InsertPaste`, which breaks the burst, seals its unit and folds what is larger than `FoldCells`.
The ghosts `pastes`, `strayed` and `downgraded` remember what was pasted and which known
misbehaviours (below) a behaviour has met; `strokes` of a unit are the keys it is made of.

**WebUi** is one page, its sockets in turn and what serves each: `RemoteAgent.handleFrame`, the
connection with its queue and pending requests, `persistSession` as two steps around its await,
the inbound task with the hub of browser tools, and of the dispatcher and the loop what the page
can tell (`at` is where the run is; `prepare` is between the announced start of a call and its
registration with the hub). Frames are in flight in `up` and `down`, and lost with the socket; a
new socket gets a new server session. `seen` is a history variable.

The `MC...` modules put components side by side: **MCStores** those that share files between
processes, **MCFrontEnds** what a user or a client has in front of a session, **MCTools** what a
turn calls out to, **MCStreams** requests and responses (a subject of `MCTools`). A behaviour is
about one `subject`; the state spaces are added, not multiplied, and the
components share variables ("slots"). In `MCStores` the import does compose `SqliteStore` with
the `JsonlStore` directory it reads while that is written.

**Filter** has `Keep(s, T)`, the elements of `s` that are in `T`, as a recursive function; the
modules that are proved about use it where the code filters, retains or skips. The theorems are in
**AgentLoopProofs**, **AgentSessionProofs**, **CalmSessionProofs**, **JsonlStoreProofs**,
**StoresProofs**, **ToolsProofs** and **FrontEndsProofs**; **SequenceLemmas** has what they
need of sequences: what `Keep` does to an `Append`, a concatenation, a suffix or a second
`Keep`, and sequences without repetitions.

## Runs

All runs say `CHECK_DEADLOCK FALSE`: an idle agent, store or server whose bounded inputs are
used up has nothing to do, a response is over, and the RPC server ends.

| Run | Bounds | Shows |
|---|---|---|
| `AgentLoop_runs` | 2 calls per message, 3 in all, 3 inputs, not all at once (`Bound`); 547 k states | `ToolCallsAnswered`, `RuntimeMirrorsRun`, `NoMessageLost`, `QueuesDeliverInOrder`, `TurnsNest`, `ReturnsWhatItAdded`, `AbortFreezesRun`, `RunsEnd` (`AbortEndsRun` and `RunEnds`); `TypeOK` |
| `Stores_shared` | JSONL: 2 writers, 2 sessions, 3 entries, interrupts, and 1 writer, 3 sessions, 4 entries; SQLite: 2 connections, 2 sessions, 2 entries and a directory of 1; settings: 2 processes, 2 keys, 2 writes; 1.5 M | `SessionsAreWhole`, `StoresImplementContract`, `ImportComplete`, `LegacyKept`, `WatcherCatchesUp` |
| `Tools_turn` | 2 callers and 4 calls; 3 extensions, 3 rounds, 3 sends; 2 tasks, 10 files, some 600 operations; 2 pieces of output per stream, pipes of 1; 4 messages of 2 models, 5 APIs; 3 blocks, 2 to 4 pieces, 2 retries; 1 M | `HealthyAnswersMatch`, `ToolsReturn`, `VettedValue`, `OnlySetUpServe`, `FilesKeepEdits`, `OutputWhole`, `RequestsPaired`, `MessageComplete`, `DoneIsFinal`, `AbortEndsStream` |
| `AgentSession_turns` | 4 messages, 2 sessions, every fault; 5 messages without faults; 6 M | `TranscriptWasRead`, `TranscriptsDontMix`, `PersistedOnce`, `NoStaleAbort`, `SessionStaysUsable`, `CalmResumeReplays` |
| `FrontEnds_sessions` | RPC: 4 frames of 8 kinds, reader and writer failures; driver: 2 submits of 8 kinds, 2 events behind, 2 dialogs; 3 frame requests; 4 keys, 3 cells; web: 3 prompts, 2 sockets, 2 sessions, 3 events; 515 k | `CommandsInOrder`, `AnsweredOnce`, `ServerSettles`, `OutcomeReported`, `QuietIsClean`, `SubmitsServed`, `TerminalKeepsUp`, `PageFollowsServer`, `PendingIsUnderWay`, `TurnsEnd` |
| `Subprocess_late` | 2 callers, 3 calls, no drops | violation of `AnswersMatch` |
| `AgentSession_compaction` | 5 messages, 2 sessions | violation of `CompactionKeepsRecent` |
| `Streams_replay` | 2 messages | violation of `ReplaysAnywhere` |
| `ModelStream_retry` | 2 retries | violation of `OneMessagePerResponse` |
| `Web_saves` | 2 prompts, 1 socket, 1 session | violation of `AnswersStaySaved` |
| `Driver_dialogs` | 1 submit, a login or the settings | violation of `DialogStaysUp` |
| `Driver_cancel` | 1 submit, a turn | violation of `CancelHitsTurn` |

`MessageComplete` and `DoneIsFinal` are one property of every adapter: a Done message holds each
piece the server sent once and in order, and nothing follows Done. `MessageComplete` also says
that the proxy's message is always a prefix of the server's and that the consumer closes the
last message. `SessionStaysUsable` says that whenever a session is idle its tools are back and
its busy flags cleared. `ServerSettles` is `ServerExits` and `AbortBashEnds` of the RPC server;
`TerminalKeepsUp` is `DrawnInTime` of the frame scheduler, `UndoRestores`, `BurstsAreUnits` and
`TokensKeepPayload` of the editor; `PageFollowsServer` is `SaidOnce` and `QuietTakesPrompts`. The other
modules' `TypeOK` is no property of a run; most of them are proved.

Why the bounds are enough to be interesting. Two calls in a message give a parallel batch
with every completion order and an abort between the two; the third gives a second turn of
tools after the first. Three inputs are a prompt and two queued messages, the least that has
an order, or two runs with one between them; with three the model makes no call, with two at
most one (`MCAgentLoop!Bound`). Two writers and two sessions have every
interleaving of two appends and of an append with a fork of the same file; the third entry is
appended to a damaged file. Two connections are the least that lock each other out, and two
appends the least that could take one sequence number. Two processes race in each step of the
migration; two writes are a change the watcher sees and one that comes while it reads. Two
callers are the least for the lock; four calls let each time out and call again. Three
extensions are a guard, one that rewrites and one registered late; three rounds are a rewrite,
one of the rewritten, and giving up. The files and replacements of `MCTools` have repeated,
overlapping, adjacent, fuzzy and line-end matches. Two submits are a turn and whatever comes
before or after it (a first `/login` of the onboarding counts as one), and a dialog while another
submit waits; two events behind let the runner end a turn before the applier has seen its
failure; two dialogs are the least that share a flag. Four keys reach an edit, its undo, another
edit and an undo, a folded paste, a deletion before it, and an undo, a character killed and yanked
beside one that was just typed, or a line of three cells, killed and yanked back folded
(`FoldCells` is 2). A yank-pop that folds takes five: the editor alone with `MaxKeys = 5` has 3.5 M
states, too many for this run, and keeps the same properties. Pipes of one piece
block a writer at its second. Three blocks with as many pieces let two blocks interleave while
a third begins. Four messages are a user, an answer with two calls, one of their
results and a user in the place of the other; or two rounds, answered by two models. Two retries are the least where one follows
another. Five session messages are a prompt, an answer, a continuation, its answer and one
the bound must refuse. Two sessions allow one replacement, and a switch back. Three events in the browser
are three prompts, the third sent while the second is queued and the first ends, or two and an
abort, a lost socket or a change of the session, or a prompt and two of these; with `OneSave` a frame waits for the save under way, while the user does not. Four frames let
a deferred prompt itself defer a command, with another behind it.

### Fairness

- `LoopSpec`: weak fairness on the loop's own steps, per tool call for the tool's, and on the
  end of a stream whose token is cancelled. The runtime polls a ready task, hooks return, and
  the model layer answers a cancelled token with an `Aborted` event (what `AbortEndsStream` shows,
  with its one exception). Nothing is assumed of the
  model or the tools, so `AbortEndsRun` holds with both silent. `RunEnds` adds its assumption
  as a premise: `WorldAnswers`, streams end and tools return.
- `SubprocessExtension!FairSpec`: each caller is polled and its timers fire. Nothing is
  assumed of the child.
- `RpcServer!FairSpec`: the dispatcher and the writer are polled, a prompt ends (what
  `RunEnds` shows of the loop), a bash with a cancelled token ends. `ServerExits` has the
  120 s timeout of bash as its premise; `AbortBashEnds` does without it.
- `MCTools!Fairness`: the callers' as above; the executor's task and its forwarders are polled,
  its timer fires, and a command whose processes end by themselves (`ends`) goes on writing and
  exits. `ToolsReturn` asks for no return of a command without a timeout whose processes stay.
- `InteractiveDriver!Fairness`: the runner is polled and the watchdog's timer fires; commands,
  compactions and logins end; the input loop finishes a key it has begun; the user answers a
  dialog, sooner or later not with a jump to another. Nothing is assumed of the model.
- `WebUi!FairSpec`: the page handles its frames, saves land, browser tools return (a thrown one
  is answered too, `remote-agent.ts:488`), the server's tasks are polled and the model answers.
  `TurnsEnd` assumes no reconnect.
- `ModelStream!Fairness`, in `MCTools`: the wrapper, its consumer and its two small tasks are polled, and a
  provider's stream comes to an end when its adapter has returned. A silent provider is allowed
  for ever, and so is a server that keeps its body open after an error that the adapter reads on
  after (`anthropic_messages.rs:1288`, `openai_responses_shared.rs:604`). `RequestMessages!FairSpec`: the conversion
  is a loop without an await.

## Proofs

A theorem below holds for every value of the constants that the named assumption of its module
allows: `BoundsAssumption`, `RpcAssumption`, `SubprocessAssumption`, `SessionAssumption`,
`StoreAssumption`, `StoresAssumption`, `ToolsAssumption` and `FrontEndsAssumption` say that bounds are in `Nat`, switches in `BOOLEAN` and
the value that stands for none is not one of the others (`NoSessionAssumption` and `NoneAssumption` too;
`CalmAssumption`: that the calm bound is a number;
`StoresAssumption`: that the imported sessions are among those of directory and database;
`ToolsAssumption`: that the two extensions a session starts with are extensions, and that the
bound on the pieces of a response is a number; `MadeIdsAreNew`: that the server gives no call the
id the Gemini adapter makes for one. The adapter compares the ids
of the server with those in the message, but not the one it makes of the name and a counter
(`google_shared.rs:618`), so that distinct ids need this of the server;
`FrontEndsAssumption`: that what is submitted is of a kind the driver knows;
`FramesAssumption`: that intervals and delays are numbers, and that something can be asked for); TLC evaluates them in the runs. The
theorems have one shape: an inductive invariant stronger than the property, a lemma per group of
actions with a step per action and under it a step per conjunct the action disturbs, and the
temporal step last. TLC checked each invariant on a run before it was proved, but for the parts of
`CopyInv` that quantify over all sequences (`ItemOpen`, `Leading`); of those it checked what they imply.

| Module | Theorem | States | Inductive invariant, and why it is needed |
|---|---|---|---|
| `AgentLoopProofs` | `TypeCorrect` | `TypeOK` | `TypeInv` adds `StreamShape`: an open stream has its partial message at the end of the context. Replacing the last message when a stream ends keeps the type only if there is one, and if it is the message the events carry. |
| | `RunReturnsWhatItAdded` | `ReturnsWhatItAdded`, an action property | `RunInv`: between runs `context = messages`, in a run `context = messages \o Added`, with `Added` what the run will return and the partial message of an open stream. |
| | `RunTurnsNest` | `TurnsNest` | `TurnInv`: whether a turn is open in each phase; the entry point opens the first, the injection every other. |
| | `StateMirrorsRun` | `RuntimeMirrorsRun` | `MirrorInv`: no error is published before the run ends, the slots of a batch are clear outside it, and no failed message ends the transcript where a run may end by itself. |
| | `NoneLost`, `InOrder` | `NoMessageLost`, `QueuesDeliverInOrder` | `FlowInv`: the inputs are those delivered, queued or discarded; a queue shares nothing with the other or with what was discarded, and continues what was delivered. |
| | `CallsAnswered` | `ToolCallsAnswered` | `AnswerInv`: the context is whole except for the message being streamed, and for the one whose calls are being executed, which is the last. |
| | `AbortFreezes` | `AbortFreezesRun`, an action property | the guards, with `TypeInv` and `RunInv`. |
| `AgentSessionProofs` | `SessionTypeCorrect` | `TypeOK` | itself. |
| | `AbortsAreOwnOnly`, `StaysUsable` | `NoStaleAbort`, `SessionStaysUsable` | `ControlInv`: what token, tools and flags are at each step of a send. |
| | `MessagesStayHome` | `TranscriptsDontMix` | `OwnInv`: whatever still can be journalled, in context, queues and run, belongs to the session that is open. |
| | `RecordedOnce` | `PersistedOnce` | `OnceInv`: what a run has still to journal is not in the journal. |
| | `SaidWasRead` | `TranscriptWasRead` | `ReadInv`: all message numbers of context, queues and run are distinct, and the context ends with what the run has said. |
| | `UndisturbedResumes` | `ResumeReplays`, without faults | `ReplayInv`: memory and store agree, and the context is what the journal rebuilds to followed by what the run has said and the end of the turn will journal. The hypothesis `Undisturbed` excludes what breaks it: a failed or timed-out run, a refused write, a compaction, an extension's entry. |
| `CalmSessionProofs` | `CalmSessionsResume` | `CalmResumeReplays` | `ControlInv` and `ReplayInv` of the calm session: the lemmas of `AgentSessionProofs` are cited through an instance with its constants, after showing that both instances take the same steps. |
| `JsonlStoreProofs` | `TypeCorrect` | `TypeOK` | itself. |
| | `WholeSessions` | `SessionsAreWhole` | `FileInv`: every header and entry is said once: in one place of a file, or in the content one operation has still to write. |
| | `OneWriterImplements` | the refinement of `SessionStore` under `View` | `Solo`. Its hypotheses are one writer and no interrupts, as in the run (`StoresImplementContract`): two unlocked writers, or a torn write, break the contract. Writing the text of a header, an entry or a fork is the atomic operation; opening files and writing newlines stutter. |
| `StoresProofs` | `StoresKeepTheContract` | `StoresImplementContract`, two action properties | `DirInv`, the invariant of `JsonlStoreProofs` under the names of the directory, whose proofs are cited through an instance; `SqlInv`: a connection that holds the write lock is in a write, and what a transaction has read is what the tables hold unless it has been overtaken (`Snapshot`), so that a commit puts down what the contract would. |
| | `ImportsAreComplete` | `ImportComplete` | `SqlInv`: what an import is still due is in the directory (`DueThere`), which only ever shows more; what it has passed is in the tables (`Complete`). |
| | `SettingsAreMoved` | `LegacyKept` | `SettingsInv`: the first layer is in the JSON file, or in its backup once it is in YAML (`FirstLayerIsHeld`), also while several processes are in the middle of the migration; who loads finds it (`FirstValuesLoad`). |
| | `WatcherHasTheLastWord` | `WatcherCatchesUp` | `WatcherKnows`: what was read, or told, is what the files say, unless an event is still to be served. |
| `ToolsProofs` | `SubprocessTypeCorrect` | `TypeOK` | itself. |
| | `LockIsFollowed` | `LockFollowsCalls` | `LockInv`: the fair queue has the waiting calls once each, and the holder is not in it. |
| | `HealthyCallsMatch` | `HealthyAnswersMatch` | `PipeInv`: while nothing was orphaned the pipes hold the request of the call that reads, or the frame sent for it, and otherwise nothing. |
| | `ShownToAll`, `SetUpServe` | `VettedValue`, `OnlySetUpServe` | `ChainInv`: the loaded flags say who is set up, also in the middle of a load; what a load or a shutdown has left is what the flags say; a pass that changed nothing has shown its value to all it has asked. |
| | `OutputKept` | `OutputWhole` | `BashInv`: channel and pipe hold what was written; a forwarder has ended only if its pipe was empty and nobody alive holds it; what the call has waited for. |
| | `ResponsesAreFinal` | `DoneIsFinal`, an action property | `FinalInv`: what each adapter remembers of the terminal event it has sent: `message_stop` seen, the body closed, the reason failed. No chunk of an open body yields one (`Quiet`). |
| | `MessagesAreComplete` | `MessageComplete` | `CopyInv`, an invariant for each way of putting a message together. Anthropic: the message has the server's blocks, of an open call all but its arguments, and the map of unended blocks has these (`AnthropicCopy`). OpenAI: the block being built is the server's last, and a part goes on with it exactly when the server does (`Building`, `PartOfServer`). Responses: the items but the open one are in the message, and the buffers have the open one, the text buffer the text of the one text item (`ItemOpen`). Google: what was parsed of a body holds its first parts in order, calls under distinct ids (`Parsing`). Proxy: there is a history of what the server had before each unread line, from what the client shows to what the server has (`Leading`). The provider call: each message begun has had its start and none its end while the response goes on (`ModelCopy`). |
| | `EditsAreNotLost` | `NoEditLost`, of `FilesKeepEdits` | `FilesInv`: a call is in the queue of its lock while it has or awaits it, works on the file only as the first of it, and has left the file as it is. It takes that the file was there or is only named by its own path: created through a link it has a second lock from then on, also if nothing but the link names it. |
| `FrontEndsProofs` | `RpcTypeCorrect` | `TypeOK` | itself. |
| | `CommandsTakenInOrder` | `CommandsInOrder` | `OrderInv`: the wire is what follows the last frame read, and what is deferred is newer than all the main loop has taken, the newest in front. |
| | `EachAnsweredOnce` | `AnsweredOnce` | `AccountInv`: a frame that was read is deferred, in flight or answered, never two of these; `EndInv`: the loop is left with nothing in flight, and nothing unread unless a side failed. |
| | `DriverStaysSound` | the two below | `DriverInv`. Every turn but the one in flight has its ending (`TurnsEnded`); a loader is owned by a submit under way, but for a bare `!`; a dialog that the runner no longer waits for is about to be taken down by the input loop (`OverlayCloses`); a preview and a running tool have their end behind them in the queue of events, unless their turn is in the middle of it or was dropped by the watchdog; a failure is on the terminal, latched, or behind in the events (`ProgressAgrees`). |
| | `TurnsAreReported`, `NothingIsLeft` | `OutcomeReported`, `QuietIsClean` | `DriverInv` when nothing is behind and nobody is at work. That the latch is of the turn it was set in (`LatchIsOwn`) is what makes a passed-over failure a cancelled one. |
| | `PendingStaysUnderWay` | `PendingIsUnderWay` | `WebInv`: each frame is where its writer puts it; with a socket a request is carried by the wire, the answer or the server's deferred frames, without one by the queue of the page. |
| | `PageFollows` | `PageFollowsServer` | `LineInv`: a prompt is in one place on its way to the server or in its announcement, and the run going on and each `agent_end` on the wire are of prompts that are past that. `EchoInv`: the page skips at least as many echoes as there are to come and shows all of these, or, once an `agent_end` has dropped the count under way, skips none and shows none. `ClearInv`: while no socket is lost and no run gives up, whatever an `agent_end` clears on the page has one to come. |
| | `FramesAreDrawnInTime` | `DrawnInTime`, of `TerminalKeepsUp` | `FrameInv`: inside the interval a request is no older than the last draw, so that a signal which puts the actor back from its budget to a deferral costs it that delay at most; a deferral is of a delay asked for since the last draw, and only ever shrinks. |

The theorems of `StoresProofs`, `ToolsProofs`, `FrontEndsProofs` and `CalmSessionProofs` are about
`MCStores!MCSpec`, `MCTools!MCSpec`, `MCFrontEnds!MCSpec` and `MCAgentSession!MCSpec`, the
specifications of the runs, so that they say of the components in them what the runs say; those
about subprocesses and the RPC server are about `SubprocessExtension!Spec` and `RpcServer!Spec`. `OutputKept` rests on `SuffixOf` (the tail of an output has a tail
of each stream) and `TruncatedTail`.

What a recursive function computes is proved by induction over a set (`SetInduction`,
`SequenceInduction` in `SequenceLemmas`): the induction theorems of the library take an operator
and cannot be instantiated. This is why the provable modules filter with `Keep`, and no module
has a RECURSIVE operator.

Only model-checked:

- liveness (`RunsEnd`, `ToolsReturn`, `AbortEndsStream`, `ServerSettles`, `SubmitsServed`,
  `TurnsEnd`): fairness and `ENABLED` are beyond the prover;
- safety without a proof: of `FilesKeepEdits` the half `EditsAreLocal`, of `TerminalKeepsUp` the
  editor's half (`UndoRestores`, `BurstsAreUnits`, `TokensKeepPayload`), and `RequestsPaired`. They say what folds over
  texts, over undo stacks and over conversations compute, with sorting and matching in them;
- what the algorithms of `FileTools`, `RequestMessages` and `Editor` compute from their inputs.

## Disagreements between the code and what is written about it

With a run:

- **A late answer read by the next call** (`Subprocess_late`). `subprocess.rs:28` says that
  killing the child avoids it. The timed-out call gives the lock up before it takes it again
  to kill; a waiting call is first. Calls are concurrent since the session runs tools in
  parallel. `HealthyAnswersMatch` says where answers do match.
- **A compacted session resumes empty** (`AgentSession_compaction`). The compaction entry's
  first kept id is minted from the clock and names no entry, so `build_context` finds no start.
- **A conversion that never ends** (`Streams_replay`). The loop of OpenAI's `convert_messages`
  counts its position by hand; the `continue` for an assistant message without content and calls
  (`openai_completions.rs:1077`) skips the count. An answer of thinking only is such a message.
- **Two messages for one response** (`ModelStream_retry`). Adapters that yield `Start` before
  the request are retried with a second `Start`; the loop pushes a second message and never
  closes the first, where `agent_loop.rs:512` means to leave "a single closed assistant message".
- **Each turn forgets those before it** (`Web_saves`). `agent_end` carries the messages of its run;
  the page takes them for "the full reconciled list" (`remote-agent.ts:10`, also
  `docs/exec-plans/web-ui.md:65`), shows and saves them over the session.
- **A dialog closed by another's key** (`Driver_dialogs`). All dialogs share one done flag. The
  input loop sends the outcome, raises the flag, then reads it; the runner may open the next
  dialog in between, which is unmounted unanswered. A login is silently given up after its
  provider is picked, an OAuth login goes on unseen, and the settings dialog that comes back
  after a picker leaves the runner waiting for ever (`Abandoned`, which `SubmitsServed` excepts).
- **A cancel that hits no turn** (`Driver_cancel`). Esc during the hooks cancels the token that
  `send_message` is about to replace. `[cancelled by Esc]` is shown and the turn goes on.

Seen while modelling, without a run of their own:

- An abort that arrives after the last answer ends the run `Ok` with no `Aborted` message,
  against the comment at `agent.rs:405`.
- When the loop returns `Err` (or the watchdog drops a send) the context keeps messages the
  journal never gets. This is why `CalmResumeReplays` is about behaviours without faults: with
  `MayFail = TRUE` `ResumeReplays` is violated.
- A custom tool's call dropped by an abort leaves its answer in the pipe for the next call
  (`AnswersMatch` with `CanDrop = TRUE` and one caller); a call that passed the health check
  can leave a child behind in a disabled extension.
- `CustomMessage` entries are journalled and not added to the live context, against `api.rs:349`;
  the extension sink is not cleared when the session is replaced.
- If the store accepts a context message and refuses the prompt after it, the journal has a
  message no model read (`TranscriptWasRead` excepts it), and the refused prompt stays in memory
  and returns through a fork or clone.

Stores and settings:

- The append after a torn one continues the partial line and closes it, and the session does not
  load from then on, against "at most one trailing partial line" (`session/jsonl.rs:8`).
  `SessionsAreWhole` says what holds instead: what loads has every acknowledged entry.
- `Settings::save` writes the whole layer as it was loaded, so two processes that save different
  keys lose one of them; a process that migrates late overwrites a newer save (which is why
  `LegacyKept` is about keys nobody set); after a migration that could not write, the defaults
  are used and a later save hides the JSON file. A change between load and watch is never
  reported. `watch` is called by tests only.

Extensions, RPC:

- A steer served inline overtakes a deferred `new_session`, which then drops it; `agent_session.rs:914`
  says that what is dropped "belonged to the prior conversation".
- A load dropped between a failure and the end of `load_extensions` leaves an extension in
  `extension_errors` and in the chain, to be loaded again. Contexts added to a user message come
  in the order of first contribution, not of registration.

Tools:

- A batch of edits with a fuzzy match folds the whole file, where `edit.rs` says it "rewrites the
  matched span"; it aligns line ends even when a text occurs literally, unlike the single edit;
  "aa" counts as unique in "aaa". A write that fails half-way leaves the file emptied, where the
  tool's text says that it is not modified. A file created through a symlinked directory has two
  locks.
- `on_chunk` is called only after the command has ended, not "as it arrives"
  (`bash_executor.rs:34`); a timeout loses the output; killing reaches the shell and not its
  children; without a timeout a background child that holds the pipe keeps the call.

Model client:

- Anthropic: a block of an unknown type shifts the positions of those after it, whose text is
  then missing from the partial message (`MessageComplete` leaves this case out); an error event
  followed by the end of the body yields a second `Error`.
- Responses: the text buffer is not cleared between parts, so a second text part repeats the
  first (`MessageComplete` compares text where there is one part). A body that ends cleanly too soon is
  reported as Done by the OpenAI and Responses adapters. Google's counter for tool call ids
  starts again with each process.
- OpenAI cuts ids to 40 characters and Mistral to 9; ids may coincide. `RequestsPaired` holds by
  count, since orphans are filled in before.
- The drain of a failing stream before a retry (`stream.rs:223`) is not raced with the token, against
  "Wrap each `next().await` in a select against the combined token" (`stream.rs:138`). The Anthropic and
  Responses adapters read on after an in-band error, so a server that keeps its body open holds
  the drain, and neither an abort nor the timeout ends it. `AbortEndsStream` excepts what comes
  during such a drain (`Held`); without the exception TLC finds the behaviour.
- Proxy: a body that ends without Done ends the stream silently, and a
  cancellation after Done yields a second terminal event.

Web UI:

- A socket lost in the middle of a turn leaves `isStreaming` set, and so does a run that returns
  `Err`, since the session calls the loop without `Agent` and nothing emits the `agent_end` that
  `types.rs:263` promises "for every run including failures": the page refuses every prompt until the
  session is changed (`QuietTakesPrompts` excepts both).
- After the socket is gone the dispatcher awaits the prompt to its end, and a call of a browser tool
  never ends: the session's tools hold the hub, so its channel stays open. The task stays for
  ever, against "Closing any leg cascades EOF to the others" (`ws.rs:170`); a result that comes
  between the start of a call and its registration is dropped like a late one (`Stranded`).
- `agent_end` resets the count of echoes to skip "to avoid leaking it into a later turn"
  (`remote-agent.ts:450`) while prompts behind it are still to be announced. Of a prompt sent after
  that the count takes the queued one's echo for its own: the queued one is not shown while it
  runs, and the later one may be shown twice (`SaidOnce` excepts it).
- `persistSession` reads the session's id again after its await, and an `agent_end` of the session
  left behind is taken for the new one's: either is saved under the wrong session.
- A prompt or request queued while the socket is away is served by a new server session without
  the conversation; a request rejected at the close of its socket is sent all the same.

Interactive driver:

- Esc during `!cmd` or `/compact` commits the cancel line and stops neither. A bare `!` leaves the
  loader on, against `state.rs:75`, and a later Esc "cancels" it (`QuietIsClean` excepts it).
- After a watchdog timeout the preview and the pending tools of the dropped turn stay, against
  `state.rs:110`.
- An in-band failure of one turn that the applier reaches after the next has reset the latch
  marks the next as failed, against `state.rs:319`. A mark made for one turn may meet the token of
  the next, because they are under two locks.
- `AgentSessionEvent::Error`, the other source of the latch, is emitted by nothing in the session.

Terminal:

- A deferred frame request delays an immediate one, before or after it, where `scheduler.rs:174`
  says that other requests "draw on their own schedule (this one does not suppress them)". `DrawnInTime` says what is left of it: a request waits the interval and the longest of the
  delays asked for while it does. A shutdown inside the window drops the last frame.
- History recall and a blank submission leave the undo stack of the previous text in place; a
  later undo corrupts the text or panics off a character boundary. A token killed and yanked
  after a submission or a renumbering is sent literally or stands for another paste, against
  "the marker token never reaches the host / agent" (`editor.rs:1601`); a token broken by a
  newline escapes renumbering. `TerminalKeepsUp` is about behaviours without these, told
  apart by the ghosts.

## What is not modelled

Of modelled parts: `Agent::subscribe`, the setters of model, tools and prompt, a dropped
`prompt()` future; at most one `Start` per stream is assumed in `AgentLoop` (`ModelStream` has
the retry); `set_messages` and labels in `AgentSession`; discovery and event encoding of
subprocess extensions, and extension events that only notify; the other commands of the RPC
server, which become one `query`; the 64 KiB cap of the header scan; validation of single
settings; the adapters for Mistral, Azure, Vertex, Codex and Bedrock, usage and cost, headers,
the JSON repair of tool arguments; the editor's layout, completion and word motion; what a dialog
of the driver shows and changes, and keys that only toggle what is drawn; the web UI's uploads,
downloads, artifacts, settings, keys and dialogs of extensions.

Whole parts, with reasons in `PROJECT.json`: compaction's choice of a split (its result is not
used), auth storage (documented as unsafe under concurrent writers) and the registry,
the command line. `tools/output_accumulator.rs` and `truncate.rs` are used by tests only. Much of
the repository is rendering, key decoding, provider tables, schemas and argument parsing: I/O or
conversions whose state is not shared with anything modelled here.

## Plan

The models are in place, and the safety properties of the runs are proved but for the three under
"Only model-checked". What is left of them, the nearest first: `RequestsPaired`, for which
`SelectSeq` and the folds of `RequestMessages` have to become recursive functions as in `Filter`;
`TokensKeepPayload`, then `UndoRestores`; `EditsAreLocal`, which needs what `SortSeq` returns.

Candidates for further models: a dropped `prompt()` of `Agent`, the refresh of tokens in auth
storage by two processes, the Mistral adapter.
