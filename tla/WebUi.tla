-------------------------------- MODULE WebUi --------------------------------
(***************************************************************************)
(* The web UI: the browser's agent (crates/web-ui/web/src: client/         *)
(* remote-agent.ts, client/ws-connection.ts, main.ts), the WebSocket, and  *)
(* what the server does with a connection (crates/web-ui/src: ws.rs,       *)
(* browser_tools.rs) up to the dispatcher of RpcServer and the loop of     *)
(* AgentLoop, of which a run is kept as far as the browser can tell.       *)
(*                                                                         *)
(* Every connection has a session of its own on the server.  A run asks    *)
(* the model once or, with a call of a browser tool between, twice; what   *)
(* tools of the server do is within "model".  The pipe between the socket  *)
(* and the dispatcher is part of `up`.                                     *)
(***************************************************************************)
EXTENDS Naturals, Sequences, SequencesExt

CONSTANTS
  MaxPrompts,   \* bound: what the user sends
  MaxConns,     \* bound: connections made
  MaxSessions,  \* bound: sessions the user starts in the page
  MaxEvents,    \* bound: prompts, requests, presses of the stop button, changes of the
                \* session and sockets lost, all told
  OneSave       \* bound: a frame waits while a save is under way

VARIABLES
  conn,      \* WsConnection: the number of its socket, where it is, isOpen
  sendQueue, \* sendQueue
  requests,  \* pendingRequests, and how many were made
  up, down,  \* the frames on the socket, in each direction
  agent,     \* RemoteAgent: state.messages, isStreaming, pending, suppressUserEchoes
  page,      \* main.ts: sessionId; sends that still upload, tools that still run
  saving,    \* what persistSession has captured and waits to save; <<>> is nothing
  saved,     \* the sessions in the browser's database
  server,    \* per connection: the session, its dispatcher and its hub
  seen       \* history: see Init

browser == <<sendQueue, requests, agent, page>>
store == <<saving, saved>>
vars == <<conn, browser, up, down, store, server, seen>>

Prompts  == 1..MaxPrompts
Conns    == 1..MaxConns
Sessions == 1..MaxSessions

\* A call has the number of the prompt whose run makes it.
User(n)      == [role |-> "user", of |-> n, k |-> 1]
Answer(n, k) == [role |-> "assistant", of |-> n, k |-> k]
Result(n)    == [role |-> "toolResult", of |-> n, k |-> 1]

Frame(type, n) == [type |-> type, n |-> n]
WithMessages(type, n, ms) == [type |-> type, n |-> n, messages |-> ms]

\* A session before its first prompt: build_session.
NoServer == [at |-> "none", run |-> 0, k |-> 0, context |-> <<>>, new |-> <<>>,
             deferred |-> <<>>, cancelled |-> FALSE, eof |-> FALSE, hub |-> {}, got |-> FALSE]
Built == [NoServer EXCEPT !.at = "idle"]

Init ==
  /\ conn = [n |-> 0, at |-> "connecting", open |-> FALSE]
  /\ sendQueue = <<>> /\ up = <<>> /\ down = <<>>
  /\ requests = [pending |-> {}, made |-> 0]
  /\ agent = [messages |-> <<>>, streaming |-> FALSE, pending |-> {}, suppress |-> 0]
  /\ page = [session |-> 1, started |-> 1, sent |-> 0,
             uploading |-> {}, running |-> {}]
  /\ saving = <<>> /\ saved = [s \in Sessions |-> <<>>]
  /\ server = [c \in Conns |-> NoServer]
  \* The prompts said since the page last changed its session, the one that runs,
  \* whether a socket was lost or a run gave up, results that came too early, and
  \* what agent.suppress counts: see Awaited.
  /\ seen = [here |-> {}, runs |-> 0, broken |-> FALSE, missed |-> {}, events |-> 0,
             echoes |-> "counted"]

-----------------------------------------------------------------------------
(* WsConnection. *)

More == seen.events < MaxEvents
Counted == seen' = [seen EXCEPT !.events = @ + 1]

\* send: on the socket when it is open, else into the queue.  What is written
\* to a socket that is gone already is lost.
Send(frames) ==
  /\ up' = IF conn.at = "up" /\ conn.open THEN up \o frames ELSE up
  /\ sendQueue' = IF conn.open THEN sendQueue ELSE sendQueue \o frames

\* The socket opens: handle_socket builds a session, the queue is flushed.
Opens ==
  /\ conn.at = "connecting" /\ conn.n < MaxConns
  /\ conn' = [n |-> conn.n + 1, at |-> "up", open |-> TRUE]
  /\ server' = [server EXCEPT ![conn.n + 1] = Built]
  /\ up' = sendQueue /\ sendQueue' = <<>> /\ down' = <<>>
  /\ UNCHANGED <<requests, agent, page, store, seen>>

\* The network drops the socket, with what is on it.  The server's inbound task
\* ends and shuts the dispatcher's input down.
Drops ==
  /\ conn.at = "up" /\ More
  /\ conn' = [conn EXCEPT !.at = "lost"]
  /\ server' = [server EXCEPT ![conn.n].eof = TRUE]
  /\ up' = <<>> /\ down' = <<>>
  /\ seen' = [seen EXCEPT !.broken = TRUE, !.events = @ + 1]
  /\ UNCHANGED <<browser, store>>

\* Mutant: requests are left to their timers.
Closed_KeepsRequests ==
  /\ conn' = [conn EXCEPT !.at = "connecting", !.open = FALSE]
  /\ UNCHANGED <<requests, sendQueue, agent, page, up, down, store, server, seen>>

\* "close": the requests are rejected, the queue stays, and a timer connects again.
Closed ==
  /\ conn' = [conn EXCEPT !.at = "connecting", !.open = FALSE]
  /\ requests' = [requests EXCEPT !.pending = {}]
  /\ UNCHANGED <<sendQueue, agent, page, up, down, store, server, seen>>

NoticesLoss == conn.at = "lost" /\ Closed
ConnectFails == conn.at = "connecting" /\ requests.pending # {} /\ Closed

\* request: get_state, get_available_models, export_html.
Request ==
  /\ More /\ Counted
  /\ requests' = [pending |-> requests.pending \cup {requests.made + 1},
                  made |-> requests.made + 1]
  /\ Send(<<Frame("request", requests.made + 1)>>)
  /\ UNCHANGED <<conn, agent, page, down, store, server>>

RequestTimesOut ==
  /\ \E r \in requests.pending : requests' = [requests EXCEPT !.pending = @ \ {r}]
  /\ UNCHANGED <<conn, sendQueue, agent, page, up, down, store, server, seen>>

-----------------------------------------------------------------------------
(* main.ts: the session the page is in, and its copy in the database. *)

\* persistSession, up to its first await: what there is to save is captured.
\* Saves land in order, so of two that are under way the last one is kept.
Persists(messages) == saving' = IF messages = <<>> THEN saving ELSE messages

\* ... and after it: saved under the id the page has by then.
Saves ==
  /\ saving # <<>>
  /\ saved' = [saved EXCEPT ![page.session] = saving]
  /\ saving' = <<>>
  /\ UNCHANGED <<conn, browser, up, down, server, seen>>

\* RemoteAgent.newSession and loadSession replace what is shown, tell the
\* server, and emit agent_end, which saves.
Shows(session, messages, frames) ==
  /\ agent' = [agent EXCEPT !.messages = messages, !.streaming = FALSE, !.pending = {}]
  /\ page' = [page EXCEPT !.session = session, !.started = IF session > @ THEN session ELSE @]
  /\ Persists(messages)
  /\ Send(frames)
  /\ seen' = [seen EXCEPT !.here = {}, !.runs = 0, !.events = @ + 1]
  /\ UNCHANGED <<conn, requests, down, saved, server>>

NewSession ==
  /\ page.started < MaxSessions /\ More
  /\ Shows(page.started + 1, <<>>, <<Frame("new_session", 0)>>)

LoadSession(s) ==
  /\ saved[s] # <<>> /\ s # page.session /\ More
  /\ Shows(s, saved[s], <<WithMessages("set_messages", 0, saved[s])>>)

-----------------------------------------------------------------------------
(* RemoteAgent. *)

\* Prompts that the server has still to announce, or the page still to be told of.
\* An agent_end drops the count of those there are ("dropped"); of a prompt that is
\* sent after it the count takes the echo for theirs ("wrong"), up to the next.
Awaited(frames) ==
  \E queue \in {sendQueue, up, frames} \cup {server[c].deferred : c \in Conns \cap {conn.n}} :
    \E i \in DOMAIN queue : queue[i].type \in {"prompt", "message"}

CountsNext == IF seen.echoes # "dropped" THEN seen.echoes
              ELSE IF Awaited(down) THEN "wrong" ELSE "counted"

\* AgentInterface.sendMessage: nothing is sent while a turn streams.  The
\* attachments are uploaded before the prompt is shown and sent.
Submit ==
  /\ ~agent.streaming /\ page.sent < MaxPrompts /\ More /\ Counted
  /\ page' = [page EXCEPT !.sent = @ + 1, !.uploading = @ \cup {page.sent + 1}]
  /\ UNCHANGED <<conn, sendQueue, requests, agent, up, down, store, server>>

\* The list is pushed to in place: a save that has captured it takes what is
\* pushed before it lands.
Pushes(m) == saving' = IF saving = agent.messages /\ saving # <<>> THEN Append(saving, m)
                                                                 ELSE saving

\* Mutant: the echo of what is shown already is not suppressed.
SendMessage_Echoed(n) ==
  /\ page' = [page EXCEPT !.uploading = @ \ {n}]
  /\ agent' = [agent EXCEPT !.messages = Append(@, User(n)), !.streaming = conn.open]
  /\ Send(<<Frame("prompt", n)>>)
  /\ seen' = [seen EXCEPT !.here = @ \cup {n}, !.echoes = CountsNext]
  /\ Pushes(User(n))
  /\ UNCHANGED <<conn, requests, down, saved, server>>

SendMessage(n) ==
  /\ page' = [page EXCEPT !.uploading = @ \ {n}]
  /\ agent' = [agent EXCEPT !.messages = Append(@, User(n)), !.suppress = @ + 1,
                            !.streaming = conn.open]
  /\ Send(<<Frame("prompt", n)>>)
  /\ seen' = [seen EXCEPT !.here = @ \cup {n}, !.echoes = CountsNext]
  /\ Pushes(User(n))
  /\ UNCHANGED <<conn, requests, down, saved, server>>

\* The stop button.
Abort ==
  /\ agent.streaming /\ More /\ Counted
  /\ Send(<<Frame("abort", 0)>>)
  /\ UNCHANGED <<conn, requests, agent, page, down, store, server>>

\* runBrowserTool, when the executor has returned or thrown.
ToolDone(call) ==
  /\ page' = [page EXCEPT !.running = @ \ {call}]
  /\ Send(<<Frame("tool_result", call)>>)
  /\ UNCHANGED <<conn, requests, agent, down, store, server, seen>>

\* agent_end: the list is what the frame says, and the count starts anew.
AgentEnds(f) ==
  [agent EXCEPT !.messages = f.messages, !.streaming = FALSE, !.pending = {}, !.suppress = 0]

\* A user message the server announces: what sendMessage has shown is skipped.
Echo(f) ==
  IF agent.suppress > 0 THEN [agent EXCEPT !.suppress = @ - 1]
                        ELSE [agent EXCEPT !.messages = Append(@, User(f.n))]

\* handleFrame, and settleResponse.  message_start and message_end of one
\* message are one frame; deltas and the other messages' frames show nothing
\* that stays.
Handled(f) ==
  CASE f.type = "agent_start" -> [agent EXCEPT !.streaming = TRUE]
    [] f.type = "message"     -> Echo(f)
    [] f.type = "tool_start"  -> [agent EXCEPT !.pending = @ \cup {f.n}]
    [] f.type = "tool_end"    -> [agent EXCEPT !.pending = @ \ {f.n}]
    [] f.type = "turn_end"    -> [agent EXCEPT !.messages = Append(@, Answer(f.n, f.k))]
    [] f.type = "agent_end"   -> AgentEnds(f)
    [] f.type = "response"    -> agent

Receive ==
  LET f == Head(down) IN
  /\ conn.open /\ down # <<>>
  /\ OneSave => saving = <<>>
  /\ down' = Tail(down)
  /\ agent' = Handled(f)
  /\ page' = IF f.type = "tool_start" THEN [page EXCEPT !.running = @ \cup {f.n}] ELSE page
  /\ IF f.type \in {"message", "tool_end", "turn_end", "agent_end"}
     THEN Persists(agent'.messages) ELSE UNCHANGED saving
  /\ requests' = IF f.type = "response" THEN [requests EXCEPT !.pending = @ \ {f.n}]
                                        ELSE requests
  /\ seen' = [seen EXCEPT !.runs = CASE f.type = "message" -> f.n
                                     [] f.type = "agent_end" -> 0
                                     [] OTHER -> @,
                          !.echoes = IF f.type # "agent_end" THEN @
                                     ELSE IF Awaited(Tail(down)) THEN "dropped" ELSE "counted"]
  /\ UNCHANGED <<conn, sendQueue, up, saved, server>>

-----------------------------------------------------------------------------
(* The server's side of connection c. *)

\* What it writes reaches the browser as long as the socket is there.
Emit(c, frames) == down' = IF conn.n = c /\ conn.at = "up" THEN down \o frames ELSE down

Becomes(c, s) ==
  /\ server' = [server EXCEPT ![c] = s]
  /\ UNCHANGED <<conn, browser, store>>

\* A command of the dispatcher, between two prompts.
Serve(c, f, s) ==
  CASE f.type = "prompt" ->
         /\ Becomes(c, [s EXCEPT !.at = "model", !.run = f.n, !.k = 1, !.cancelled = FALSE,
                                 !.context = Append(@, User(f.n)), !.new = <<User(f.n)>>])
         /\ Emit(c, <<Frame("agent_start", 0), Frame("message", f.n)>>)
    [] f.type = "request" ->
         Becomes(c, s) /\ Emit(c, <<Frame("response", f.n)>>)
    [] f.type = "new_session" ->
         Becomes(c, [s EXCEPT !.context = <<>>]) /\ Emit(c, <<>>)
    [] f.type = "set_messages" ->
         Becomes(c, [s EXCEPT !.context = f.messages]) /\ Emit(c, <<>>)
    [] f.type = "abort" ->
         Becomes(c, s) /\ Emit(c, <<>>)

Idle(c) == server[c].at = "idle"
Busy(c) == server[c].at \in {"model", "prepare", "tool"}

TakeDeferred(c) ==
  LET s == server[c] IN
  /\ Idle(c) /\ s.deferred # <<>>
  /\ Serve(c, Head(s.deferred), [s EXCEPT !.deferred = Tail(@)])
  /\ UNCHANGED <<up, seen>>

\* A tool_result is resolved by the inbound task: nobody may wait for it yet, or
\* any more.
Resolve(c, call) ==
  LET s == server[c] IN
  /\ Becomes(c, IF call \in s.hub
                THEN [s EXCEPT !.hub = @ \ {call}, !.got = @ \/ (s.at = "tool" /\ call = s.run)]
                ELSE s)
  /\ seen' = IF s.at = "prepare" /\ call = s.run
             THEN [seen EXCEPT !.missed = @ \cup {call}] ELSE seen
  /\ Emit(c, <<>>)

\* A frame from the browser.  While a prompt runs the dispatcher serves an
\* abort and defers the rest.
Inbound(c) ==
  LET s == server[c]  f == Head(up) IN
  /\ conn.n = c /\ up # <<>>
  /\ up' = Tail(up)
  /\ \/ f.type = "tool_result" /\ Resolve(c, f.n)
     \/ /\ f.type # "tool_result" /\ Busy(c)
        /\ Becomes(c, IF f.type = "abort" THEN [s EXCEPT !.cancelled = TRUE]
                                          ELSE [s EXCEPT !.deferred = Append(@, f)])
        /\ Emit(c, <<>>) /\ UNCHANGED seen
     \/ /\ f.type # "tool_result" /\ Idle(c) /\ s.deferred = <<>>
        /\ Serve(c, f, s) /\ UNCHANGED seen

\* The end of a run: turn_end is out, and agent_end has what the run added.
Ended(s) == [s EXCEPT !.at = "idle", !.run = 0, !.k = 0, !.new = <<>>, !.got = FALSE,
                      !.cancelled = FALSE]
TurnEnd(s) == [type |-> "turn_end", n |-> s.run, k |-> s.k]
AgentEnd(messages) == WithMessages("agent_end", 0, messages)

\* The model answers with no call, with an error or aborted: the run ends.
ModelEnds(c) ==
  LET s == server[c]  a == Answer(s.run, s.k) IN
  /\ s.at = "model"
  /\ Becomes(c, [Ended(s) EXCEPT !.context = Append(@, a)])
  /\ Emit(c, <<TurnEnd(s), AgentEnd(Append(s.new, a))>>)
  /\ UNCHANGED <<up, seen>>

\* No stream can be made, as when no provider serves the model, or it ends with
\* no last event: the loop returns Err and says nothing.
RunFails(c) ==
  LET s == server[c] IN
  /\ s.at = "model"
  /\ Becomes(c, Ended(s))
  /\ seen' = [seen EXCEPT !.broken = TRUE]
  /\ UNCHANGED <<up, down>>

\* It calls a browser tool: the start is announced before the hooks are asked.
ModelCalls(c) ==
  LET s == server[c]  a == Answer(s.run, s.k) IN
  /\ s.at = "model" /\ s.k = 1 /\ ~s.cancelled
  /\ Becomes(c, [s EXCEPT !.at = "prepare", !.context = Append(@, a), !.new = Append(@, a)])
  /\ Emit(c, <<Frame("tool_start", s.run)>>)
  /\ UNCHANGED <<up, seen>>

\* browser_tool's closure: it registers with the hub and waits.
Register(c) ==
  /\ server[c].at = "prepare"
  /\ Becomes(c, [server[c] EXCEPT !.at = "tool", !.hub = @ \cup {server[c].run}])
  /\ UNCHANGED <<up, down, seen>>

\* The result is there, or the token is cancelled.  A cancelled run ends after
\* the turn, any other asks the model again.
ToolReturns(c) ==
  LET s == server[c]
      t == Result(s.run)
      done == [s EXCEPT !.context = Append(@, t), !.new = Append(@, t), !.got = FALSE]
  IN
  /\ s.at = "tool" /\ (s.got \/ s.cancelled)
  /\ Becomes(c, IF s.cancelled THEN Ended(done) ELSE [done EXCEPT !.at = "model", !.k = 2])
  /\ Emit(c, <<Frame("tool_end", s.run), TurnEnd(s)>>
              \o (IF s.cancelled THEN <<AgentEnd(done.new)>> ELSE <<>>))
  /\ UNCHANGED <<up, seen>>

\* Mutant: the end of the input is only noticed after a prompt.
Exits_AfterPrompt(c) ==
  /\ Idle(c) /\ server[c].eof /\ server[c].context # <<>>
  /\ server' = [server EXCEPT ![c] = [NoServer EXCEPT !.at = "gone", !.eof = TRUE]]
  /\ UNCHANGED <<conn, browser, up, down, store, seen>>

\* The input has ended: what is deferred is served, or dropped when the writer
\* has failed, and the dispatcher exits.
Exits(c) ==
  /\ Idle(c) /\ server[c].eof
  /\ server' = [server EXCEPT ![c] = [NoServer EXCEPT !.at = "gone", !.eof = TRUE]]
  /\ UNCHANGED <<conn, browser, up, down, store, seen>>

-----------------------------------------------------------------------------
Network == Opens \/ Drops \/ NoticesLoss \/ ConnectFails
Person == Submit \/ Abort \/ NewSession \/ Request \/ \E s \in Sessions : LoadSession(s)
Page == \/ RequestTimesOut \/ Saves \/ Receive
        \/ \E n \in page.uploading : SendMessage(n)
        \/ \E call \in page.running : ToolDone(call)
Dispatcher(c) == \/ TakeDeferred(c) \/ Inbound(c) \/ Register(c) \/ ToolReturns(c)
                 \/ Exits(c)

Next == \/ Network \/ Person \/ Page
        \/ \E c \in Conns : Dispatcher(c) \/ ModelEnds(c) \/ ModelCalls(c) \/ RunFails(c)

Spec == Init /\ [][Next]_vars

\* The page handles its frames, its saves land and its tools return; the
\* server's tasks are polled and the model answers.  Each of these happens
\* finitely often within the bounds, so that one weak fairness for all of them
\* gives each its turn.
Goes == \/ Receive \/ Saves \/ \E call \in page.running : ToolDone(call)
        \/ \E c \in Conns : Dispatcher(c) \/ ModelEnds(c)
FairSpec == Spec /\ WF_vars(Goes)

-----------------------------------------------------------------------------
(* Properties. *)

\* Where the page shows what the user said.
Places(messages, n) == {i \in DOMAIN messages : messages[i] = User(n)}

\* What the user said is on the page once: shown when it is sent, not again
\* when the server announces it, and still there while its run goes on.  It does
\* not hold while a prompt's echo is taken for another's.
SaidOnce == seen.echoes # "wrong" =>
  /\ \A n \in seen.here : \A i, j \in Places(agent.messages, n) : i = j
  /\ seen.runs \in seen.here => Places(agent.messages, seen.runs) # {}

Quiet ==
  /\ conn.open /\ sendQueue = <<>> /\ up = <<>> /\ down = <<>>
  /\ page.uploading = {} /\ page.running = {}
  /\ Idle(conn.n) /\ server[conn.n].deferred = <<>>

\* When all is quiet the page is ready for the next prompt: no turn shown as
\* going on, no call as pending.  A lost socket and a run that gives up leave it
\* waiting: neither brings an agent_end.
QuietTakesPrompts ==
  Quiet /\ ~seen.broken => ~agent.streaming /\ agent.pending = {} /\ agent.suppress = 0

PageFollowsServer == SaidOnce /\ QuietTakesPrompts

Carries(frames, r) == \E i \in DOMAIN frames : frames[i].type \in {"request", "response"}
                                               /\ frames[i].n = r

\* Nobody waits for an answer that cannot come: a pending request is in the
\* queue, on the socket, or with the server.
PendingIsUnderWay == \A r \in requests.pending :
  \/ conn.at = "lost"
  \/ \E frames \in {sendQueue, up, down} : Carries(frames, r)
  \/ conn.n > 0 /\ Carries(server[conn.n].deferred, r)

\* What PendingIsUnderWay rests on: who writes which frames; a socket's state;
\* and who carries a request while there is a socket or none.
ServedKinds == {"prompt", "request", "abort", "new_session", "set_messages"}
UpKinds == ServedKinds \cup {"tool_result"}
DownKinds == {"agent_start", "message", "tool_start", "tool_end", "turn_end", "agent_end",
              "response"}
Queue(frames, kinds) ==
  /\ frames \in Seq({frames[i] : i \in DOMAIN frames})
  /\ \A i \in DOMAIN frames : frames[i].type \in kinds

FramesOK ==
  /\ conn \in [n : Nat, at : {"connecting", "up", "lost"}, open : BOOLEAN]
  /\ requests \in [pending : SUBSET Nat, made : Nat]
  /\ Queue(sendQueue, UpKinds) /\ Queue(up, UpKinds) /\ Queue(down, DownKinds)
  /\ DOMAIN server = Conns
  /\ \A c \in Conns :
       DOMAIN server[c] = DOMAIN NoServer /\ Queue(server[c].deferred, ServedKinds)

SocketOK ==
  /\ conn.open <=> conn.at # "connecting"
  /\ conn.open => sendQueue = <<>>
  /\ conn.at = "up" => conn.n \in Conns /\ ~server[conn.n].eof

RequestsCarried == \A r \in requests.pending :
  /\ conn.at = "connecting" => Carries(sendQueue, r)
  /\ conn.at = "up" =>
       Carries(up, r) \/ Carries(down, r) \/ Carries(server[conn.n].deferred, r)

WebInv == FramesOK /\ SocketOK /\ RequestsCarried

\* A run ends as long as its socket is there, whatever browser tool it calls,
\* and once the socket is gone the dispatcher exits: but for a result that came
\* before the call had registered with the hub, and for one that will not come.
Stranded(c) == seen.missed # {} \/ (server[c].eof /\ server[c].at = "tool")
Settled(c) == ~Busy(c) /\ (server[c].eof => server[c].at = "gone")
ToSettle(c) == Busy(c) \/ server[c].eof
TurnsEnd == \A c \in Conns : ToSettle(c) ~> (Settled(c) \/ Stranded(c))

Answers(messages) == {m \in ToSet(messages) : m.role = "assistant"}

\* An answer that was saved of a session stays when more of it is saved.
AnswersStaySaved == [][\A s \in Sessions : Answers(saved[s]) \subseteq Answers(saved'[s])]_saved
=============================================================================
