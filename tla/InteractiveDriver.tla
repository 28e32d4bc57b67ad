-------------------------- MODULE InteractiveDriver --------------------------
(***************************************************************************)
(* The interactive mode's driver (crates/coding-agent/src/modes/           *)
(* interactive/rt_driver): the input loop, the turn runner and the event   *)
(* applier, three tasks on several threads, with what they share.          *)
(*                                                                         *)
(* A step is what a task does under one lock, or between two awaits when   *)
(* nobody else can tell the difference.  The state behind the one mutex    *)
(* is the record `state`; the overlay, its done flag and the cancellation  *)
(* token have locks of their own, and that is what can go wrong.  What is  *)
(* drawn is left out, but for the preview, the loader and the progress.    *)
(***************************************************************************)
EXTENDS Integers, Sequences

CONSTANTS
  Kinds,       \* what the user submits, of the kinds in Work
  MaxSubmits,  \* bound: how much the user submits
  MaxEvents,   \* bound: how far the applier falls behind the session
  MaxDialogs   \* bound: no picker is opened from the settings after this one

VARIABLES
  submits,  \* the submit channel
  runner,   \* the turn runner: where it is, its work, the numbers of turn and dialog
  send,     \* where send_message is
  token,    \* is_cancelled() of the token in the session's cell
  events,   \* the event channel
  state,    \* DriverState
  input,    \* the input loop: where it is, for which dialog or work, what it may still submit
  overlay,  \* the dialog mounted, or 0
  done,     \* the done flag all dialogs share
  answer,   \* what the channel (or the status) of the runner's dialog holds
  ended,    \* history: how each turn ended
  pressed   \* history: the turns in flight when Esc or Ctrl+C found a loader

uiVars == <<overlay, done, answer>>
turnVars == <<send, token, events>>
history == <<ended, pressed>>
vars == <<submits, runner, turnVars, state, input, uiVars, history>>

Work == {"turn", "bash", "emptyBash", "compact", "slash", "model", "login", "settings"}

\* The dialogs a piece of work opens first.
First == [model |-> "pick", login |-> "picker", settings |-> "settings"]

Outcomes == {"picked", "key", "oauth", "cancel", "jump", "close"}

\* The keys that end a dialog, by what it answers with.
Answers(dialog) ==
  CASE dialog = "picker"   -> {"key", "oauth", "cancel"}
    [] dialog = "oauth"    -> {"cancel"}
    [] dialog = "settings" -> {"close"} \cup IF runner.dialog < MaxDialogs THEN {"jump"} ELSE {}
    [] OTHER               -> {"picked"}

\* DriverState::new, and a runner that is not there.
Fresh == [streaming |-> FALSE, cancelRequested |-> FALSE, turnError |-> FALSE,
          preview |-> 0, pendingTools |-> {}, progress |-> "clear"]
Nowhere == [at |-> "nowhere", work |-> "none", turn |-> 0, dialog |-> 0, kind |-> "none"]

Init ==
  /\ submits \in {<<>>} \cup {<<w>> : w \in Kinds \cap {"login"}}
  /\ runner = [Nowhere EXCEPT !.at = "recv"]
  /\ send = "none" /\ token = FALSE /\ events = <<>>
  /\ state = Fresh
  /\ input = [at |-> "free", for |-> 0, left |-> MaxSubmits - Len(submits)]
  /\ overlay = 0 /\ done = FALSE /\ answer = "none"
  /\ ended = <<>> /\ pressed = {}

\* What the preview shows: the message of a turn, or a command; 0 is nothing.
Command == MaxSubmits + 1

At(place) == runner.at = place
Goto(place) == runner' = [runner EXCEPT !.at = place]

-----------------------------------------------------------------------------
(* The input loop *)

Free == input.at = "free"

\* handle_key, a submit: the loader comes on, and then the text is sent.
\* "/copy" is sent by its chord as well, without the loader.
Submit(work) ==
  /\ Free /\ overlay = 0 /\ input.left > 0
  /\ input' = [input EXCEPT !.at = "submit", !.for = work, !.left = @ - 1]
  /\ state' = [state EXCEPT !.streaming = TRUE]
  /\ UNCHANGED <<submits, runner, turnVars, uiVars, history>>

SendSubmit ==
  /\ input.at = "submit"
  /\ submits' = Append(submits, input.for)
  /\ input' = [input EXCEPT !.at = "free", !.for = 0]
  /\ UNCHANGED <<runner, turnVars, state, uiVars, history>>

CopyLastMessage ==
  /\ Free /\ overlay = 0 /\ input.left > 0 /\ "slash" \in Kinds
  /\ submits' = Append(submits, "slash")
  /\ input' = [input EXCEPT !.left = @ - 1]
  /\ UNCHANGED <<runner, turnVars, state, uiVars, history>>

\* The turn is past the reset of its latches and send_message has not returned.
InFlight == runner.at \in {"begin", "send"}

\* cancel_in_flight_turn: mark_cancelled under the lock, then the token.
MarkCancelled ==
  /\ Free /\ overlay = 0 /\ state.streaming
  /\ state' = [state EXCEPT !.cancelRequested = TRUE, !.streaming = FALSE]
  /\ input' = [input EXCEPT !.at = "cancel"]
  /\ pressed' = IF InFlight THEN pressed \cup {runner.turn} ELSE pressed
  /\ UNCHANGED <<submits, runner, turnVars, uiVars, ended>>

CancelToken ==
  /\ input.at = "cancel"
  /\ token' = TRUE
  /\ input' = [input EXCEPT !.at = "free"]
  /\ UNCHANGED <<submits, runner, send, events, state, uiVars, history>>

\* dispatch_key: the mounted dialog gets the key.  One that ends it sends the
\* outcome, raises the flag, and then the flag is looked at.
Answer(a) ==
  /\ Free /\ overlay # 0
  /\ overlay = runner.dialog => a \in Answers(runner.kind)
  /\ input' = [input EXCEPT !.at = "raise", !.for = overlay]
  /\ answer' = IF runner.at = "dialog" /\ overlay = runner.dialog /\ answer = "none"
               THEN a ELSE answer
  /\ UNCHANGED <<submits, runner, turnVars, state, overlay, done, history>>

RaiseDone ==
  /\ input.at = "raise"
  /\ done' = TRUE
  /\ input' = [input EXCEPT !.at = "check"]
  /\ UNCHANGED <<submits, runner, turnVars, state, overlay, answer, history>>

CheckDone ==
  /\ input.at = "check"
  /\ overlay' = IF done THEN 0 ELSE overlay
  /\ input' = [input EXCEPT !.at = "free", !.for = 0]
  /\ UNCHANGED <<submits, runner, turnVars, state, done, answer, history>>

\* Any other key leaves the dialog open, unless its flag is up already.
OtherKey ==
  /\ Free /\ overlay # 0 /\ done
  /\ overlay' = 0
  /\ UNCHANGED <<submits, runner, turnVars, state, input, done, answer, history>>

\* Ctrl+D outside a dialog, the end of the input, a hangup: the channels are
\* dropped, the tasks aborted, and all they shared is gone.
Quit ==
  /\ Free
  /\ input' = [at |-> "gone", for |-> 0, left |-> 0]
  /\ submits' = <<>> /\ runner' = Nowhere /\ send' = "none" /\ token' = FALSE
  /\ events' = <<>> /\ state' = Fresh /\ overlay' = 0 /\ done' = FALSE
  /\ answer' = "none" /\ ended' = <<>> /\ pressed' = {}

Input ==
  \/ \E work \in Kinds : Submit(work)
  \/ SendSubmit \/ CopyLastMessage \/ MarkCancelled \/ CancelToken
  \/ \E a \in Outcomes : Answer(a)
  \/ RaiseDone \/ CheckDone \/ OtherKey \/ Quit

-----------------------------------------------------------------------------
(* The turn runner *)

\* turn_runner and the start of run_turn, which tells the submits apart.
Take ==
  /\ At("recv") /\ submits # <<>>
  /\ submits' = Tail(submits)
  /\ runner' = [runner EXCEPT !.at = Head(submits), !.work = Head(submits)]
  /\ UNCHANGED <<turnVars, state, input, uiVars, history>>

\* Mutant: a command without a turn leaves the loader to nobody.
RunSlash_LoaderOn ==
  /\ At("slash")
  /\ Goto("recv")
  /\ UNCHANGED <<submits, turnVars, state, input, uiVars, history>>

\* run_slash_command, run_hotkeys, run_reload: the loader goes off.
RunSlash ==
  /\ At("slash")
  /\ Goto("recv")
  /\ state' = [state EXCEPT !.streaming = FALSE]
  /\ UNCHANGED <<submits, turnVars, input, uiVars, history>>

\* run_bash_inline.  A bare "!" returns before anything is set; the command
\* has no timeout and a token of its own, which no key cancels.
RunEmptyBash ==
  /\ At("emptyBash")
  /\ Goto("recv")
  /\ UNCHANGED <<submits, turnVars, state, input, uiVars, history>>

RunBash ==
  /\ At("bash")
  /\ Goto("running")
  /\ state' = [state EXCEPT !.preview = Command, !.streaming = TRUE]
  /\ UNCHANGED <<submits, turnVars, input, uiVars, history>>

BashEnds ==
  /\ At("running")
  /\ Goto("recv")
  /\ state' = [state EXCEPT !.preview = 0, !.streaming = FALSE]
  /\ UNCHANGED <<submits, turnVars, input, uiVars, history>>

\* run_compact.
RunCompact ==
  /\ At("compact")
  /\ Goto("compacting")
  /\ state' = [state EXCEPT !.streaming = TRUE]
  /\ UNCHANGED <<submits, turnVars, input, uiVars, history>>

CompactEnds ==
  /\ At("compacting")
  /\ Goto("recv")
  /\ state' = [state EXCEPT !.streaming = FALSE]
  /\ UNCHANGED <<submits, turnVars, input, uiVars, history>>

\* run_turn, a message to the model: the latches of the last turn are reset.
ResetLatches ==
  /\ At("turn")
  /\ runner' = [runner EXCEPT !.at = "begin", !.turn = @ + 1]
  /\ state' = [state EXCEPT !.cancelRequested = FALSE, !.turnError = FALSE]
  /\ UNCHANGED <<submits, turnVars, input, uiVars, history>>

BeginTurn ==
  /\ At("begin")
  /\ Goto("send")
  /\ state' = [state EXCEPT !.progress = "busy", !.streaming = TRUE]
  /\ send' = "hooks"
  /\ UNCHANGED <<submits, token, events, input, uiVars, history>>

\* run_under_watchdog and what run_turn makes of the outcome: a failure is not
\* reported when the user has cancelled the turn.
Completed ==
  /\ At("send") /\ send \in {"written", "erred"}
  /\ Goto("clear")
  /\ ended' = Append(ended, IF send = "erred" THEN "inBand" ELSE "ok")
  /\ send' = "none"
  /\ UNCHANGED <<submits, token, events, state, input, uiVars, pressed>>

\* send_message returns an error: an extension or the store refused the prompt,
\* or what follows the run failed.
Failed ==
  /\ At("send") /\ send \in {"hooks", "written", "erred"}
  /\ Goto(IF state.cancelRequested THEN "clear" ELSE "error")
  /\ ended' = Append(ended, IF state.cancelRequested THEN "hushed" ELSE "failed")
  /\ state' = [state EXCEPT !.cancelRequested = FALSE]
  /\ send' = "none"
  /\ UNCHANGED <<submits, token, events, input, uiVars, pressed>>

\* Mutant: the watchdog cancels the turn and waits for it to end.
TimedOut_Waits ==
  /\ At("send") /\ ~token
  /\ token' = TRUE
  /\ UNCHANGED <<submits, runner, send, events, state, input, uiVars, history>>

\* The watchdog drops send_message where it is, and cancels the token.
TimedOut ==
  /\ At("send")
  /\ Goto("error")
  /\ token' = TRUE
  /\ send' = "none"
  /\ ended' = Append(ended, "timedOut")
  /\ UNCHANGED <<submits, events, state, input, uiVars, pressed>>

\* Mutant: the outcome alone decides how the progress ends.
TerminalProgress_NoLatch ==
  /\ At("clear") \/ At("error")
  /\ state' = [state EXCEPT !.turnError = FALSE, !.progress = runner.at]
  /\ Goto("end")
  /\ UNCHANGED <<submits, turnVars, input, uiVars, history>>

\* queue_terminal_progress: the latch wins over what the outcome says.
TerminalProgress ==
  /\ \/ At("clear") /\ state' = [state EXCEPT !.turnError = FALSE,
                                   !.progress = IF state.turnError THEN "error" ELSE "clear"]
     \/ At("error") /\ state' = [state EXCEPT !.turnError = FALSE, !.progress = "error"]
  /\ Goto("end")
  /\ UNCHANGED <<submits, turnVars, input, uiVars, history>>

EndTurn ==
  /\ At("end")
  /\ Goto("recv")
  /\ state' = [state EXCEPT !.streaming = FALSE]
  /\ UNCHANGED <<submits, turnVars, input, uiVars, history>>

-----------------------------------------------------------------------------
(* Dialogs: run_model_selector, run_login, run_config_selector and the others *)

Closed == [runner EXCEPT !.at = "recv", !.kind = "none"]
Opens(kind) == [runner EXCEPT !.at = "reset", !.kind = kind]

OpenFirst ==
  /\ runner.at \in DOMAIN First
  /\ runner' = Opens(First[runner.at])
  /\ state' = [state EXCEPT !.streaming = FALSE]
  /\ UNCHANGED <<submits, turnVars, input, uiVars, history>>

\* Every open_ function: the flag is cleared, a channel made, the dialog mounted.
ResetDone ==
  /\ At("reset")
  /\ done' = FALSE
  /\ Goto("mount")
  /\ UNCHANGED <<submits, turnVars, state, input, overlay, answer, history>>

Mount ==
  /\ At("mount")
  /\ runner' = [runner EXCEPT !.at = "dialog", !.dialog = @ + 1]
  /\ overlay' = runner.dialog + 1
  /\ answer' = "none"
  /\ UNCHANGED <<submits, turnVars, state, input, done, history>>

\* What follows an answer: a provider's dialog, a picker of the settings and the
\* settings again, or the end.  An OAuth login takes its overlay down itself.
TakeAnswer ==
  /\ At("dialog") /\ answer # "none"
  /\ runner' = CASE runner.kind = "picker" /\ answer \in {"key", "oauth"} -> Opens(answer)
                 [] runner.kind = "settings" /\ answer = "jump"           -> Opens("sub")
                 [] runner.kind = "sub"                                   -> Opens("settings")
                 [] OTHER                                                 -> Closed
  /\ answer' = "none"
  /\ overlay' = IF runner.kind = "oauth" THEN 0 ELSE overlay
  /\ UNCHANGED <<submits, turnVars, state, input, done, history>>

\* Who can still send to the runner's dialog: the overlay, the key being
\* dispatched, and for the settings the handle its opener keeps.
HasSender ==
  \/ overlay = runner.dialog
  \/ input.at \in {"raise", "check"} /\ input.for = runner.dialog
  \/ runner.kind \in {"settings", "oauth"}

\* The channel closes without an answer: the opener returns quietly.
DialogDropped ==
  /\ At("dialog") /\ answer = "none" /\ ~HasSender
  /\ runner' = IF runner.kind = "sub" THEN Opens("settings") ELSE Closed
  /\ overlay' = 0
  /\ UNCHANGED <<submits, turnVars, state, input, done, answer, history>>

\* run_oauth_login: the login succeeds, fails or times out by itself.
LoginReturns ==
  /\ At("dialog") /\ runner.kind = "oauth"
  /\ runner' = Closed
  /\ answer' = "none"
  /\ overlay' = 0
  /\ UNCHANGED <<submits, turnVars, state, input, done, history>>

-----------------------------------------------------------------------------
(* send_message, as far as it shows: the session's events *)

Sending(place) == At("send") /\ send = place
Emit(kinds) ==
  /\ Len(events) + Len(kinds) <= MaxEvents
  /\ events' = events \o [k \in DOMAIN kinds |-> [kind |-> kinds[k], turn |-> runner.turn]]

\* The hooks have seen the prompt; the run gets a fresh token.
HooksPass ==
  /\ Sending("hooks")
  /\ send' = "run"
  /\ token' = FALSE
  /\ UNCHANGED <<submits, runner, events, state, input, uiVars, history>>

StreamDelta ==
  /\ Sending("run") /\ ~token
  /\ Emit(<<"update">>)
  /\ send' = "partial"
  /\ UNCHANGED <<submits, runner, token, state, input, uiVars, history>>

\* The response ends: well, in an error, or with a tool call that is then run.
\* A cancelled one ends as aborted, before or after its first delta.
StreamEnds ==
  /\ (Sending("run") /\ token) \/ Sending("partial")
  /\ \/ Emit(<<"end">>) /\ send' = "written"
     \/ ~token /\ Emit(<<"endError">>) /\ send' = "erred"
     \/ ~token /\ Emit(<<"end", "toolStart">>) /\ send' = "tool"
  /\ UNCHANGED <<submits, runner, token, state, input, uiVars, history>>

\* A tool ends, or the abort ends it and the run with it.
ToolEnds ==
  /\ Sending("tool")
  /\ Emit(<<"toolEnd">>)
  /\ send' = IF token THEN "written" ELSE "run"
  /\ UNCHANGED <<submits, runner, token, state, input, uiVars, history>>

Send == HooksPass \/ StreamDelta \/ StreamEnds \/ ToolEnds

-----------------------------------------------------------------------------
(* The event applier *)

\* apply_event.  A failed message sets the latch, and queues the progress and
\* clears the preview under locks of their own.
Apply ==
  /\ events # <<>>
  /\ LET event == Head(events)
         turn == event.turn
     IN  /\ events' = IF event.kind = "endError"
                      THEN <<[event EXCEPT !.kind = "latched"]>> \o Tail(events)
                      ELSE Tail(events)
         /\ state' =
              CASE event.kind = "update"    -> [state EXCEPT !.preview = turn]
                [] event.kind = "end"       -> [state EXCEPT !.preview = 0]
                [] event.kind = "endError"  -> [state EXCEPT !.turnError = TRUE]
                [] event.kind = "latched"   -> [state EXCEPT !.progress = "error", !.preview = 0]
                [] event.kind = "toolStart" -> [state EXCEPT !.pendingTools = @ \cup {turn}]
                [] event.kind = "toolEnd"   -> [state EXCEPT !.pendingTools = @ \ {turn}]
  /\ UNCHANGED <<submits, runner, send, token, input, uiVars, history>>

-----------------------------------------------------------------------------
Runner ==
  \/ Take \/ RunSlash \/ RunEmptyBash \/ RunBash \/ RunCompact
  \/ ResetLatches \/ BeginTurn \/ Completed \/ Failed \/ TerminalProgress \/ EndTurn
  \/ OpenFirst \/ ResetDone \/ Mount \/ TakeAnswer \/ DialogDropped

\* What the runner waits for, and what comes by itself.
Ends == BashEnds \/ CompactEnds \/ TimedOut \/ LoginReturns

Next == Input \/ Runner \/ Ends \/ Send \/ Apply

Spec == Init /\ [][Next]_vars

-----------------------------------------------------------------------------
(* Properties *)

Quiet == At("recv") /\ submits = <<>> /\ events = <<>> /\ Free

\* How a turn ended is on the terminal when all is quiet: a turn that failed, in
\* whatever way, leaves the progress red although the applier may come late and
\* the runner ends every turn by clearing it (state.rs:332, "both agree on
\* `Error` once the turn failed"); and a failure is passed over in silence exactly
\* when the user cancelled that turn, not the one before (mod.rs:1058).
OutcomeReported ==
  /\ Quiet /\ ended # <<>> =>
       /\ state.progress # "busy"
       /\ ended[Len(ended)] \in {"failed", "timedOut", "inBand"} => state.progress = "error"
  /\ \A n \in DOMAIN ended :
       /\ ended[n] = "hushed" => n \in pressed
       /\ ended[n] = "failed" => n \notin pressed

\* When all is quiet nothing of what ran is left behind: no loader, but for the
\* one a bare "!" leaves on, no dialog, and no preview or pending tool, but for
\* those of a turn the watchdog dropped.
QuietIsClean ==
  Quiet =>
    LET dropped == {n \in DOMAIN ended : ended[n] = "timedOut"}
    IN  /\ state.streaming => runner.work = "emptyBash"
        /\ overlay = 0
        /\ state.preview \in {0} \cup dropped
        /\ state.pendingTools \subseteq dropped

\* The settings dialog was taken down by the key that ended another dialog; its
\* opener holds a sender of its own and waits forever.
Abandoned == At("dialog") /\ runner.kind = "settings" /\ overlay # runner.dialog /\ answer = "none"

Idle == At("recv") /\ submits = <<>>

Served == Idle \/ Abandoned \/ input.at = "gone"

\* What is submitted is served: the runner comes back for more, whatever the
\* model, the extensions and the tools do, when the user answers its dialogs.
SubmitsServed == (submits # <<>>) ~> Served

\* The input loop and the runner are polled, the watchdog's timer fires,
\* commands, compactions and logins end, and the user answers dialogs.
Goes == SendSubmit \/ CancelToken \/ RaiseDone \/ CheckDone
UserAnswers == \E a \in Outcomes \ {"jump"} : Answer(a)
Fairness == WF_vars(Runner \/ Ends) /\ WF_vars(Goes) /\ WF_vars(UserAnswers)

FairSpec == Spec /\ Fairness

\* A dialog is up until it is answered: the done flag is "cleared per open so a
\* prior selector's raise never leaks into this one" (rt_driver/selectors.rs:90).
DialogStaysUp == At("dialog") /\ answer = "none" => overlay = runner.dialog

\* A turn the user cancelled while it was in flight has its run cancelled: "a
\* cancel through this handle always hits the current turn's token"
\* (rt_driver/mod.rs:372).
CancelHitsTurn ==
  At("send") /\ send \in {"run", "partial", "tool"} /\ Free /\ runner.turn \in pressed => token
-----------------------------------------------------------------------------
(* What OutcomeReported and QuietIsClean rest on. *)

Places == Work \cup {"nowhere", "recv", "running", "compacting", "begin", "send", "clear",
                     "error", "end", "reset", "mount", "dialog"}
Dialogs == {"pick", "picker", "key", "oauth", "settings", "sub"}
Runners == [at : Places, work : Work \cup {"none"}, turn : Nat, dialog : Nat,
            kind : Dialogs \cup {"none"}]
States == [streaming : BOOLEAN, cancelRequested : BOOLEAN, turnError : BOOLEAN,
           preview : Nat, pendingTools : SUBSET Nat, progress : {"clear", "busy", "error"}]
Event == [kind : {"update", "end", "endError", "latched", "toolStart", "toolEnd"}, turn : Nat]
Endings == {"ok", "inBand", "hushed", "failed", "timedOut"}

InputOK ==
  /\ DOMAIN input = {"at", "for", "left"}
  /\ input.at \in {"free", "submit", "cancel", "raise", "check", "gone"}
  /\ input.at = "submit" => input.for \in Work
  /\ input.at = "raise" => input.for \in Nat

TypeOK ==
  /\ submits \in Seq(Work)
  /\ runner \in Runners
  /\ send \in {"none", "hooks", "run", "partial", "tool", "written", "erred"}
  /\ token \in BOOLEAN
  /\ events \in Seq(Event)
  /\ state \in States
  /\ InputOK
  /\ overlay \in Nat
  /\ done \in BOOLEAN
  /\ answer \in Outcomes \cup {"none"}
  /\ ended \in Seq(Endings)
  /\ pressed \subseteq Nat

\* Every turn has an ending but the one in flight.
TurnsEnded ==
  /\ send # "none" => At("send")
  /\ Len(ended) = IF InFlight THEN runner.turn - 1 ELSE runner.turn
  /\ pressed \subseteq 1..runner.turn

\* A loader is somebody's: a submit under way turns it off in the end, unless it
\* is a bare "!".
LoaderIsOwned ==
  /\ runner.at \in Work => runner.work = runner.at
  /\ state.streaming =>
       \/ input.at = "submit" \/ submits # <<>>
       \/ runner.at \notin {"recv", "reset", "mount", "dialog"}
       \/ At("recv") /\ runner.work = "emptyBash"

\* Away from its dialogs the runner has left none mounted, but for one that the
\* input loop is about to take down.
Closing == input.at = "raise" \/ (input.at = "check" /\ done)
OverlayCloses ==
  /\ runner.at \notin {"reset", "mount", "dialog"} => overlay = 0 \/ Closing
  /\ At("dialog") /\ answer # "none" => overlay = 0 \/ Closing

\* The watchdog dropped turn n; an event of these kinds is behind the i-th; and
\* one that says that the tools of turn n have ended.
Dropped(n) == n \in DOMAIN ended /\ ended[n] = "timedOut"
Behind(i, kinds) == \E j \in DOMAIN events : j > i /\ events[j].kind \in kinds
EndBehind(i, n) == \E j \in DOMAIN events :
                     j > i /\ events[j].kind = "toolEnd" /\ events[j].turn = n

\* What the preview shows, or will when the applier gets there, is ended by an
\* event behind it, unless the turn was dropped or is in the middle of a message.
MessageEnds == {"end", "endError", "latched"}
PreviewCloses ==
  /\ \/ state.preview = 0 \/ Dropped(state.preview)
     \/ state.preview = Command /\ At("running")
     \/ state.preview = runner.turn /\ send = "partial"
     \/ Behind(0, MessageEnds)
  /\ \A i \in DOMAIN events : events[i].kind = "update" =>
       \/ Dropped(events[i].turn)
       \/ events[i].turn = runner.turn /\ send = "partial"
       \/ Behind(i, MessageEnds)

\* A tool's start is followed by its end, in the same way.
ToolsClose ==
  /\ \A n \in state.pendingTools :
       Dropped(n) \/ (n = runner.turn /\ send = "tool") \/ EndBehind(0, n)
  /\ \A i \in DOMAIN events : events[i].kind = "toolStart" =>
       \/ Dropped(events[i].turn)
       \/ events[i].turn = runner.turn /\ send = "tool"
       \/ EndBehind(i, events[i].turn)

\* The last ending, once the turn is over but for its progress.
LastEnded(kinds) == ended # <<>> /\ ended[Len(ended)] \in kinds

\* A failure the session has told is latched or behind in the events until the
\* turn has ended, and then shown or behind.
ProgressAgrees ==
  /\ runner.at \notin {"send", "clear", "error"} => state.progress # "busy"
  /\ At("clear") => ~LastEnded({"failed", "timedOut"})
  /\ (At("send") /\ send = "erred") \/ (At("clear") /\ LastEnded({"inBand"})) =>
       state.turnError \/ Behind(0, {"endError"})
  /\ runner.at \notin {"begin", "send", "clear", "error"} =>
       /\ LastEnded({"failed", "timedOut"}) => state.progress = "error"
       /\ LastEnded({"inBand"}) =>
            state.progress = "error" \/ Behind(0, {"endError", "latched"})

\* The latch of the turn in flight tells whether the user cancelled this one.
LatchIsOwn ==
  /\ InFlight => (state.cancelRequested <=> runner.turn \in pressed)
  /\ \A n \in DOMAIN ended :
       /\ ended[n] = "hushed" => n \in pressed
       /\ ended[n] = "failed" => n \notin pressed

DriverInv == /\ TurnsEnded /\ LoaderIsOwned /\ OverlayCloses /\ PreviewCloses
             /\ ToolsClose /\ ProgressAgrees /\ LatchIsOwn
=============================================================================
