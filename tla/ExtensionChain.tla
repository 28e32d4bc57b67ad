---------------------------- MODULE ExtensionChain ----------------------------
(***************************************************************************)
(* The extension chain of a session (crates/coding-agent/src/core/         *)
(* agent_session.rs, load_extensions and shutdown_extensions; core/        *)
(* extensions/dispatch.rs): extensions are set up before the first hook,   *)
(* asked in order by every hook, and torn down when the session goes.      *)
(*                                                                         *)
(* Each call into an extension is awaited, and the watchdog may drop the   *)
(* send that awaits it.  What an extension answers is free: it may let the *)
(* value pass, replace it, cancel or fail.  A value is the text of a user  *)
(* message, the arguments of a tool call or its result.                    *)
(***************************************************************************)
EXTENDS Integers, Sequences, SequencesExt, Filter

CONSTANTS
  Extensions,   \* the extensions there are
  AtStart,      \* those registered when the session is made, in order
  Subscribers,  \* hook |-> the extensions whose manifest declares it
  Values,       \* texts, arguments or results
  MaxRounds,    \* MAX_BEFORE_TOOL_CALL_ROUNDS
  MaxSends      \* bound: sends of a behaviour

VARIABLES
  chain,        \* extensions
  loaded,       \* extensions_loaded, position by position
  errors,       \* extension_errors
  setup,        \* what each extension has been through
  task,         \* what the session is awaiting
  seen,         \* ghost: the value each extension answered about in this dispatch
  sends         \* bound: sends so far

session == <<chain, loaded, errors, setup>>
vars == <<session, task, seen, sends>>

Idle  == [kind |-> "idle"]
Gone  == [kind |-> "gone"]
Hooks == {"user", "before", "after", "end"}

Init ==
  /\ chain = AtStart
  /\ loaded = [k \in DOMAIN AtStart |-> FALSE]
  /\ errors = <<>>
  /\ setup = [e \in Extensions |-> "new"]
  /\ task = Idle /\ seen = <<>> /\ sends = 0

\* register_extension
Register(e) ==
  /\ task = Idle /\ e \notin ToSet(chain) /\ setup[e] = "new"
  /\ chain' = Append(chain, e) /\ loaded' = Append(loaded, FALSE)
  /\ UNCHANGED <<errors, setup, task, seen, sends>>

-----------------------------------------------------------------------------
(* load_extensions, which every send runs first. *)

Positions == [k \in DOMAIN chain |-> k]

Pending == Keep(Positions, {k \in DOMAIN chain : ~loaded[k]})

\* What a send awaits once every extension is loaded.
Turn == [kind |-> "turn"]

Send ==
  /\ task = Idle /\ sends < MaxSends
  /\ sends' = sends + 1
  /\ task' = IF Pending = <<>> THEN Turn
                               ELSE [kind |-> "load", left |-> Pending, failed |-> {}]
  /\ UNCHANGED <<session, seen>>

\* on_load of the next extension returns.
Loads(ok) ==
  /\ task.kind = "load" /\ task.left # <<>>
  /\ LET k == Head(task.left) IN
     /\ setup' = [setup EXCEPT ![chain[k]] = IF ok THEN "up" ELSE "failed"]
     /\ loaded' = IF ok THEN [loaded EXCEPT ![k] = TRUE] ELSE loaded
     /\ errors' = IF ok THEN errors ELSE Append(errors, chain[k])
     /\ task' = [task EXCEPT !.left = Tail(@),
                             !.failed = IF ok THEN @ ELSE @ \cup {k}]
  /\ UNCHANGED <<chain, seen, sends>>

\* Mutant: the flags are not rebuilt with the chain.
Kept_Flags(failed) ==
  LET kept == Keep(Positions, DOMAIN chain \ failed) IN
  /\ chain' = [k \in DOMAIN kept |-> chain[kept[k]]]
  /\ loaded' = SubSeq(loaded, 1, Len(kept))

\* The extensions that failed leave the chain, and their flags with them.
Kept(failed) ==
  LET kept == Keep(Positions, DOMAIN chain \ failed) IN
  /\ chain' = [k \in DOMAIN kept |-> chain[kept[k]]]
  /\ loaded' = [k \in DOMAIN kept |-> loaded[kept[k]]]

AllLoaded ==
  /\ task.kind = "load" /\ task.left = <<>>
  /\ Kept(task.failed)
  /\ task' = Turn
  /\ UNCHANGED <<errors, setup, seen, sends>>

-----------------------------------------------------------------------------
(* A hook is dispatched along the chain. *)

Asked(hook) ==
  IF hook \in DOMAIN Subscribers THEN Keep(chain, Subscribers[hook]) ELSE chain

Dispatch(hook, v) ==
  /\ task.kind = "turn"
  /\ Asked(hook) # <<>>
  /\ task' = [kind |-> "hook", hook |-> hook, round |-> 1, at |-> 1, value |-> v,
              changed |-> FALSE, notes |-> <<>>]
  /\ seen' = <<>>
  /\ UNCHANGED <<session, sends>>

Note(notes, e) == IF e \in ToSet(notes) THEN notes ELSE Append(notes, e)

Answered(v) ==
  LET e == Asked(task.hook)[task.at] IN
  seen' = [d \in DOMAIN seen \cup {e} |-> IF d = e THEN v ELSE seen[d]]

\* Continue, or an error, which counts as one; a user message may get context.
Continues ==
  /\ task.kind = "hook" /\ task.at <= Len(Asked(task.hook))
  /\ Answered(task.value)
  /\ \E notes \in {task.notes} \cup
                  (IF task.hook = "user" THEN {Note(task.notes, Asked("user")[task.at])} ELSE {}) :
       task' = [task EXCEPT !.at = @ + 1, !.notes = notes]
  /\ UNCHANGED <<session, sends>>

\* Replace: nothing if it is the value already; it means nothing at a turn end.
Replaces(v) ==
  /\ task.kind = "hook" /\ task.at <= Len(Asked(task.hook))
  /\ task.hook # "end" /\ v # task.value
  /\ Answered(task.value)
  /\ task' = [task EXCEPT !.at = @ + 1, !.value = v, !.changed = TRUE]
  /\ UNCHANGED <<session, sends>>

Result(verdict, v) == [kind |-> "verdict", hook |-> task.hook, verdict |-> verdict, value |-> v]

\* Cancel ends the dispatch at once; a result cannot be cancelled.
Cancels ==
  /\ task.kind = "hook" /\ task.at <= Len(Asked(task.hook))
  /\ task.hook # "after"
  /\ Answered(task.value)
  /\ task' = Result("cancel", task.value)
  /\ UNCHANGED <<session, sends>>

\* Mutant: one pass, whatever was replaced.
EndPass_Once ==
  /\ task.kind = "hook" /\ task.at > Len(Asked(task.hook))
  /\ task' = Result("go", task.value)
  /\ UNCHANGED <<session, seen, sends>>

\* The end of a pass: a changed value is shown to the whole chain again, and
\* given up on after MaxRounds passes.
EndPass ==
  /\ task.kind = "hook" /\ task.at > Len(Asked(task.hook))
  /\ task' = IF task.hook \in {"user", "before"} /\ task.changed
               THEN IF task.round < MaxRounds
                      THEN [task EXCEPT !.round = @ + 1, !.at = 1, !.changed = FALSE]
                      ELSE Result("cancel", task.value)
               ELSE Result("go", task.value)
  /\ UNCHANGED <<session, seen, sends>>

\* The turn goes on; a cancelled user message ends the send.
TurnGoesOn ==
  /\ task.kind = "verdict"
  /\ task' = IF task.hook = "user" /\ task.verdict = "cancel" THEN Idle ELSE Turn
  /\ seen' = <<>>
  /\ UNCHANGED <<session, sends>>

\* The send returns.
Returns ==
  /\ task.kind = "turn"
  /\ task' = Idle
  /\ UNCHANGED <<session, seen, sends>>

\* The watchdog drops the send where it stands.  What an on_load that did not
\* return has done is lost with it: the extension cleans up when it is dropped.
DropSend ==
  /\ task.kind \in {"load", "turn", "hook"}
  /\ task' = Idle /\ seen' = <<>>
  /\ UNCHANGED <<session, sends>>

-----------------------------------------------------------------------------
(* shutdown_extensions: on dispose, or when the runtime replaces the session. *)

Loaded == Keep(Positions, {k \in DOMAIN chain : loaded[k]})

Shutdown ==
  /\ task = Idle
  /\ task' = [kind |-> "shutdown", left |-> Reverse(Loaded)]
  /\ UNCHANGED <<session, seen, sends>>

\* on_shutdown returns or fails, which is only logged.
ShutsDown ==
  /\ task.kind = "shutdown" /\ task.left # <<>>
  /\ setup' = [setup EXCEPT ![chain[Head(task.left)]] = "down"]
  /\ task' = [task EXCEPT !.left = Tail(@)]
  /\ UNCHANGED <<chain, loaded, errors, seen, sends>>

Disposed ==
  /\ task.kind = "shutdown" /\ task.left = <<>>
  /\ loaded' = [k \in DOMAIN chain |-> FALSE]
  /\ task' = Gone
  /\ UNCHANGED <<chain, errors, setup, seen, sends>>

Next ==
  \/ \E e \in Extensions : Register(e)
  \/ Send \/ AllLoaded \/ EndPass \/ TurnGoesOn \/ Returns \/ DropSend
  \/ \E ok \in BOOLEAN : Loads(ok)
  \/ \E hook \in Hooks, v \in Values : Dispatch(hook, v)
  \/ Continues \/ Cancels
  \/ \E v \in Values : Replaces(v)
  \/ Shutdown \/ ShutsDown \/ Disposed

Spec == Init /\ [][Next]_vars

-----------------------------------------------------------------------------
(* The text that reaches the transcript and the arguments that reach a     *)
(* tool are the ones every extension asked has last answered about:        *)
(* however the chain rewrites them, no guard is passed by                  *)
(* (dispatch_before_tool_call and dispatch_user_message).                  *)
VettedValue ==
  (task.kind = "verdict" /\ task.verdict = "go" /\ task.hook \in {"user", "before"})
    => \A e \in ToSet(Asked(task.hook)) : e \in DOMAIN seen /\ seen[e] = task.value

(* A hook is asked only of extensions that are set up: not of one that     *)
(* failed to load, was never loaded or was shut down, also after sends     *)
(* that were dropped while they loaded (load_extensions keeps the flags    *)
(* and the chain in step).                                                 *)
HooksFindSetUp ==
  task.kind \in {"turn", "hook", "verdict"} => \A e \in ToSet(chain) : setup[e] = "up"

(* When the session is gone no extension is left set up                    *)
(* (shutdown_extensions).                                                  *)
NoneLeftUp ==
  task = Gone => \A e \in Extensions : setup[e] # "up"

-----------------------------------------------------------------------------
(* What these rest on. *)

TaskOK ==
  \/ task \in {Idle, Gone, Turn}
  \/ task \in [kind : {"load"}, left : Seq(Nat), failed : SUBSET Nat]
  \/ task \in [kind : {"hook"}, hook : Hooks, round : Nat, at : Nat \ {0},
               value : Values, changed : BOOLEAN, notes : Seq(Extensions)]
  \/ task \in [kind : {"verdict"}, hook : Hooks, verdict : {"go", "cancel"},
               value : Values]
  \/ task \in [kind : {"shutdown"}, left : Seq(Nat)]

TypeOK ==
  /\ chain \in Seq(Extensions) /\ errors \in Seq(Extensions)
  /\ loaded \in [DOMAIN chain -> BOOLEAN]
  /\ setup \in [Extensions -> {"new", "up", "failed", "down"}]
  /\ TaskOK /\ sends \in Nat

\* As long as the session lives the flags say which extensions are set up, and
\* each of these has its place in the chain.
FlagsTell ==
  task.kind \notin {"shutdown", "gone"} =>
    /\ \A k \in DOMAIN chain : loaded[k] => setup[chain[k]] = "up"
    /\ \A e \in Extensions : setup[e] = "up" =>
         \E k \in DOMAIN chain : chain[k] = e /\ loaded[k]

\* Where a load is: what is not loaded is left to do or has failed.
LoadsRest ==
  task.kind = "load" =>
    /\ IsInjective(task.left)
    /\ ToSet(task.left) \cap task.failed = {}
    /\ ToSet(task.left) \cup task.failed = {k \in DOMAIN chain : ~loaded[k]}

\* Where a shutdown is.
ShutdownRest ==
  /\ task.kind = "shutdown" =>
       /\ ToSet(task.left) \subseteq DOMAIN chain
       /\ \A e \in Extensions : setup[e] = "up" =>
            \E k \in ToSet(task.left) : chain[k] = e
  /\ task.kind = "gone" => \A e \in Extensions : setup[e] # "up"

AllSetUp == task.kind \in {"turn", "hook", "verdict"} => \A k \in DOMAIN chain : loaded[k]

\* As long as a pass has changed nothing, those it has asked were asked about
\* the value it ends with.
PassShows ==
  task.kind = "hook" =>
    /\ task.at <= Len(Asked(task.hook)) + 1
    /\ ~task.changed =>
         \A j \in 1..(task.at - 1) :
           /\ Asked(task.hook)[j] \in DOMAIN seen
           /\ seen[Asked(task.hook)[j]] = task.value

ChainInv ==
  /\ IsInjective(chain) /\ FlagsTell /\ LoadsRest /\ ShutdownRest /\ AllSetUp
  /\ PassShows /\ VettedValue
=============================================================================
