---------------------------- MODULE BashExecutor ----------------------------
(***************************************************************************)
(* One bash command (crates/coding-agent/src/core/bash_executor.rs), as    *)
(* the bash tool and AgentSession::run_bash call it.                       *)
(*                                                                         *)
(* The shell and a process it started, which may outlive it, write into    *)
(* two pipes of bounded size.  A task per pipe forwards what it reads to   *)
(* an unbounded channel; the call waits for the shell, then for both       *)
(* tasks, then takes what the channel holds.  It is raced by its timeout   *)
(* and by abort_bash, which drop it.                                       *)
(***************************************************************************)
EXTENDS Integers, Sequences, FiniteSetsExt, Filter

CONSTANTS
  PipeSize,   \* pieces a pipe holds before its writers block
  MaxWrites,  \* bound: pieces on a stream when a process starts to write one more
  MaxBytes    \* BashExecutorOptions::max_bytes, in pieces

VARIABLES
  proc,       \* process |-> "none", "running", "ended", or the stream it is blocked on
  pipe,       \* stream |-> pieces in the pipe
  forwarder,  \* stream |-> "reading" or "ended"
  chan,       \* pieces in the channel
  at,         \* where execute_bash is
  result,     \* what it returned
  timed,      \* whether timeout_secs is not 0
  ends,       \* whether the command's processes end by themselves
  wrote       \* ghost: stream |-> pieces written to it

vars == <<proc, pipe, forwarder, chan, at, result, timed, ends, wrote>>

Streams == {"out", "err"}
Processes == {"shell", "child"}
Alive(p) == proc[p] \notin {"none", "ended"}
Piece(s, newline) == [from |-> s, n |-> Len(wrote[s]) + 1, newline |-> newline]

Init ==
  /\ proc = [p \in Processes |-> "none"]
  /\ pipe = [s \in Streams |-> <<>>]
  /\ forwarder = [s \in Streams |-> "ended"]
  /\ chan = <<>>
  /\ at = "new" /\ result = <<>>
  /\ timed \in BOOLEAN /\ ends \in BOOLEAN
  /\ wrote = [s \in Streams |-> <<>>]

-----------------------------------------------------------------------------
(* The processes.  All hold both pipes. *)

StartsChild ==
  /\ proc["shell"] = "running" /\ proc["child"] = "none"
  /\ proc' = [proc EXCEPT !["child"] = "running"]
  /\ UNCHANGED <<pipe, forwarder, chan, at, result, timed, ends, wrote>>

\* A process that writes where nobody reads is ended by SIGPIPE.
Writes(p, s, newline) ==
  /\ proc[p] = s \/ (proc[p] = "running" /\ Len(wrote[s]) < MaxWrites)
  /\ \/ /\ forwarder[s] = "ended"
        /\ proc' = [proc EXCEPT ![p] = "ended"]
        /\ UNCHANGED <<pipe, wrote>>
     \/ /\ forwarder[s] = "reading" /\ Len(pipe[s]) < PipeSize
        /\ pipe' = [pipe EXCEPT ![s] = Append(@, Piece(s, newline))]
        /\ wrote' = [wrote EXCEPT ![s] = Append(@, Piece(s, newline))]
        /\ proc' = [proc EXCEPT ![p] = "running"]
     \/ /\ forwarder[s] = "reading" /\ Len(pipe[s]) = PipeSize /\ proc[p] = "running"
        /\ proc' = [proc EXCEPT ![p] = s]
        /\ UNCHANGED <<pipe, wrote>>
  /\ UNCHANGED <<forwarder, chan, at, result, timed, ends>>

Ends(p) ==
  /\ proc[p] = "running"
  /\ proc' = [proc EXCEPT ![p] = "ended"]
  /\ UNCHANGED <<pipe, forwarder, chan, at, result, timed, ends, wrote>>

-----------------------------------------------------------------------------
(* forward_pipe: the receiver is there until the call returns. *)

\* Mutant: the task stops reading when the shell ends.
EndOfFile_WithShell(s) == ~Alive("shell")

\* A pipe ends when it is empty and no process holds it.
EndOfFile(s) == pipe[s] = <<>> /\ \A p \in Processes : ~Alive(p)

Forward(s) ==
  /\ forwarder[s] = "reading"
  /\ \/ /\ EndOfFile(s)
        /\ forwarder' = [forwarder EXCEPT ![s] = "ended"]
        /\ UNCHANGED <<pipe, chan>>
     \/ /\ pipe[s] # <<>>
        /\ pipe' = [pipe EXCEPT ![s] = Tail(@)]
        /\ \/ at # "returned" /\ chan' = Append(chan, Head(pipe[s])) /\ UNCHANGED forwarder
           \/ at = "returned" /\ forwarder' = [forwarder EXCEPT ![s] = "ended"] /\ UNCHANGED chan
  /\ UNCHANGED <<proc, at, result, timed, ends, wrote>>

-----------------------------------------------------------------------------
(* execute_bash *)

Call ==
  /\ at = "new"
  /\ \/ /\ at' = "wait" /\ UNCHANGED result
        /\ proc' = [proc EXCEPT !["shell"] = "running"]
        /\ forwarder' = [s \in Streams |-> "reading"]
     \/ /\ at' = "returned" /\ result' = [how |-> "not started"]
        /\ UNCHANGED <<proc, forwarder>>
  /\ UNCHANGED <<pipe, chan, timed, ends, wrote>>

\* wait_future: the shell, stdout_task, stderr_task.
Wait ==
  /\ \/ at = "wait" /\ ~Alive("shell") /\ at' = "out"
     \/ at = "out" /\ forwarder["out"] = "ended" /\ at' = "err"
     \/ at = "err" /\ forwarder["err"] = "ended" /\ at' = "drain"
  /\ UNCHANGED <<proc, pipe, forwarder, chan, result, timed, ends, wrote>>

\* truncate_tail_bytes: the tail, from the start of a line if that leaves half.
TruncateTail(o) ==
  LET cut      == Len(o) - MaxBytes
      newlines == {i \in cut + 1 .. Len(o) : o[i].newline}
      first    == Min(newlines)
  IN  CASE Len(o) <= MaxBytes -> o
        [] Len(o) > MaxBytes /\ newlines # {} /\ Len(o) - first >= MaxBytes \div 2
             -> SubSeq(o, first + 1, Len(o))
        [] OTHER -> SubSeq(o, cut + 1, Len(o))

\* drain_future, and the output cut; the file of the whole may fail.
Drain ==
  /\ at = "drain"
  /\ at' = "returned"
  /\ \E kept \in IF Len(chan) > MaxBytes THEN {chan, <<>>} ELSE {<<>>} :
       result' = [how |-> "done", output |-> TruncateTail(chan),
                  truncated |-> Len(chan) > MaxBytes, file |-> kept]
  /\ chan' = <<>>
  /\ UNCHANGED <<proc, pipe, forwarder, timed, ends, wrote>>

\* kill_on_drop: the shell, and not what it started.
Killed == [proc EXCEPT !["shell"] = "ended"]

\* The call's future is dropped, and its receiver with it.
Dropped(how) ==
  /\ at \in {"wait", "out", "err", "drain"}
  /\ at' = "returned" /\ result' = [how |-> how]
  /\ proc' = Killed
  /\ chan' = <<>>
  /\ UNCHANGED <<pipe, forwarder, timed, ends, wrote>>

Timeout == timed /\ Dropped("timed out")

AbortBash == Dropped("aborted")

Next ==
  \/ Call \/ Wait \/ Drain \/ Timeout \/ AbortBash
  \/ \E s \in Streams : Forward(s)
  \/ StartsChild
  \/ \E p \in Processes :
       \/ Ends(p)
       \/ \E s \in Streams, newline \in BOOLEAN : Writes(p, s, newline)

Spec == Init /\ [][Next]_vars

-----------------------------------------------------------------------------
Pieces(s) == [from : {s}, n : Nat, newline : BOOLEAN]
Of(o, s) == Keep(o, Pieces(s))

IsSuffix(u, o) == Len(u) <= Len(o) /\ u = SubSeq(o, Len(o) - Len(u) + 1, Len(o))

(* A command that ran to its end reports all that its processes wrote, in  *)
(* the order of each stream, and of a long output the tail, at least half  *)
(* of what is allowed, with the whole in the file; and however the call    *)
(* ends, the shell has (execute_bash, truncate_tail_bytes).                *)
OutputWhole ==
  at = "returned" =>
    /\ ~Alive("shell")
    /\ result.how = "done" =>
         /\ result.truncated \/ \A s \in Streams : Of(result.output, s) = wrote[s]
         /\ result.truncated =>
              /\ Len(result.output) \in MaxBytes \div 2 .. MaxBytes
              /\ \A s \in Streams : IsSuffix(Of(result.output, s), wrote[s])
              /\ result.file # <<>> => \A s \in Streams : Of(result.file, s) = wrote[s]

(* The call returns if it has a timeout, whatever the processes do, and    *)
(* without one if these end (execute_bash).                                *)
BashReturns == (at # "new" /\ (timed \/ ends)) ~> (at = "returned")

-----------------------------------------------------------------------------
(* What OutputWhole rests on. *)

AnyPiece == [from : Streams, n : Nat, newline : BOOLEAN]
Steps == {"wait", "out", "err", "drain"}
Silent == \A p \in Processes : ~Alive(p)

TypeOK ==
  /\ proc \in [Processes -> {"none", "running", "ended"} \cup Streams]
  /\ pipe \in [Streams -> Seq(AnyPiece)]
  /\ forwarder \in [Streams -> {"reading", "ended"}]
  /\ chan \in Seq(AnyPiece)
  /\ at \in {"new", "returned"} \cup Steps
  /\ wrote \in [Streams -> Seq(AnyPiece)]

\* Until it returns, the channel and then the pipe hold what a stream was given,
\* and a task that has ended found its pipe empty and nobody to write to it.
NothingLost ==
  /\ \A s \in Streams : pipe[s] \in Seq(Pieces(s)) /\ wrote[s] \in Seq(Pieces(s))
  /\ at # "returned" => \A s \in Streams : Of(chan, s) \o pipe[s] = wrote[s]
  /\ at \in Steps => \A s \in Streams :
       forwarder[s] = "ended" => pipe[s] = <<>> /\ Silent

\* What the call has waited for.
Waited ==
  /\ at = "new" => Silent
  /\ at \in {"out", "err", "drain", "returned"} => ~Alive("shell")
  /\ at \in {"err", "drain"} => forwarder["out"] = "ended"
  /\ at = "drain" => forwarder["err"] = "ended"
  /\ at = "returned" /\ result.how = "done" => Silent

BashInv == NothingLost /\ Waited /\ OutputWhole
=============================================================================
