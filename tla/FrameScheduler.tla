--------------------------- MODULE FrameScheduler ---------------------------
(***************************************************************************)
(* The frame scheduler of the terminal UI (crates/tui/src/rt/scheduler.rs):*)
(* tasks request frames now or after a delay, and one actor draws them, at *)
(* most one in an interval.                                                *)
(*                                                                         *)
(* Times are kept relative to now, so that a behaviour has no end: `since' *)
(* counts ticks from the last draw up to Interval, `left' the ticks to the *)
(* armed instant.  The code between two awaits of the actor is one step.   *)
(* Time passes only while the actor waits with nothing ready: what the     *)
(* runtime takes to wake it is left out.                                   *)
(***************************************************************************)
EXTENDS Integers, Sequences

CONSTANTS
  Interval,   \* MIN_FRAME_INTERVAL, in ticks
  Delays,     \* delays asked for, in ticks; 0 is request_frame
  MaxQueued   \* bound: signals in the channel

VARIABLES
  chan,       \* signals not yet received
  open,       \* whether a requester is left
  at,         \* the await the actor is at: "idle", "deferred", "budget", or "ended"
  since,      \* ticks since the last draw, at most Interval; Never if none
  left,       \* ticks to `earliest', or Never
  drawn,      \* ghost: ticks from the draw before to the last one, at most Interval
  age,        \* ghost: ticks since the oldest request not drawn; Never if none
  asked       \* ghost: the delays of the requests not drawn

vars == <<chan, open, at, since, left, drawn, age, asked>>

Never == -1

Init ==
  /\ chan = <<>> /\ open = TRUE
  /\ at = "idle"
  /\ since = Never /\ left = Never
  /\ drawn = Interval /\ age = Never /\ asked = {}

-----------------------------------------------------------------------------
\* FrameRequester::request_frame, request_frame_in
Request(delay) ==
  /\ open /\ Len(chan) < MaxQueued
  /\ chan' = Append(chan, delay)
  /\ age' = IF age = Never THEN 0 ELSE age
  /\ asked' = asked \cup {delay}
  /\ UNCHANGED <<open, at, since, left, drawn>>

\* The last requester is dropped.
Close ==
  /\ open
  /\ open' = FALSE
  /\ UNCHANGED <<chan, at, since, left, drawn, age, asked>>

-----------------------------------------------------------------------------
(* The actor *)

\* arm_deferral: a delay arms or tightens the deferral.
ArmDeferral(earliest, delay) ==
  IF delay = 0 \/ (earliest # Never /\ earliest < delay) THEN earliest ELSE delay

\* The deferral, with every buffered signal folded in.
Armed ==
  LET armed[n \in 0..Len(chan)] ==
        IF n = 0 THEN left ELSE ArmDeferral(armed[n - 1], chan[n])
  IN  armed[Len(chan)]

\* FrameClock::decide_elapsed
DecideElapsed == since = Never \/ since >= Interval

\* The actor has a reason to go on: a signal, the end of the channel, its sleep over.
Ready ==
  \/ at # "ended" /\ (chan # <<>> \/ ~open)
  \/ at = "deferred" /\ left = 0
  \/ at = "budget" /\ since = Interval

\* draw succeeds, or fails and stops the actor.
Draw(next) ==
  \/ /\ at' = next
     /\ since' = 0 /\ drawn' = (IF since = Never THEN Interval ELSE since)
     /\ age' = Never /\ asked' = {}
  \/ at' = "ended" /\ UNCHANGED <<since, drawn, age, asked>>

\* finish_pending: the last frame is skipped inside the window.
Finish ==
  /\ ~open
  /\ \/ /\ at = "idle" /\ chan = <<>>
        /\ at' = "ended" /\ UNCHANGED <<since, drawn, age, asked>>
     \/ /\ at # "idle" \/ chan # <<>>
        /\ \/ DecideElapsed /\ Draw("ended")
           \/ ~DecideElapsed /\ at' = "ended" /\ UNCHANGED <<since, drawn, age, asked>>
  /\ left' = Armed

Continue ==
  /\ open
  /\ \/ /\ Armed > 0
        /\ at' = "deferred" /\ left' = Armed
        /\ UNCHANGED <<since, drawn, age, asked>>
     \/ /\ Armed <= 0
        /\ left' = Never
        /\ \/ DecideElapsed /\ Draw("idle")
           \/ ~DecideElapsed /\ at' = "budget" /\ UNCHANGED <<since, drawn, age, asked>>

\* The loop from one await to the next: every buffered signal is folded in.
Wake ==
  /\ Ready
  /\ Finish \/ Continue
  /\ chan' = <<>>
  /\ UNCHANGED open

Tick ==
  /\ at # "ended" /\ ~Ready
  /\ since' = IF since \in {Never, Interval} THEN since ELSE since + 1
  /\ left' = IF left \in {Never, 0} THEN left ELSE left - 1
  /\ age' = IF age = Never THEN Never ELSE age + 1
  /\ UNCHANGED <<chan, open, at, drawn, asked>>

Next == (\E delay \in Delays : Request(delay)) \/ Close \/ Wake \/ Tick

Spec == Init /\ [][Next]_vars

-----------------------------------------------------------------------------
(* Two draws are an interval apart, and no request waits longer than an    *)
(* interval and the longest of the delays asked for while it waits,        *)
(* however many come after it: a delay tightens the deferral and never     *)
(* pushes it back (FrameScheduler::spawn, arm_deferral, decide_elapsed).   *)
(* So a frame wanted now is drawn within the interval if nobody asks for a *)
(* later one; if somebody does, before or after, it waits for that too,    *)
(* against scheduler.rs:174.                                               *)
DrawnInTime ==
  /\ drawn >= Interval
  /\ at # "ended" /\ age # Never => \E delay \in asked : age <= Interval + delay
=============================================================================
