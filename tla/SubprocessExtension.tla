------------------------ MODULE SubprocessExtension -------------------------
(***************************************************************************)
(* A Tier 2 extension (crates/coding-agent/src/core/extensions/            *)
(* subprocess.rs): a child process that answers one JSONL frame per        *)
(* request frame.  The frames carry no request ids, so an answer is        *)
(* matched to a request by its position alone.                             *)
(*                                                                         *)
(* A call locks the child (a fair mutex), spawns it if there is none,      *)
(* writes its request and reads one frame, all under a budget.  A call     *)
(* over its budget is dropped where it stands, marks the extension         *)
(* unhealthy and then takes the lock again, for at most a second, to kill  *)
(* the child.  The agent loop drops the call of a custom tool in the same  *)
(* way when the run is aborted, and nothing follows that.                  *)
(*                                                                         *)
(* The child is external: it answers in order, late or never, may send a   *)
(* frame that does not parse, and may exit.  Dropping its handle kills it. *)
(***************************************************************************)
EXTENDS Integers, Sequences, Filter

CONSTANTS
  Callers,      \* tasks that call into the extension
  NoCaller,     \* the lock is free
  MaxCalls,     \* bound: calls made in a behaviour
  CanDrop       \* whether a call may be dropped by an abort

ASSUME SubprocessAssumption ==
  /\ MaxCalls \in Nat
  /\ CanDrop \in BOOLEAN
  /\ NoCaller \notin Callers

VARIABLES
  child,        \* the handle in the mutex and what is in its pipes
  unhealthy,    \* a call blew its budget
  holder,       \* who holds the mutex
  queue,        \* who waits for it, in order
  at,           \* where each caller is
  shutdown,     \* whether its call is on_shutdown
  request,      \* the request of its latest call
  answer,       \* the request whose answer that call returned, 0 if none
  nextCall,     \* identity of the next request
  orphaned      \* ghost: a call was dropped between its request and its answer

pipe  == <<child, unhealthy, orphaned>>
calls == <<shutdown, request, answer, nextCall>>
vars  == <<pipe, holder, queue, at, calls>>

\* Malformed stands in the pipe for a frame that does not parse.
Malformed == 0
NoChild   == [spawned |-> FALSE, alive |-> FALSE, inbox |-> <<>>,
              outbox |-> <<>>]
NewChild  == [NoChild EXCEPT !.spawned = TRUE, !.alive = TRUE]

Init ==
  /\ child = NoChild /\ unhealthy = FALSE
  /\ holder = NoCaller /\ queue = <<>>
  /\ at = [c \in Callers |-> "idle"]
  /\ shutdown = [c \in Callers |-> FALSE]
  /\ request = [c \in Callers |-> 0]
  /\ answer = [c \in Callers |-> 0]
  /\ nextCall = 1 /\ orphaned = FALSE

----------------------------------------------------------------------------
(* The mutex. *)

Without(c) == Keep(queue, Callers \ {c})

\* c stops waiting for the lock or releases it.
Release(c) ==
  /\ holder' = IF holder = c THEN NoCaller ELSE holder
  /\ queue' = Without(c)

\* c releases the lock and queues for it again.
Requeue(c) ==
  /\ holder' = IF holder = c THEN NoCaller ELSE holder
  /\ queue' = Append(Without(c), c)

HasTurn(c) == holder = NoCaller /\ queue # <<>> /\ Head(queue) = c

\* The call returns; on_shutdown goes on to take the lock and kill the child.
Return(c) ==
  \/ /\ ~shutdown[c]
     /\ at' = [at EXCEPT ![c] = "idle"]
     /\ Release(c)
  \/ /\ shutdown[c]
     /\ at' = [at EXCEPT ![c] = "shutdownLock"]
     /\ Requeue(c)

----------------------------------------------------------------------------
(* Calls. *)

\* rpc_within: an unhealthy extension answers Disabled at once, and
\* on_shutdown then only kills the child.
Call(c, last) ==
  /\ at[c] = "idle"
  /\ nextCall <= MaxCalls
  /\ nextCall' = nextCall + 1
  /\ request' = [request EXCEPT ![c] = nextCall]
  /\ answer' = [answer EXCEPT ![c] = 0]
  /\ shutdown' = [shutdown EXCEPT ![c] = last]
  /\ \/ /\ ~unhealthy
        /\ at' = [at EXCEPT ![c] = "lock"]
        /\ Requeue(c)
     \/ /\ unhealthy /\ last
        /\ at' = [at EXCEPT ![c] = "shutdownLock"]
        /\ Requeue(c)
     \/ /\ unhealthy /\ ~last
        /\ UNCHANGED <<at, holder, queue>>
  /\ UNCHANGED pipe

\* rpc: the lock, and a child if there is none.
Acquire(c) ==
  /\ at[c] = "lock"
  /\ HasTurn(c)
  /\ holder' = c
  /\ queue' = Tail(queue)
  /\ at' = [at EXCEPT ![c] = "write"]
  /\ child' = IF child.spawned THEN child ELSE NewChild
  /\ UNCHANGED <<unhealthy, orphaned, calls>>

\* The child could not be spawned.
SpawnFails(c) ==
  /\ at[c] = "lock"
  /\ HasTurn(c)
  /\ ~child.spawned
  /\ Return(c)
  /\ UNCHANGED <<pipe, calls>>

\* One frame into the child's stdin.  A write to a dead child fails and drops
\* the handle.
Write(c) ==
  /\ at[c] = "write"
  /\ \/ /\ child.alive
        /\ child' = [child EXCEPT !.inbox = Append(@, request[c])]
        /\ at' = [at EXCEPT ![c] = "read"]
        /\ UNCHANGED <<holder, queue>>
     \/ /\ ~child.alive
        /\ child' = NoChild
        /\ Return(c)
  /\ UNCHANGED <<unhealthy, orphaned, calls>>

\* One frame out of the child's stdout.  A malformed one, or the end of the
\* stream, drops the handle.
Read(c) ==
  /\ at[c] = "read"
  /\ \/ /\ child.outbox # <<>>
        /\ answer' = [answer EXCEPT ![c] = Head(child.outbox)]
        /\ child' = IF Head(child.outbox) = Malformed THEN NoChild
                    ELSE [child EXCEPT !.outbox = Tail(@)]
     \/ /\ child.outbox = <<>> /\ ~child.alive
        /\ child' = NoChild
        /\ UNCHANGED answer
  /\ Return(c)
  /\ UNCHANGED <<unhealthy, orphaned, shutdown, request, nextCall>>

InRpc == {"lock", "write", "read"}

\* Mutant: the shutdown event is sent without a budget.
Timeout_NotShutdown(c) ==
  /\ at[c] \in InRpc
  /\ ~shutdown[c]
  /\ unhealthy' = TRUE
  /\ at' = [at EXCEPT ![c] = "killLock"]
  /\ Requeue(c)
  /\ UNCHANGED <<child, orphaned, calls>>

\* Mutant: a timeout is only an error of the call.
Timeout_KeepsChild(c) ==
  /\ at[c] \in InRpc
  /\ Return(c)
  /\ UNCHANGED <<pipe, calls>>

\* The budget elapses: the call is dropped, which releases the lock, and
\* disable_after_timeout marks the extension and queues for the lock.
Timeout(c) ==
  /\ at[c] \in InRpc
  /\ unhealthy' = TRUE
  /\ at' = [at EXCEPT ![c] = "killLock"]
  /\ Requeue(c)
  /\ UNCHANGED <<child, orphaned, calls>>

\* disable_after_timeout has the lock: the child is taken out and killed.
Kill(c) ==
  /\ at[c] = "killLock"
  /\ HasTurn(c)
  /\ child' = NoChild
  /\ Return(c)
  /\ UNCHANGED <<unhealthy, orphaned, calls>>

\* The lock was not free within a second.
KillGivesUp(c) ==
  /\ at[c] = "killLock"
  /\ ~HasTurn(c)
  /\ Return(c)
  /\ UNCHANGED <<pipe, calls>>

\* The end of on_shutdown.
ShutdownKill(c) ==
  /\ at[c] = "shutdownLock"
  /\ HasTurn(c)
  /\ child' = NoChild
  /\ at' = [at EXCEPT ![c] = "idle"]
  /\ Release(c)
  /\ UNCHANGED <<unhealthy, orphaned, calls>>

\* An aborted run drops the call of a custom tool.
Drop(c) ==
  /\ CanDrop
  /\ ~shutdown[c]
  /\ at[c] \in InRpc \cup {"killLock"}
  /\ at' = [at EXCEPT ![c] = "idle"]
  /\ Release(c)
  /\ orphaned' = (orphaned \/ at[c] = "read")
  /\ UNCHANGED <<child, unhealthy, calls>>

----------------------------------------------------------------------------
(* The child. *)

ChildStep(new) ==
  /\ child.alive
  /\ child' = new
  /\ UNCHANGED <<unhealthy, orphaned, holder, queue, at, calls>>

ChildAnswers ==
  /\ child.inbox # <<>>
  /\ \E frame \in {Head(child.inbox), Malformed} :
       ChildStep([child EXCEPT !.inbox = Tail(@),
                               !.outbox = Append(@, frame)])

ChildExits == ChildStep([child EXCEPT !.alive = FALSE])

----------------------------------------------------------------------------

Caller(c) ==
  \/ Acquire(c) \/ SpawnFails(c) \/ Write(c) \/ Read(c) \/ Timeout(c)
  \/ Kill(c) \/ KillGivesUp(c) \/ ShutdownKill(c)

Next ==
  \/ \E c \in Callers :
       Caller(c) \/ Drop(c) \/ \E last \in BOOLEAN : Call(c, last)
  \/ ChildAnswers
  \/ ChildExits

Spec == Init /\ [][Next]_vars

\* Tasks are polled and timers fire; nothing is assumed of the child.
FairSpec == Spec /\ \A c \in Callers : WF_vars(Caller(c))

----------------------------------------------------------------------------
(* Properties. *)

Requests == 0..MaxCalls

\* The type of every variable.
TypeOK ==
  /\ child \in [spawned : BOOLEAN, alive : BOOLEAN, inbox : Seq(Requests),
                outbox : Seq(Requests)]
  /\ unhealthy \in BOOLEAN /\ orphaned \in BOOLEAN
  /\ holder \in Callers \cup {NoCaller}
  /\ queue \in Seq(Callers)
  /\ at \in [Callers -> {"idle", "lock", "write", "read", "killLock",
                         "shutdownLock"}]
  /\ shutdown \in [Callers -> BOOLEAN]
  /\ request \in [Callers -> Requests]
  /\ answer \in [Callers -> Requests]
  /\ nextCall \in 1..(MaxCalls + 1)

\* As long as no call was dropped with its answer outstanding and none has
\* blown its budget, every call reads the answer to its own request: exits of
\* the child, malformed frames and concurrent callers never shift the frames.
HealthyAnswersMatch ==
  [][\A c \in Callers :
       answer'[c] \notin {answer[c], request[c]} /\ ~unhealthy /\ ~orphaned
         => answer'[c] = Malformed]_vars

\* A call that returns an answer returns the answer to its own request.  The
\* module documentation says why a slow child is killed: to avoid "reading a
\* late response as the answer to the next question".
AnswersMatch ==
  \A c \in Callers : answer[c] # Malformed => answer[c] = request[c]

\* The mutex is held and waited for by the calls that should, whatever was
\* dropped: nobody waits twice, and an idle caller neither waits nor holds.
LockFollowsCalls ==
  /\ \A j, k \in DOMAIN queue : queue[j] = queue[k] => j = k
  /\ \A c \in Callers :
       /\ holder = c <=> at[c] \in {"write", "read"}
       /\ (\E k \in DOMAIN queue : queue[k] = c)
            <=> at[c] \in {"lock", "killLock", "shutdownLock"}

\* Every call returns, and session teardown with it, whatever the child does.
CallsReturn == \A c \in Callers : at[c] # "idle" ~> at[c] = "idle"
=============================================================================
