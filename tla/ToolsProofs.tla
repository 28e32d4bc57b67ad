------------------------------ MODULE ToolsProofs ------------------------------
(***************************************************************************)
(* Proofs about what a turn calls out to (MCTools), for every value of the *)
(* constants that ToolsAssumption and SubprocessAssumption allow: the      *)
(* calls into a subprocess extension, the extension chain, the bash        *)
(* executor, the streams of the four adapters and of the proxy, the call   *)
(* to a provider, and the locks of the edit and write tools.               *)
(***************************************************************************)
EXTENDS MCTools, SequenceLemmas

----------------------------------------------------------------------------
(* Calls into a subprocess. *)

Places  == {"idle", "lock", "write", "read", "killLock", "shutdownLock"}
Holding == {"write", "read"}
Waiting == {"lock", "killLock", "shutdownLock"}

----------------------------------------------------------------------------
(* The mutex. *)

\* LockFollowsCalls, with the waiters as a set.
LockInv ==
  /\ Distinct(queue)
  /\ \A c \in Callers :
       /\ holder = c <=> at[c] \in Holding
       /\ c \in ToSet(queue) <=> at[c] \in Waiting

\* What the steps of a call need of the types, and keep.
LockTypes ==
  /\ holder \in Callers \cup {NoCaller}
  /\ queue \in Seq(Callers)
  /\ at \in [Callers -> Places]

LEMMA LockInit == Init => LockTypes /\ LockInv
  <1> SUFFICES ASSUME Init PROVE LockTypes /\ LockInv
    OBVIOUS
  <1>1. queue = <<>> /\ holder = NoCaller /\ at = [c \in Callers |-> "idle"]
    BY DEF Init
  <1>2. ToSet(queue) = {} /\ Distinct(queue)
    BY <1>1 DEF ToSet, Distinct
  <1>3. LockTypes
    BY <1>1 DEF LockTypes, Places
  <1>4. LockInv
    BY <1>1, <1>2, SubprocessAssumption DEF LockInv, Holding, Waiting
  <1> QED BY <1>3, <1>4

\* Taking a caller out of the queue leaves the others, each once.
LEMMA WithoutCaller ==
  ASSUME LockTypes, LockInv, NEW c \in Callers
  PROVE  /\ Without(c) \in Seq(Callers)
         /\ ToSet(Without(c)) = ToSet(queue) \ {c}
         /\ Distinct(Without(c))
  <1>1. queue \in Seq(Callers) /\ Distinct(queue)
    BY DEF LockTypes, LockInv
  <1>2. ToSet(queue) \subseteq Callers
    BY <1>1, Elements DEF ToSet
  <1>3. /\ Keep(queue, Callers \ {c}) \in Seq(Callers)
        /\ ToSet(Keep(queue, Callers \ {c})) = ToSet(queue) \cap (Callers \ {c})
        /\ Distinct(Keep(queue, Callers \ {c}))
    BY <1>1, KeepInSeq, KeepElements
  <1> QED BY <1>2, <1>3 DEF Without

LEMMA ReleaseKeeps ==
  ASSUME LockTypes, LockInv, NEW c \in Callers, Release(c),
         at' = [at EXCEPT ![c] = "idle"]
  PROVE  LockTypes' /\ LockInv'
  <1>1. /\ queue' \in Seq(Callers) /\ ToSet(queue') = ToSet(queue) \ {c}
        /\ Distinct(queue')
    BY WithoutCaller DEF Release
  <1>2. LockTypes'
    BY <1>1 DEF LockTypes, Release, Places
  <1>3. ASSUME NEW d \in Callers
        PROVE  /\ holder' = d <=> at'[d] \in Holding
               /\ d \in ToSet(queue') <=> at'[d] \in Waiting
    BY <1>1, SubprocessAssumption
       DEF LockTypes, LockInv, Release, Holding, Waiting
  <1> QED BY <1>1, <1>2, <1>3 DEF LockInv

LEMMA RequeueKeeps ==
  ASSUME LockTypes, LockInv, NEW c \in Callers, NEW p \in Waiting, Requeue(c),
         at' = [at EXCEPT ![c] = p]
  PROVE  LockTypes' /\ LockInv'
  <1>1. /\ Without(c) \in Seq(Callers) /\ c \notin ToSet(Without(c))
        /\ ToSet(Without(c)) = ToSet(queue) \ {c} /\ Distinct(Without(c))
    BY WithoutCaller
  <1>2. /\ Append(Without(c), c) \in Seq(Callers)
        /\ ToSet(Append(Without(c), c)) = ToSet(Without(c)) \cup {c}
        /\ Distinct(Append(Without(c), c))
    BY <1>1, DistinctAppend
  <1>3. /\ queue' \in Seq(Callers) /\ ToSet(queue') = ToSet(queue) \cup {c}
        /\ Distinct(queue')
    BY <1>1, <1>2 DEF Requeue
  <1>4. LockTypes'
    BY <1>3 DEF LockTypes, Requeue, Places, Waiting
  <1>5. ASSUME NEW d \in Callers
        PROVE  /\ holder' = d <=> at'[d] \in Holding
               /\ d \in ToSet(queue') <=> at'[d] \in Waiting
    BY <1>3, SubprocessAssumption
       DEF LockTypes, LockInv, Requeue, Holding, Waiting
  <1> QED BY <1>3, <1>4, <1>5 DEF LockInv

\* A call that returns releases the lock, or queues for it to shut down.
LEMMA ReturnKeeps ==
  ASSUME LockTypes, LockInv, NEW c \in Callers, Return(c)
  PROVE  /\ LockTypes' /\ LockInv'
         /\ \E p \in {"idle", "shutdownLock"} : at' = [at EXCEPT ![c] = p]
  <1>1. CASE at' = [at EXCEPT ![c] = "idle"] /\ Release(c)
    BY <1>1, ReleaseKeeps
  <1>2. CASE at' = [at EXCEPT ![c] = "shutdownLock"] /\ Requeue(c)
    BY <1>2, RequeueKeeps DEF Waiting
  <1> QED BY <1>1, <1>2 DEF Return

\* The first in the queue gets the lock when it is free.
LEMMA AcquireKeeps ==
  ASSUME LockTypes, LockInv, NEW c \in Callers, Acquire(c)
  PROVE  LockTypes' /\ LockInv'
  <1>1. /\ queue \in Seq(Callers) /\ queue # <<>> /\ Head(queue) = c
        /\ holder = NoCaller /\ holder' = c /\ queue' = Tail(queue)
        /\ at' = [at EXCEPT ![c] = "write"] /\ Distinct(queue)
    BY DEF LockTypes, LockInv, Acquire, HasTurn
  <1>2. /\ DOMAIN queue = 1..Len(queue) /\ DOMAIN queue' = 1..(Len(queue) - 1)
        /\ Len(queue) \in Nat \ {0} /\ queue[1] = c /\ queue' \in Seq(Callers)
        /\ \A k \in 1..(Len(queue) - 1) : queue'[k] = queue[k + 1]
    BY <1>1
  <1>3. \A k \in 1..(Len(queue) - 1) : k + 1 \in DOMAIN queue /\ k + 1 # 1
    BY <1>2
  <1>4. 1 \in DOMAIN queue /\ \A k \in DOMAIN queue : k = 1 \/ k - 1 \in DOMAIN queue'
    BY <1>2
  <1>5. \A k \in DOMAIN queue : (k - 1) + 1 = k
    BY <1>2
  <1>6. Distinct(queue')
    BY <1>1, <1>2, <1>3 DEF Distinct
  <1>7. ToSet(queue') \subseteq ToSet(queue) \ {c}
    BY <1>1, <1>2, <1>3, <1>4 DEF Distinct, ToSet
  <1>8. ToSet(queue) \subseteq ToSet(queue') \cup {c}
    BY <1>2, <1>4, <1>5 DEF ToSet
  <1>9. LockTypes'
    BY <1>1, <1>2 DEF LockTypes, Places
  <1>10. ASSUME NEW d \in Callers
         PROVE  /\ holder' = d <=> at'[d] \in Holding
                /\ d \in ToSet(queue') <=> at'[d] \in Waiting
    BY <1>1, <1>7, <1>8, SubprocessAssumption
       DEF LockTypes, LockInv, Holding, Waiting
  <1> QED BY <1>6, <1>9, <1>10 DEF LockInv

\* A caller that holds the lock goes on to its next step.
LEMMA HolderKeeps ==
  ASSUME LockTypes, LockInv, NEW c \in Callers, at[c] = "write",
         at' = [at EXCEPT ![c] = "read"], UNCHANGED <<holder, queue>>
  PROVE  LockTypes' /\ LockInv'
  <1>1. LockTypes'
    BY DEF LockTypes, Places
  <1>2. ASSUME NEW d \in Callers
        PROVE  /\ holder' = d <=> at'[d] \in Holding
               /\ d \in ToSet(queue') <=> at'[d] \in Waiting
    BY DEF LockTypes, LockInv, Holding, Waiting
  <1> QED BY <1>1, <1>2 DEF LockInv

LEMMA LockStep == LockTypes /\ LockInv /\ [Next]_vars => LockTypes' /\ LockInv'
  <1> SUFFICES ASSUME LockTypes, LockInv, [Next]_vars PROVE LockTypes' /\ LockInv'
    OBVIOUS
  <1>1. CASE UNCHANGED <<holder, queue, at>>
    BY <1>1 DEF LockTypes, LockInv
  <1>2. ASSUME NEW c \in Callers, NEW last \in BOOLEAN, Call(c, last)
        PROVE  LockTypes' /\ LockInv'
    <2>1. CASE Requeue(c) /\ at' = [at EXCEPT ![c] = "lock"]
      BY <2>1, RequeueKeeps DEF Waiting
    <2>2. CASE Requeue(c) /\ at' = [at EXCEPT ![c] = "shutdownLock"]
      BY <2>2, RequeueKeeps DEF Waiting
    <2> QED BY <1>1, <1>2, <2>1, <2>2 DEF Call
  <1>3. ASSUME NEW c \in Callers, Acquire(c) PROVE LockTypes' /\ LockInv'
    BY <1>3, AcquireKeeps
  <1>4. ASSUME NEW c \in Callers, Return(c) PROVE LockTypes' /\ LockInv'
    BY <1>4, ReturnKeeps
  <1>5. ASSUME NEW c \in Callers, Write(c) PROVE LockTypes' /\ LockInv'
    BY <1>4, <1>5, HolderKeeps DEF Write
  <1>6. ASSUME NEW c \in Callers, Timeout(c) PROVE LockTypes' /\ LockInv'
    BY <1>6, RequeueKeeps DEF Timeout, Waiting
  <1>7. ASSUME NEW c \in Callers, ShutdownKill(c) \/ Drop(c)
        PROVE  LockTypes' /\ LockInv'
    BY <1>7, ReleaseKeeps DEF ShutdownKill, Drop
  <1>8. ASSUME NEW c \in Callers, SpawnFails(c) \/ Read(c) \/ Kill(c) \/ KillGivesUp(c)
        PROVE  LockTypes' /\ LockInv'
    BY <1>4, <1>8 DEF SpawnFails, Read, Kill, KillGivesUp
  <1>9. CASE ChildAnswers \/ ChildExits
    BY <1>1, <1>9 DEF ChildAnswers, ChildExits, ChildStep
  <1>10. CASE UNCHANGED vars
    BY <1>1, <1>10 DEF vars
  <1> QED BY <1>2, <1>3, <1>5, <1>6, <1>7, <1>8, <1>9, <1>10 DEF Next, Caller

LEMMA LockHolds == Spec => [](LockTypes /\ LockInv)
  BY LockInit, LockStep, PTL DEF Spec

\* The mutex is held and waited for by the calls that should, whatever was
\* dropped, timed out or shut down: nobody waits twice, and an idle caller
\* neither waits nor holds.
THEOREM LockIsFollowed == Spec => []LockFollowsCalls
  <1>1. LockTypes /\ LockInv => LockFollowsCalls
    BY DEF LockInv, LockFollowsCalls, Distinct, ToSet, Holding, Waiting
  <1> QED BY <1>1, LockHolds, PTL

----------------------------------------------------------------------------
(* Types. *)

Pipes == [spawned : BOOLEAN, alive : BOOLEAN, inbox : Seq(Requests),
          outbox : Seq(Requests)]

LEMMA SubprocessTypeInit == Init => TypeOK
  <1> SUFFICES ASSUME Init PROVE TypeOK
    OBVIOUS
  <1>1. NoChild \in Pipes
    BY DEF NoChild, Pipes
  <1>2. 0 \in Requests /\ nextCall \in 1..(MaxCalls + 1)
    BY SubprocessAssumption DEF Init, Requests
  <1>3. queue \in Seq(Callers)
    BY DEF Init
  <1> QED BY <1>1, <1>2, <1>3 DEF Init, TypeOK, Pipes

\* What becomes of the child's pipes keeps their types.
LEMMA PipeTypes ==
  ASSUME TypeOK
  PROVE  /\ NoChild \in Pipes /\ NewChild \in Pipes
         /\ \A r \in Requests :
              [child EXCEPT !.inbox = Append(@, r)] \in Pipes
         /\ child.outbox # <<>> =>
              /\ Head(child.outbox) \in Requests
              /\ [child EXCEPT !.outbox = Tail(@)] \in Pipes
         /\ child.inbox # <<>> => Head(child.inbox) \in Requests
         /\ child.inbox # <<>> => \A r \in Requests :
              [child EXCEPT !.inbox = Tail(@), !.outbox = Append(@, r)] \in Pipes
         /\ [child EXCEPT !.alive = FALSE] \in Pipes
  <1> DEFINE i == child.inbox  o == child.outbox
  <1>1. child \in Pipes /\ i \in Seq(Requests) /\ o \in Seq(Requests)
    BY DEF TypeOK, Pipes
  <1>2. \A r \in Requests : Append(i, r) \in Seq(Requests) /\ Append(o, r) \in Seq(Requests)
    BY <1>1
  <1>3. /\ i # <<>> => Head(i) \in Requests /\ Tail(i) \in Seq(Requests)
        /\ o # <<>> => Head(o) \in Requests /\ Tail(o) \in Seq(Requests)
    BY <1>1
  <1>4. NoChild \in Pipes /\ NewChild \in Pipes
    <2>1. NoChild \in Pipes
      BY DEF NoChild, Pipes
    <2> QED BY <2>1 DEF NewChild, Pipes
  <1> QED BY <1>1, <1>2, <1>3, <1>4 DEF Pipes

\* The child takes a request and sends a frame.
Sends(r) == child' = [child EXCEPT !.inbox = Tail(@), !.outbox = Append(@, r)]

LEMMA ChildSends ==
  ASSUME ChildAnswers
  PROVE  /\ child.inbox # <<>>
         /\ \E r \in {Head(child.inbox), Malformed} : Sends(r)
  <1>1. PICK r \in {Head(child.inbox), Malformed} :
          ChildStep([child EXCEPT !.inbox = Tail(@), !.outbox = Append(@, r)])
    BY DEF ChildAnswers
  <1>2. Sends(r)
    BY <1>1 DEF ChildStep, Sends
  <1> QED BY <1>2 DEF ChildAnswers

LEMMA SubprocessTypeStep ==
  TypeOK /\ LockTypes' /\ [Next]_vars => TypeOK'
  <1> SUFFICES ASSUME TypeOK, LockTypes', [Next]_vars PROVE TypeOK'
    OBVIOUS
  \* The types of the queue and the places are those of the mutex.
  <1>1. ASSUME child' \in Pipes, unhealthy' \in BOOLEAN, orphaned' \in BOOLEAN,
               shutdown' \in [Callers -> BOOLEAN],
               request' \in [Callers -> Requests],
               answer' \in [Callers -> Requests], nextCall' \in 1..(MaxCalls + 1)
        PROVE  TypeOK'
    BY <1>1 DEF TypeOK, LockTypes, Places, Pipes
  <1>0. /\ child \in Pipes /\ unhealthy \in BOOLEAN /\ orphaned \in BOOLEAN
        /\ shutdown \in [Callers -> BOOLEAN] /\ request \in [Callers -> Requests]
        /\ answer \in [Callers -> Requests] /\ nextCall \in 1..(MaxCalls + 1)
    BY DEF TypeOK, Pipes
  <1>2. ASSUME NEW c \in Callers, NEW last \in BOOLEAN, Call(c, last) PROVE TypeOK'
    <2>1. nextCall \in Requests /\ nextCall + 1 \in 1..(MaxCalls + 1) /\ 0 \in Requests
      BY <1>0, <1>2, SubprocessAssumption DEF Call, Requests
    <2> QED BY <1>0, <1>1, <1>2, <2>1 DEF Call, pipe
  <1>3. ASSUME NEW c \in Callers, Acquire(c) PROVE TypeOK'
    BY <1>0, <1>1, <1>3, PipeTypes DEF Acquire, calls
  <1>4. ASSUME NEW c \in Callers, SpawnFails(c) \/ KillGivesUp(c) PROVE TypeOK'
    BY <1>0, <1>1, <1>4 DEF SpawnFails, KillGivesUp, pipe, calls
  <1>5. ASSUME NEW c \in Callers, Write(c) PROVE TypeOK'
    BY <1>0, <1>1, <1>5, PipeTypes DEF Write, calls
  <1>6. ASSUME NEW c \in Callers, Read(c) PROVE TypeOK'
    BY <1>0, <1>1, <1>6, PipeTypes DEF Read
  <1>7. ASSUME NEW c \in Callers, Timeout(c) \/ Drop(c) PROVE TypeOK'
    BY <1>0, <1>1, <1>7 DEF Timeout, Drop, calls
  <1>8. ASSUME NEW c \in Callers, Kill(c) \/ ShutdownKill(c) PROVE TypeOK'
    BY <1>0, <1>1, <1>8, PipeTypes DEF Kill, ShutdownKill, calls
  <1>9. CASE ChildAnswers
    <2>1. /\ child.inbox # <<>>
          /\ \E r \in {Head(child.inbox), Malformed} : Sends(r)
      BY <1>9, ChildSends
    <2>2. Head(child.inbox) \in Requests /\ Malformed \in Requests
      <3>1. Malformed \in Requests
        BY SubprocessAssumption DEF Malformed, Requests
      <3> QED BY <2>1, <3>1, PipeTypes
    <2>3. child' \in Pipes
      BY <2>1, <2>2, PipeTypes DEF Sends
    <2> QED BY <1>0, <1>1, <1>9, <2>3 DEF ChildAnswers, ChildStep, calls
  <1>10. CASE ChildExits
    BY <1>0, <1>1, <1>10, PipeTypes DEF ChildExits, ChildStep, calls
  <1>11. CASE UNCHANGED vars
    BY <1>0, <1>1, <1>11 DEF vars, pipe, calls
  <1> QED BY <1>2, <1>3, <1>4, <1>5, <1>6, <1>7, <1>8, <1>9, <1>10, <1>11
          DEF Next, Caller

\* The state of the extension keeps its types.
THEOREM SubprocessTypeCorrect == Spec => []TypeOK
  BY SubprocessTypeInit, LockHolds, SubprocessTypeStep, PTL DEF Spec

----------------------------------------------------------------------------
(* The pipes of a healthy child. *)

Healthy == ~unhealthy /\ ~orphaned
Empty   == child.inbox = <<>> /\ child.outbox = <<>>

\* While nothing was dropped, the pipes hold nothing but what the one call that
\* reads has asked for: its request, or the frame the child sent for it.
PipeInv ==
  Healthy =>
    /\ (\A c \in Callers : at[c] # "read") => Empty
    /\ \A c \in Callers : at[c] = "read" =>
         \/ child.inbox = <<request[c]>> /\ child.outbox = <<>>
         \/ child.inbox = <<>> /\ child.outbox \in {<<request[c]>>, <<Malformed>>}

LEMMA PipeInit == Init => PipeInv
  BY DEF Init, PipeInv, Empty, NoChild

\* At most one call reads.
LEMMA OneReads ==
  ASSUME LockTypes, LockInv, NEW c \in Callers, NEW d \in Callers,
         at[c] \in Holding, at[d] \in Holding
  PROVE  c = d
  BY DEF LockInv

LEMMA PipeStep ==
  TypeOK /\ LockTypes /\ LockInv /\ PipeInv /\ [Next]_vars => PipeInv'
  <1> SUFFICES ASSUME TypeOK, LockTypes, LockInv, PipeInv, [Next]_vars, Healthy'
               PROVE  PipeInv'
    BY DEF PipeInv
  <1>0. /\ at \in [Callers -> Places] /\ request \in [Callers -> Requests]
        /\ child \in Pipes
    BY DEF LockTypes, TypeOK, Pipes
  <1>a. \A c, d \in Callers : at[c] \in Holding /\ at[d] \in Holding => c = d
    BY OneReads
  \* Steps that leave the pipes and the calls that read.
  <1>1. ASSUME Healthy, child' = child \/ child' = [child EXCEPT !.alive = FALSE]
                        \/ (Empty /\ child' = NewChild),
               \A c \in Callers : at'[c] = "read" <=> at[c] = "read",
               \A c \in Callers : at[c] = "read" => request'[c] = request[c]
        PROVE  PipeInv'
    <2>1. child'.inbox = child.inbox /\ child'.outbox = child.outbox
      BY <1>0, <1>1 DEF Pipes, Empty, NewChild, NoChild
    <2> QED BY <1>1, <2>1 DEF PipeInv, Empty
  \* Steps after which nobody reads and the pipes are empty.
  <1>2. ASSUME child'.inbox = <<>>, child'.outbox = <<>>,
               \A c \in Callers : at'[c] # "read"
        PROVE  PipeInv'
    BY <1>2 DEF PipeInv, Empty
  <1>3. ASSUME NEW c \in Callers, NEW last \in BOOLEAN, Call(c, last) PROVE PipeInv'
    <2>1. /\ Healthy /\ child' = child /\ at[c] = "idle"
          /\ at' \in {at, [at EXCEPT ![c] = "lock"], [at EXCEPT ![c] = "shutdownLock"]}
          /\ \A d \in Callers : d # c => request'[d] = request[d]
      BY <1>0, <1>3 DEF Call, pipe, Healthy
    <2> QED BY <1>0, <1>1, <2>1
  <1>4. ASSUME NEW c \in Callers, Acquire(c) PROVE PipeInv'
    <2>1. /\ Healthy /\ request' = request /\ at' = [at EXCEPT ![c] = "write"]
          /\ at[c] = "lock" /\ holder = NoCaller
      BY <1>4 DEF Acquire, calls, Healthy, HasTurn
    <2>2. \A d \in Callers : at[d] # "read"
      BY <2>1, SubprocessAssumption DEF LockInv, Holding
    <2>3. Empty
      BY <2>1, <2>2 DEF PipeInv
    <2> QED BY <1>0, <1>1, <1>4, <2>1, <2>2, <2>3 DEF Acquire
  <1>5. ASSUME NEW c \in Callers, SpawnFails(c) \/ KillGivesUp(c) PROVE PipeInv'
    <2>1. /\ Healthy /\ child' = child /\ request' = request
          /\ at[c] \in {"lock", "killLock"}
          /\ \E p \in {"idle", "shutdownLock"} : at' = [at EXCEPT ![c] = p]
      BY <1>5, ReturnKeeps DEF SpawnFails, KillGivesUp, pipe, calls, Healthy
    <2> QED BY <1>0, <1>1, <2>1
  <1>6. ASSUME NEW c \in Callers, Write(c) PROVE PipeInv'
    <2>1. /\ Healthy /\ request' = request /\ at[c] = "write"
      BY <1>6 DEF Write, calls, Healthy
    <2>2. \A d \in Callers : at[d] # "read"
      BY <1>a, <2>1 DEF Holding
    <2>3. Empty
      BY <2>1, <2>2 DEF PipeInv
    <2>4. CASE /\ child' = [child EXCEPT !.inbox = Append(@, request[c])]
               /\ at' = [at EXCEPT ![c] = "read"]
      <3>1. child'.inbox = <<request[c]>> /\ child'.outbox = <<>>
        BY <1>0, <2>3, <2>4 DEF Pipes, Empty
      <3>2. \A d \in Callers : at'[d] = "read" => d = c
        BY <1>0, <2>2, <2>4
      <3>3. at'[c] = "read"
        BY <1>0, <2>4
      <3> QED BY <2>1, <3>1, <3>2, <3>3 DEF PipeInv
    <2>5. CASE child' = NoChild /\ Return(c)
      BY <1>0, <1>2, <2>2, <2>5, ReturnKeeps DEF NoChild
    <2> QED BY <1>6, <2>4, <2>5 DEF Write
  <1>7. ASSUME NEW c \in Callers, Read(c) PROVE PipeInv'
    <2>1. Healthy /\ at[c] = "read" /\ Return(c)
      BY <1>7 DEF Read, Healthy
    <2>2. \A d \in Callers : at'[d] # "read"
      BY <1>0, <1>a, <2>1, ReturnKeeps DEF Holding
    <2>3. CASE child' = NoChild
      BY <1>2, <2>2, <2>3 DEF NoChild
    <2>4. CASE /\ child.outbox # <<>>
               /\ child' = [child EXCEPT !.outbox = Tail(@)]
      <3>1. child.inbox = <<>> /\ child.outbox \in {<<request[c]>>, <<Malformed>>}
        BY <2>1, <2>4 DEF PipeInv
      <3>2. child'.inbox = <<>> /\ child'.outbox = <<>>
        BY <1>0, <2>4, <3>1 DEF Pipes
      <3> QED BY <1>2, <2>2, <3>2
    <2> QED BY <1>7, <2>3, <2>4 DEF Read
  <1>8. ASSUME NEW c \in Callers, Timeout(c) PROVE FALSE
    BY <1>8 DEF Timeout, Healthy
  <1>9. ASSUME NEW c \in Callers, Kill(c) \/ ShutdownKill(c) PROVE PipeInv'
    <2>1. \A d \in Callers : at[d] # "read"
      BY <1>9, SubprocessAssumption DEF LockInv, Holding, Kill, ShutdownKill, HasTurn
    <2>2. \E p \in {"idle", "shutdownLock"} : at' = [at EXCEPT ![c] = p]
      BY <1>9, ReturnKeeps DEF Kill, ShutdownKill
    <2> QED BY <1>0, <1>2, <1>9, <2>1, <2>2 DEF Kill, ShutdownKill, NoChild
  <1>10. ASSUME NEW c \in Callers, Drop(c) PROVE PipeInv'
    <2>1. /\ Healthy /\ child' = child /\ request' = request /\ at[c] # "read"
          /\ at' = [at EXCEPT ![c] = "idle"]
      BY <1>10 DEF Drop, calls, Healthy, TypeOK
    <2> QED BY <1>0, <1>1, <2>1
  <1>11. CASE ChildAnswers
    <2>1. /\ Healthy /\ child.inbox # <<>> /\ at' = at /\ request' = request
          /\ \E r \in {Head(child.inbox), Malformed} : Sends(r)
      <3>1. Healthy /\ at' = at /\ request' = request
        BY <1>11 DEF ChildAnswers, ChildStep, calls, Healthy
      <3> QED BY <1>11, <3>1, ChildSends
    <2>2. PICK c \in Callers : at[c] = "read"
      BY <2>1 DEF PipeInv, Empty
    <2>3. child.inbox = <<request[c]>> /\ child.outbox = <<>>
      BY <2>1, <2>2 DEF PipeInv
    <2>4. child'.inbox = <<>> /\ child'.outbox \in {<<request[c]>>, <<Malformed>>}
      BY <1>0, <2>1, <2>3 DEF Pipes, Sends
    <2>5. \A d \in Callers : at'[d] = "read" => d = c
      BY <1>a, <2>1, <2>2 DEF Holding
    <2> QED BY <2>1, <2>2, <2>4, <2>5 DEF PipeInv
  <1>12. CASE ChildExits
    BY <1>1, <1>12 DEF ChildExits, ChildStep, calls, Healthy
  <1>13. CASE UNCHANGED vars
    BY <1>1, <1>13 DEF vars, pipe, calls, Healthy
  <1> QED BY <1>3, <1>4, <1>5, <1>6, <1>7, <1>8, <1>9, <1>10, <1>11, <1>12, <1>13
          DEF Next, Caller

\* As long as no call was dropped with its answer outstanding and none has
\* blown its budget, every call reads the answer to its own request: exits of
\* the child, malformed frames and concurrent callers never shift the frames.
THEOREM HealthyCallsMatch == Spec => HealthyAnswersMatch
  <1> DEFINE Match == \A c \in Callers :
        answer'[c] \notin {answer[c], request[c]} /\ ~unhealthy /\ ~orphaned
          => answer'[c] = Malformed
  <1>1. TypeOK /\ PipeInv /\ [Next]_vars => [Match]_vars
    <2> SUFFICES ASSUME TypeOK, PipeInv, Next, NEW d \in Callers, Healthy,
                        answer'[d] \notin {answer[d], request[d]}
                 PROVE  answer'[d] = Malformed
      BY DEF Healthy
    <2>0. answer \in [Callers -> Requests]
      BY DEF TypeOK
    <2>1. ASSUME NEW c \in Callers, NEW last \in BOOLEAN, Call(c, last)
          PROVE  answer'[d] = Malformed
      BY <2>0, <2>1 DEF Call, Malformed
    <2>2. ASSUME NEW c \in Callers, Read(c) PROVE answer'[d] = Malformed
      <3>1. /\ child.outbox # <<>> /\ at[c] = "read"
            /\ answer' = [answer EXCEPT ![c] = Head(child.outbox)]
        BY <2>2 DEF Read
      <3>2. child.outbox \in {<<request[c]>>, <<Malformed>>}
        BY <3>1 DEF PipeInv
      <3>3. Head(child.outbox) \in {request[c], Malformed}
        BY <3>2
      <3> QED BY <2>0, <3>1, <3>3
    <2>3. CASE answer' = answer
      BY <2>3
    <2>4. CASE \E c \in Callers : Acquire(c) \/ SpawnFails(c) \/ Write(c)
                 \/ Timeout(c) \/ Kill(c) \/ KillGivesUp(c) \/ ShutdownKill(c)
                 \/ Drop(c)
      BY <2>3, <2>4 DEF Acquire, SpawnFails, Write, Timeout, Kill, KillGivesUp,
                        ShutdownKill, Drop, calls
    <2>5. CASE ChildAnswers \/ ChildExits
      BY <2>3, <2>5 DEF ChildAnswers, ChildExits, ChildStep, calls
    <2> QED BY <2>1, <2>2, <2>4, <2>5 DEF Next, Caller
  <1>2. Spec => []PipeInv
    BY LockHolds, SubprocessTypeCorrect, PipeInit, PipeStep, PTL DEF Spec
  <1> QED BY <1>1, <1>2, SubprocessTypeCorrect, PTL DEF Spec, HealthyAnswersMatch

----------------------------------------------------------------------------
(* Sequences. *)

LEMMA AppendKeeps ==
  ASSUME NEW S, NEW s \in Seq(S), NEW x \in S
  PROVE  \A k \in 1..Len(s) : Append(s, x)[k] = s[k]
  OBVIOUS

LEMMA HeadAndTail ==
  ASSUME NEW S, NEW s \in Seq(S), s # <<>>
  PROVE  /\ Tail(s) \in Seq(S) /\ Head(s) \in S
         /\ ToSet(s) = {Head(s)} \cup ToSet(Tail(s))
         /\ Distinct(s) => Distinct(Tail(s)) /\ Head(s) \notin ToSet(Tail(s))
  <1> DEFINE t == Tail(s)  n == Len(s) - 1
  <1>1. /\ t \in Seq(S) /\ Head(s) \in S /\ Head(s) = s[1]
        /\ n \in Nat /\ DOMAIN t = 1..n /\ DOMAIN s = 1..(n + 1)
        /\ \A k \in 1..n : t[k] = s[k + 1]
    BY TailParts
  <1> HIDE DEF t, n
  <1>2. \A k \in 1..n : k + 1 \in 1..(n + 1) /\ 1 \in 1..(n + 1) /\ k + 1 # 1
    BY <1>1
  <1>3. ASSUME Distinct(s) PROVE Distinct(t) /\ Head(s) \notin ToSet(t)
    <2>1. Distinct(t)
      <3>1. ASSUME NEW i \in 1..n, NEW j \in 1..n, t[i] = t[j] PROVE i = j
        <4>1. s[i + 1] = s[j + 1] /\ i + 1 \in DOMAIN s /\ j + 1 \in DOMAIN s
          BY <1>1, <1>2, <3>1
        <4>2. i + 1 = j + 1
          BY <1>3, <4>1 DEF Distinct
        <4> QED BY <4>2
      <3> QED BY <1>1, <3>1 DEF Distinct
    <2>2. \A k \in 1..n : t[k] # Head(s)
      BY <1>1, <1>2, <1>3 DEF Distinct
    <2> QED BY <1>1, <2>1, <2>2 DEF ToSet
  <1>4. ASSUME NEW x \in ToSet(s), x # Head(s) PROVE x \in ToSet(t)
    <2>1. PICK k \in 1..(n + 1) : x = s[k]
      BY <1>1 DEF ToSet
    <2>2. k # 1
      BY <1>1, <1>4, <2>1
    <2>3. k - 1 \in 1..n /\ (k - 1) + 1 = k
      BY <1>1, <2>2
    <2>4. x = t[k - 1] /\ k - 1 \in DOMAIN t
      BY <1>1, <2>1, <2>3
    <2> QED BY <2>4 DEF ToSet
  <1>5. ToSet(t) \subseteq ToSet(s) /\ Head(s) \in ToSet(s)
    BY <1>1, <1>2 DEF ToSet
  <1> QED BY <1>1, <1>3, <1>4, <1>5 DEF t

LEMMA ReverseParts ==
  ASSUME NEW S, NEW s \in Seq(S)
  PROVE  Reverse(s) \in Seq(S) /\ ToSet(Reverse(s)) = ToSet(s)
  <1> DEFINE n == Len(s)  r == Reverse(s)
  <1>1. n \in Nat /\ DOMAIN s = 1..n /\ \A k \in 1..n : s[k] \in S
    OBVIOUS
  <1>2. r = [k \in 1..n |-> s[(n - k) + 1]]
    BY DEF Reverse
  <1> HIDE DEF n, r
  <1>3. \A k \in 1..n : (n - k) + 1 \in 1..n /\ (n - ((n - k) + 1)) + 1 = k
    BY <1>1
  <1>4. r \in Seq(S) /\ DOMAIN r = 1..n
    BY <1>1, <1>2, <1>3
  <1>5. ToSet(r) = ToSet(s)
    <2>1. ASSUME NEW x \in ToSet(s) PROVE x \in ToSet(r)
      <3>1. PICK k \in 1..n : x = s[k]
        BY <1>1 DEF ToSet
      <3>2. (n - k) + 1 \in 1..n /\ r[(n - k) + 1] = s[(n - ((n - k) + 1)) + 1]
        BY <1>2, <1>3
      <3> QED BY <1>3, <1>4, <3>1, <3>2 DEF ToSet
    <2>2. ASSUME NEW x \in ToSet(r) PROVE x \in ToSet(s)
      <3>1. PICK k \in 1..n : x = r[k]
        BY <1>4 DEF ToSet
      <3>2. x = s[(n - k) + 1] /\ (n - k) + 1 \in 1..n
        BY <1>2, <1>3, <3>1
      <3> QED BY <1>1, <3>2 DEF ToSet
    <2> QED BY <2>1, <2>2
  <1> QED BY <1>4, <1>5 DEF r

----------------------------------------------------------------------------
(* The extension chain. *)

chain  == slot1
loaded == slot2
errors == slot3
setup  == slot4
task   == slot5
seen   == slot6
sends  == slot7

USE DEF chain, loaded, errors, setup, task, seen, sends

\* What the instance has of the libraries is the libraries'.
LEMMA ChainLibrary ==
  ASSUME NEW s, NEW T
  PROVE  /\ Chain!Keep(s, T) = Keep(s, T)
         /\ Chain!ToSet(s) = ToSet(s)
         /\ Chain!Reverse(s) = Reverse(s)
         /\ Chain!IsInjective(s) <=> Distinct(s)
  <1>1. Chain!Keep(s, T) = Keep(s, T)
    BY DEF Chain!Keep, Keep
  <1>2. Chain!ToSet(s) = ToSet(s)
    BY DEF Chain!ToSet, ToSet
  <1>3. Chain!Reverse(s) = Reverse(s)
    BY DEF Chain!Reverse, Reverse
  <1>4. Chain!IsInjective(s) <=> Distinct(s)
    BY DEF Chain!IsInjective, Distinct
  <1> QED BY <1>1, <1>2, <1>3, <1>4

\* The positions of a chain that are in T.
LEMMA PositionsKept ==
  ASSUME Chain!TypeOK, NEW T
  PROVE  /\ Keep(Chain!Positions, T) \in Seq(Nat)
         /\ ToSet(Keep(Chain!Positions, T)) = DOMAIN chain \cap T
         /\ Distinct(Keep(Chain!Positions, T))
  <1>1. /\ Chain!Positions \in Seq(Nat)
        /\ ToSet(Chain!Positions) = DOMAIN chain
        /\ Distinct(Chain!Positions)
    <2>1. chain \in Seq(Extensions) /\ DOMAIN chain = 1..Len(chain)
      BY DEF Chain!TypeOK
    <2> QED BY <2>1 DEF Chain!Positions, ToSet, Distinct
  <1> QED BY <1>1, KeepInSeq, KeepElements

\* Those asked by a hook are in the chain.
LEMMA AskedParts ==
  ASSUME Chain!TypeOK, NEW hook
  PROVE  /\ Chain!Asked(hook) \in Seq(Extensions)
         /\ ToSet(Chain!Asked(hook)) \subseteq ToSet(chain)
  <1>1. chain \in Seq(Extensions)
    BY DEF Chain!TypeOK
  <1>2. CASE hook \in DOMAIN Subscribers
    <2>1. Chain!Asked(hook) = Keep(chain, Subscribers[hook])
      BY <1>2, ChainLibrary DEF Chain!Asked
    <2> QED BY <1>1, <2>1, KeepInSeq, KeepElements
  <1>3. CASE hook \notin DOMAIN Subscribers
    BY <1>1, <1>3 DEF Chain!Asked
  <1> QED BY <1>2, <1>3

LEMMA ChainStarts == Chain!Init => Chain!TypeOK /\ Chain!ChainInv
  <1> SUFFICES ASSUME Chain!Init PROVE Chain!TypeOK /\ Chain!ChainInv
    OBVIOUS
  <1>1. /\ chain = AtStart /\ errors = <<>> /\ task = Chain!Idle
        /\ loaded = [k \in DOMAIN AtStart |-> FALSE]
        /\ setup = [e \in Extensions |-> "new"] /\ sends = 0
    BY DEF Chain!Init
  <1>2. AtStart \in Seq(Extensions) /\ Distinct(AtStart)
    BY ToolsAssumption DEF AtStart, Distinct
  <1>3. Chain!TypeOK
    BY <1>1, <1>2 DEF Chain!TypeOK, Chain!TaskOK
  <1>4. Chain!ChainInv
    BY <1>1, <1>2, ChainLibrary
       DEF Chain!ChainInv, Chain!Idle, Chain!FlagsTell, Chain!LoadsRest,
           Chain!ShutdownRest, Chain!AllSetUp, Chain!PassShows, Chain!VettedValue
  <1> QED BY <1>3, <1>4

\* The steps that leave the chain and what its extensions have been through.
LEMMA ChainTalks ==
  ASSUME Chain!TypeOK, Chain!ChainInv, UNCHANGED <<chain, loaded, setup>>,
         errors' = errors, sends' \in Nat,
         Chain!TaskOK', task'.kind \notin {"load", "shutdown", "gone"},
         task.kind \notin {"shutdown", "gone"},
         task'.kind \in {"turn", "hook", "verdict"} =>
           \A k \in DOMAIN chain : loaded[k],
         Chain!PassShows', Chain!VettedValue'
  PROVE  Chain!TypeOK' /\ Chain!ChainInv'
  <1>1. Chain!TypeOK'
    BY DEF Chain!TypeOK
  <1>2. Chain!FlagsTell' /\ Chain!LoadsRest' /\ Chain!ShutdownRest' /\ Chain!AllSetUp'
    BY DEF Chain!ChainInv, Chain!FlagsTell, Chain!LoadsRest, Chain!ShutdownRest,
           Chain!AllSetUp
  <1>3. Chain!IsInjective(chain)'
    BY DEF Chain!ChainInv, Chain!IsInjective
  <1> QED BY <1>1, <1>2, <1>3 DEF Chain!ChainInv

LEMMA ChainRegister ==
  ASSUME Chain!TypeOK, Chain!ChainInv, NEW e \in Extensions, Chain!Register(e)
  PROVE  Chain!TypeOK' /\ Chain!ChainInv'
  <1>1. /\ chain' = Append(chain, e) /\ loaded' = Append(loaded, FALSE)
        /\ task = Chain!Idle /\ task' = Chain!Idle /\ e \notin ToSet(chain)
        /\ UNCHANGED <<errors, setup, seen, sends>>
    BY ChainLibrary DEF Chain!Register
  <1>2. chain \in Seq(Extensions) /\ loaded \in Seq(BOOLEAN) /\ Len(loaded) = Len(chain)
    BY DEF Chain!TypeOK
  <1>3. /\ chain' \in Seq(Extensions) /\ loaded' \in [DOMAIN chain' -> BOOLEAN]
        /\ DOMAIN chain' = 1..(Len(chain) + 1) /\ DOMAIN chain = 1..Len(chain)
        /\ \A k \in DOMAIN chain : chain'[k] = chain[k] /\ loaded'[k] = loaded[k]
        /\ chain'[Len(chain) + 1] = e /\ loaded'[Len(chain) + 1] = FALSE
        /\ Len(chain) \in Nat
    <2>1. /\ chain' \in Seq(Extensions) /\ loaded' \in Seq(BOOLEAN)
          /\ Len(chain') = Len(chain) + 1 /\ Len(loaded') = Len(chain) + 1
          /\ Len(chain) \in Nat
      BY <1>1, <1>2
    <2>2. DOMAIN chain' = 1..(Len(chain) + 1) /\ DOMAIN loaded' = 1..(Len(chain) + 1)
      BY <2>1
    <2>3. loaded' \in [DOMAIN chain' -> BOOLEAN]
      BY <2>1, <2>2
    <2>4. \A k \in 1..Len(chain) : chain'[k] = chain[k] /\ loaded'[k] = loaded[k]
      <3>1. \A k \in 1..Len(chain) : chain'[k] = chain[k]
        BY <1>1, <1>2
      <3>2. \A k \in 1..Len(loaded) : loaded'[k] = loaded[k]
        <4>1. FALSE \in BOOLEAN
          OBVIOUS
        <4>2. \A k \in 1..Len(loaded) : Append(loaded, FALSE)[k] = loaded[k]
          BY <1>2, <4>1, AppendKeeps
        <4> QED BY <1>1, <4>2, Zenon
      <3> QED BY <1>2, <3>1, <3>2
    <2>5. chain'[Len(chain) + 1] = e /\ loaded'[Len(chain) + 1] = FALSE
      BY <1>1, <1>2
    <2>6. DOMAIN chain = 1..Len(chain)
      BY <1>2
    <2> QED BY <2>1, <2>2, <2>3, <2>4, <2>5, <2>6
  <1>4. Chain!TypeOK'
    BY <1>1, <1>3 DEF Chain!TypeOK, Chain!TaskOK
  <1>5. Distinct(chain) /\ Distinct(chain')
    <2>1. Distinct(chain)
      BY ChainLibrary DEF Chain!ChainInv
    <2> QED BY <1>1, <1>2, <2>1, DistinctAppend
  <1>6. Chain!FlagsTell'
    <2>1. ASSUME NEW k \in DOMAIN chain', loaded'[k] PROVE setup'[chain'[k]] = "up"
      BY <1>1, <1>3, <2>1 DEF Chain!ChainInv, Chain!FlagsTell, Chain!Idle
    <2>2. ASSUME NEW f \in Extensions, setup'[f] = "up"
          PROVE  \E k \in DOMAIN chain' : chain'[k] = f /\ loaded'[k]
      <3>1. PICK k \in DOMAIN chain : chain[k] = f /\ loaded[k]
        BY <1>1, <2>2 DEF Chain!ChainInv, Chain!FlagsTell, Chain!Idle
      <3> QED BY <1>3, <3>1
    <2> QED BY <2>1, <2>2 DEF Chain!FlagsTell
  <1> QED
    BY <1>1, <1>4, <1>5, <1>6, ChainLibrary
       DEF Chain!ChainInv, Chain!Idle, Chain!LoadsRest, Chain!ShutdownRest,
           Chain!AllSetUp, Chain!PassShows, Chain!VettedValue

LEMMA ChainSend ==
  ASSUME Chain!TypeOK, Chain!ChainInv, Chain!Send
  PROVE  Chain!TypeOK' /\ Chain!ChainInv'
  <1> DEFINE rest == {k \in DOMAIN chain : ~loaded[k]}
             left == Keep(Chain!Positions, rest)
  <1>1. Chain!Pending = left
    BY ChainLibrary DEF Chain!Pending
  <1>2. left \in Seq(Nat) /\ ToSet(left) = rest /\ Distinct(left)
    BY PositionsKept
  <1> HIDE DEF left
  <1>3. /\ task = Chain!Idle /\ UNCHANGED <<chain, loaded, errors, setup, seen>>
        /\ sends' = sends + 1
        /\ task' = IF left = <<>> THEN Chain!Turn
                   ELSE [kind |-> "load", left |-> left, failed |-> {}]
    BY <1>1 DEF Chain!Send, Chain!session
  <1>4. sends' \in Nat
    BY <1>3 DEF Chain!TypeOK
  <1>5. CASE left = <<>>
    <2>1. \A k \in DOMAIN chain : loaded[k]
      BY <1>2, <1>5 DEF ToSet
    <2>2. task' = Chain!Turn
      BY <1>3, <1>5
    <2> QED
      BY <1>3, <1>4, <2>1, <2>2, ChainTalks
         DEF Chain!TaskOK, Chain!Turn, Chain!Idle, Chain!PassShows, Chain!VettedValue
  <1>6. CASE left # <<>>
    <2>1. task' = [kind |-> "load", left |-> left, failed |-> {}]
      BY <1>3, <1>6
    <2>2. Chain!TypeOK'
      BY <1>2, <1>3, <1>4, <2>1 DEF Chain!TypeOK, Chain!TaskOK
    <2>3. Chain!LoadsRest'
      BY <1>2, <1>3, <2>1, ChainLibrary DEF Chain!LoadsRest
    <2>4. Chain!FlagsTell' /\ Chain!IsInjective(chain)'
      BY <1>3 DEF Chain!ChainInv, Chain!FlagsTell, Chain!Idle, Chain!IsInjective
    <2> QED
      BY <2>1, <2>2, <2>3, <2>4
         DEF Chain!ChainInv, Chain!ShutdownRest, Chain!AllSetUp, Chain!PassShows,
             Chain!VettedValue
  <1> QED BY <1>5, <1>6

LEMMA ChainLoads ==
  ASSUME Chain!TypeOK, Chain!ChainInv, NEW ok \in BOOLEAN, Chain!Loads(ok)
  PROVE  Chain!TypeOK' /\ Chain!ChainInv'
  <1> DEFINE k == Head(task.left)
  <1>1. /\ task.kind = "load" /\ task.left # <<>>
        /\ setup' = [setup EXCEPT ![chain[k]] = IF ok THEN "up" ELSE "failed"]
        /\ loaded' = IF ok THEN [loaded EXCEPT ![k] = TRUE] ELSE loaded
        /\ errors' = IF ok THEN errors ELSE Append(errors, chain[k])
        /\ task' = [task EXCEPT !.left = Tail(@),
                                !.failed = IF ok THEN @ ELSE @ \cup {k}]
        /\ chain' = chain /\ seen' = seen /\ sends' = sends
    BY DEF Chain!Loads
  <1>2. task \in [kind : {"load"}, left : Seq(Nat), failed : SUBSET Nat]
    BY <1>1 DEF Chain!TypeOK, Chain!TaskOK, Chain!Idle, Chain!Gone, Chain!Turn
  <1>3. /\ Distinct(task.left) /\ ToSet(task.left) \cap task.failed = {}
        /\ ToSet(task.left) \cup task.failed = {j \in DOMAIN chain : ~loaded[j]}
    BY <1>1, ChainLibrary DEF Chain!ChainInv, Chain!LoadsRest
  <1>4. /\ Tail(task.left) \in Seq(Nat) /\ k \in Nat /\ Distinct(Tail(task.left))
        /\ ToSet(task.left) = {k} \cup ToSet(Tail(task.left))
        /\ k \notin ToSet(Tail(task.left))
    BY <1>1, <1>2, <1>3, HeadAndTail
  <1> HIDE DEF k
  <1>5. k \in DOMAIN chain /\ ~loaded[k] /\ chain[k] \in Extensions
    <2>1. k \in {j \in DOMAIN chain : ~loaded[j]}
      BY <1>3, <1>4
    <2> QED BY <2>1 DEF Chain!TypeOK
  <1>6. /\ task'.kind = "load" /\ task'.left = Tail(task.left)
        /\ task'.failed = IF ok THEN task.failed ELSE task.failed \cup {k}
        /\ task' \in [kind : {"load"}, left : Seq(Nat), failed : SUBSET Nat]
    BY <1>1, <1>2, <1>4
  <1>7. /\ setup' \in [Extensions -> {"new", "up", "failed", "down"}]
        /\ setup'[chain[k]] = IF ok THEN "up" ELSE "failed"
        /\ \A e \in Extensions : e # chain[k] => setup'[e] = setup[e]
        /\ loaded' \in [DOMAIN chain -> BOOLEAN] /\ (loaded'[k] <=> ok)
        /\ \A j \in DOMAIN chain : j # k => loaded'[j] = loaded[j]
        /\ errors' \in Seq(Extensions)
    <2>1. /\ setup \in [Extensions -> {"new", "up", "failed", "down"}]
          /\ loaded \in [DOMAIN chain -> BOOLEAN] /\ errors \in Seq(Extensions)
      BY DEF Chain!TypeOK
    <2>2. /\ setup' \in [Extensions -> {"new", "up", "failed", "down"}]
          /\ setup'[chain[k]] = IF ok THEN "up" ELSE "failed"
          /\ \A e \in Extensions : e # chain[k] => setup'[e] = setup[e]
      BY <1>1, <1>5, <2>1
    <2>3. /\ loaded' \in [DOMAIN chain -> BOOLEAN]
          /\ \A j \in DOMAIN chain : j # k => loaded'[j] = loaded[j]
      BY <1>1, <1>5, <2>1
    <2>4. loaded'[k] <=> ok
      BY <1>1, <1>5, <2>1
    <2>5. errors' \in Seq(Extensions)
      BY <1>1, <1>5, <2>1
    <2> QED BY <2>2, <2>3, <2>4, <2>5
  <1>8. Chain!TypeOK'
    BY <1>1, <1>6, <1>7 DEF Chain!TypeOK, Chain!TaskOK
  <1>9. Chain!LoadsRest'
    <2>1. {j \in DOMAIN chain : ~loaded'[j]} =
            IF ok THEN {j \in DOMAIN chain : ~loaded[j]} \ {k}
                  ELSE {j \in DOMAIN chain : ~loaded[j]}
      BY <1>5, <1>7
    <2>2. ToSet(task'.left) \cup task'.failed = {j \in DOMAIN chain : ~loaded'[j]}
      BY <1>3, <1>4, <1>6, <2>1
    <2>3. ToSet(task'.left) \cap task'.failed = {}
      BY <1>3, <1>4, <1>6
    <2> QED BY <1>1, <1>4, <1>6, <2>2, <2>3, ChainLibrary DEF Chain!LoadsRest
  <1>10. Chain!FlagsTell'
    <2>1. \A i, j \in DOMAIN chain : chain[i] = chain[j] => i = j
      BY DEF Chain!ChainInv, Chain!IsInjective
    <2>2. \A j \in DOMAIN chain : chain[j] \in Extensions
      BY DEF Chain!TypeOK
    <2>3. ASSUME NEW j \in DOMAIN chain, loaded'[j] PROVE setup'[chain[j]] = "up"
      <3>1. CASE j = k
        BY <1>7, <2>3, <3>1
      <3>2. CASE j # k
        <4>1. loaded[j] /\ chain[j] # chain[k]
          BY <1>5, <1>7, <2>1, <2>3, <3>2
        <4> QED BY <1>1, <1>7, <2>2, <4>1 DEF Chain!ChainInv, Chain!FlagsTell
      <3> QED BY <3>1, <3>2
    <2>4. ASSUME NEW e \in Extensions, setup'[e] = "up"
          PROVE  \E j \in DOMAIN chain : chain[j] = e /\ loaded'[j]
      <3>1. CASE e = chain[k]
        BY <1>5, <1>7, <2>4, <3>1
      <3>2. CASE e # chain[k]
        <4>1. setup[e] = "up"
          BY <1>7, <2>4, <3>2
        <4>2. PICK j \in DOMAIN chain : chain[j] = e /\ loaded[j]
          BY <1>1, <4>1 DEF Chain!ChainInv, Chain!FlagsTell
        <4> QED BY <1>5, <1>7, <4>2
      <3> QED BY <3>1, <3>2
    <2> QED BY <1>1, <2>3, <2>4 DEF Chain!FlagsTell
  <1> QED
    BY <1>1, <1>6, <1>8, <1>9, <1>10
       DEF Chain!ChainInv, Chain!IsInjective, Chain!ShutdownRest, Chain!AllSetUp,
           Chain!PassShows, Chain!VettedValue

\* The extensions that failed leave; the others keep their flags.
LEMMA ChainAllLoaded ==
  ASSUME Chain!TypeOK, Chain!ChainInv, Chain!AllLoaded
  PROVE  Chain!TypeOK' /\ Chain!ChainInv'
  <1> DEFINE kept == Keep(Chain!Positions, DOMAIN chain \ task.failed)
  <1>1. /\ kept \in Seq(Nat) /\ Distinct(kept)
        /\ ToSet(kept) = DOMAIN chain \cap (DOMAIN chain \ task.failed)
    BY PositionsKept
  <1>2. /\ task.kind = "load" /\ task.left = <<>> /\ task' = Chain!Turn
        /\ chain' = [i \in DOMAIN kept |-> chain[kept[i]]]
        /\ loaded' = [i \in DOMAIN kept |-> loaded[kept[i]]]
        /\ UNCHANGED <<errors, setup, seen, sends>>
    BY ChainLibrary DEF Chain!AllLoaded, Chain!Kept
  <1> HIDE DEF kept
  <1>3. ToSet(kept) = {j \in DOMAIN chain : loaded[j]}
    <2>1. ToSet(task.left) \cup task.failed = {j \in DOMAIN chain : ~loaded[j]}
      BY <1>2, ChainLibrary DEF Chain!ChainInv, Chain!LoadsRest
    <2>2. ToSet(<<>>) = {}
      BY DEF ToSet
    <2>3. task.failed = {j \in DOMAIN chain : ~loaded[j]}
      BY <1>2, <2>1, <2>2
    <2> QED BY <1>1, <2>3
  <1>4. /\ DOMAIN kept = 1..Len(kept) /\ Len(kept) \in Nat
        /\ \A i \in DOMAIN kept : kept[i] \in DOMAIN chain /\ loaded[kept[i]]
        /\ \A j \in DOMAIN chain : loaded[j] => \E i \in DOMAIN kept : kept[i] = j
    <2>1. DOMAIN kept = 1..Len(kept) /\ Len(kept) \in Nat
      BY <1>1
    <2> QED BY <1>3, <2>1 DEF ToSet
  <1>5. chain \in Seq(Extensions) /\ \A j \in DOMAIN chain : chain[j] \in Extensions
    BY DEF Chain!TypeOK
  <1>6. /\ chain' \in Seq(Extensions) /\ DOMAIN chain' = DOMAIN kept
        /\ loaded' \in [DOMAIN chain' -> BOOLEAN]
        /\ \A i \in DOMAIN chain' : chain'[i] = chain[kept[i]] /\ loaded'[i] = TRUE
    <2>1. DOMAIN chain' = DOMAIN kept /\ DOMAIN loaded' = DOMAIN kept
      BY <1>2
    <2>2. \A i \in DOMAIN kept : chain'[i] = chain[kept[i]] /\ chain'[i] \in Extensions
      BY <1>2, <1>4, <1>5
    <2>3. \A i \in DOMAIN kept : loaded'[i] = TRUE
      BY <1>2, <1>4 DEF Chain!TypeOK
    <2>4. chain' \in Seq(Extensions)
      BY <1>2, <1>4, <2>1, <2>2
    <2>5. loaded' \in [DOMAIN chain' -> BOOLEAN]
      BY <1>2, <2>1, <2>3
    <2> QED BY <2>1, <2>2, <2>3, <2>4, <2>5
  <1>7. Chain!TypeOK'
    BY <1>2, <1>6 DEF Chain!TypeOK, Chain!TaskOK
  <1>8. Chain!IsInjective(chain)'
    <2>1. \A i, j \in DOMAIN chain : chain[i] = chain[j] => i = j
      BY DEF Chain!ChainInv, Chain!IsInjective
    <2>2. \A i, j \in DOMAIN chain' : chain'[i] = chain'[j] => i = j
      BY <1>1, <1>4, <1>6, <2>1 DEF Distinct
    <2> QED BY <2>2 DEF Chain!IsInjective
  <1>9. Chain!FlagsTell'
    <2>1. ASSUME NEW i \in DOMAIN chain' PROVE setup'[chain'[i]] = "up"
      BY <1>2, <1>4, <1>6, <2>1 DEF Chain!ChainInv, Chain!FlagsTell
    <2>2. ASSUME NEW e \in Extensions, setup'[e] = "up"
          PROVE  \E i \in DOMAIN chain' : chain'[i] = e /\ loaded'[i]
      <3>1. PICK j \in DOMAIN chain : chain[j] = e /\ loaded[j]
        BY <1>2, <2>2 DEF Chain!ChainInv, Chain!FlagsTell
      <3>2. PICK i \in DOMAIN kept : kept[i] = j
        BY <1>4, <3>1
      <3> QED BY <1>6, <3>1, <3>2
    <2> QED BY <2>1, <2>2 DEF Chain!FlagsTell
  <1>10. Chain!AllSetUp'
    BY <1>6 DEF Chain!AllSetUp
  <1> QED
    BY <1>2, <1>7, <1>8, <1>9, <1>10
       DEF Chain!ChainInv, Chain!Turn, Chain!LoadsRest, Chain!ShutdownRest,
           Chain!PassShows, Chain!VettedValue

\* A hook that is under way, with the one that answers next.
LEMMA HookParts ==
  ASSUME Chain!TypeOK, Chain!ChainInv, task.kind = "hook"
  PROVE  /\ task \in [kind : {"hook"}, hook : Chain!Hooks, round : Nat,
                      at : Nat \ {0}, value : Values, changed : BOOLEAN,
                      notes : Seq(Extensions)]
         /\ \A k \in DOMAIN chain : loaded[k]
         /\ task.at <= Len(Chain!Asked(task.hook)) + 1
         /\ task.at <= Len(Chain!Asked(task.hook)) =>
              Chain!Asked(task.hook)[task.at] \in Extensions
  <1>1. task \in [kind : {"hook"}, hook : Chain!Hooks, round : Nat,
                  at : Nat \ {0}, value : Values, changed : BOOLEAN,
                  notes : Seq(Extensions)]
    BY DEF Chain!TypeOK, Chain!TaskOK, Chain!Idle, Chain!Gone, Chain!Turn
  <1>2. /\ \A k \in DOMAIN chain : loaded[k]
        /\ task.at <= Len(Chain!Asked(task.hook)) + 1
    BY DEF Chain!ChainInv, Chain!AllSetUp, Chain!PassShows
  <1>3. Chain!Asked(task.hook) \in Seq(Extensions)
    BY AskedParts
  <1> QED BY <1>1, <1>2, <1>3

\* What was shown after one more answer.
LEMMA ShownNext ==
  ASSUME Chain!TypeOK, Chain!ChainInv, task.kind = "hook",
         task.at <= Len(Chain!Asked(task.hook)), ~task.changed,
         Chain!Answered(task.value)
  PROVE  \A j \in 1..task.at : /\ Chain!Asked(task.hook)[j] \in DOMAIN seen'
                               /\ seen'[Chain!Asked(task.hook)[j]] = task.value
  <1> DEFINE e == Chain!Asked(task.hook)[task.at]
  <1>1. seen' = [d \in DOMAIN seen \cup {e} |-> IF d = e THEN task.value ELSE seen[d]]
    BY DEF Chain!Answered
  <1>2. task.at \in Nat \ {0}
    BY HookParts
  <1>3. \A j \in 1..(task.at - 1) : /\ Chain!Asked(task.hook)[j] \in DOMAIN seen
                                    /\ seen[Chain!Asked(task.hook)[j]] = task.value
    BY DEF Chain!ChainInv, Chain!PassShows
  <1> SUFFICES ASSUME NEW j \in 1..task.at
               PROVE  /\ Chain!Asked(task.hook)[j] \in DOMAIN seen'
                      /\ seen'[Chain!Asked(task.hook)[j]] = task.value
    OBVIOUS
  <1>4. CASE j = task.at
    BY <1>1, <1>4
  <1>5. CASE j # task.at
    <2>1. j \in 1..(task.at - 1)
      BY <1>2, <1>5
    <2> QED BY <1>1, <1>3, <2>1
  <1> QED BY <1>4, <1>5

\* An extension answers: it lets the value pass, rewrites it or cancels.
LEMMA ChainHook ==
  ASSUME Chain!TypeOK, Chain!ChainInv,
         Chain!Continues \/ (\E v \in Values : Chain!Replaces(v)) \/ Chain!Cancels
  PROVE  Chain!TypeOK' /\ Chain!ChainInv'
  <1>1. /\ task.kind = "hook" /\ task.at <= Len(Chain!Asked(task.hook))
        /\ Chain!Answered(task.value)
        /\ UNCHANGED <<chain, loaded, errors, setup, sends>>
    BY DEF Chain!Continues, Chain!Replaces, Chain!Cancels, Chain!session
  <1>2. /\ task \in [kind : {"hook"}, hook : Chain!Hooks, round : Nat,
                     at : Nat \ {0}, value : Values, changed : BOOLEAN,
                     notes : Seq(Extensions)]
        /\ \A k \in DOMAIN chain : loaded[k]
        /\ Chain!Asked(task.hook)[task.at] \in Extensions
    BY <1>1, HookParts
  <1>3. sends' \in Nat
    BY <1>1 DEF Chain!TypeOK
  <1>4. CASE Chain!Continues
    <2>1. PICK notes \in {task.notes} \cup
                 (IF task.hook = "user"
                    THEN {Chain!Note(task.notes, Chain!Asked("user")[task.at])} ELSE {}) :
            task' = [task EXCEPT !.at = @ + 1, !.notes = notes]
      BY <1>4 DEF Chain!Continues
    <2>2. notes \in Seq(Extensions)
      BY <1>2, <2>1 DEF Chain!Note
    <2>3. /\ task' \in [kind : {"hook"}, hook : Chain!Hooks, round : Nat,
                        at : Nat \ {0}, value : Values, changed : BOOLEAN,
                        notes : Seq(Extensions)]
          /\ task'.kind = "hook" /\ task'.hook = task.hook /\ task'.at = task.at + 1
          /\ task'.value = task.value /\ task'.changed = task.changed
      <3>1. /\ task'.kind = "hook" /\ task'.hook = task.hook /\ task'.at = task.at + 1
            /\ task'.value = task.value /\ task'.changed = task.changed
        BY <1>2, <2>1
      <3>2. task'.at \in Nat \ {0}
        BY <1>2, <3>1
      <3> QED BY <1>2, <2>1, <2>2, <3>1, <3>2
    <2>4. Chain!Asked(task.hook)' = Chain!Asked(task.hook)
      BY <1>1, <2>3 DEF Chain!Asked
    <2>5. Chain!PassShows'
      <3>1. ~task'.changed =>
              \A j \in 1..(task'.at - 1) :
                /\ Chain!Asked(task.hook)[j] \in DOMAIN seen'
                /\ seen'[Chain!Asked(task.hook)[j]] = task'.value
        BY <1>1, <1>2, <2>3, ShownNext
      <3>2. task'.at <= Len(Chain!Asked(task.hook)) + 1
        <4>1. Len(Chain!Asked(task.hook)) \in Nat
          BY AskedParts
        <4> QED BY <1>1, <1>2, <2>3, <4>1
      <3> QED BY <2>4, <3>1, <3>2 DEF Chain!PassShows
    <2> QED
      BY <1>1, <1>2, <1>3, <2>3, <2>5, ChainTalks DEF Chain!TaskOK, Chain!VettedValue
  <1>5. CASE \E v \in Values : Chain!Replaces(v)
    <2>1. PICK v \in Values :
            task' = [task EXCEPT !.at = @ + 1, !.value = v, !.changed = TRUE]
      BY <1>5 DEF Chain!Replaces
    <2>2. /\ task' \in [kind : {"hook"}, hook : Chain!Hooks, round : Nat,
                        at : Nat \ {0}, value : Values, changed : BOOLEAN,
                        notes : Seq(Extensions)]
          /\ task'.kind = "hook" /\ task'.hook = task.hook /\ task'.at = task.at + 1
          /\ task'.changed
      <3>1. /\ task'.kind = "hook" /\ task'.hook = task.hook /\ task'.at = task.at + 1
            /\ task'.value = v /\ task'.changed
        BY <1>2, <2>1
      <3>2. task'.at \in Nat \ {0}
        BY <1>2, <3>1
      <3> QED BY <1>2, <2>1, <3>1, <3>2
    <2>3. Chain!Asked(task.hook)' = Chain!Asked(task.hook)
      BY <1>1, <2>2 DEF Chain!Asked
    <2>4. Chain!PassShows'
      <3>1. Len(Chain!Asked(task.hook)) \in Nat
        BY AskedParts
      <3> QED BY <1>1, <1>2, <2>2, <2>3, <3>1 DEF Chain!PassShows
    <2> QED
      BY <1>1, <1>2, <1>3, <2>2, <2>4, ChainTalks DEF Chain!TaskOK, Chain!VettedValue
  <1>6. CASE Chain!Cancels
    <2>1. task' = [kind |-> "verdict", hook |-> task.hook, verdict |-> "cancel",
                   value |-> task.value]
      BY <1>6 DEF Chain!Cancels, Chain!Result
    <2>2. Chain!TaskOK'
      BY <1>2, <2>1 DEF Chain!TaskOK
    <2> QED
      BY <1>1, <1>2, <1>3, <2>1, <2>2, ChainTalks DEF Chain!PassShows, Chain!VettedValue
  <1> QED BY <1>4, <1>5, <1>6

\* The last one asked has answered: another round, or the verdict.
LEMMA ChainEndPass ==
  ASSUME Chain!TypeOK, Chain!ChainInv, Chain!EndPass
  PROVE  Chain!TypeOK' /\ Chain!ChainInv'
  <1>1. /\ task.kind = "hook" /\ task.at > Len(Chain!Asked(task.hook))
        /\ task' = IF task.hook \in {"user", "before"} /\ task.changed
                     THEN IF task.round < MaxRounds
                            THEN [task EXCEPT !.round = @ + 1, !.at = 1, !.changed = FALSE]
                            ELSE Chain!Result("cancel", task.value)
                     ELSE Chain!Result("go", task.value)
        /\ UNCHANGED <<chain, loaded, errors, setup, seen, sends>>
    BY DEF Chain!EndPass, Chain!session
  <1>2. /\ task \in [kind : {"hook"}, hook : Chain!Hooks, round : Nat,
                     at : Nat \ {0}, value : Values, changed : BOOLEAN,
                     notes : Seq(Extensions)]
        /\ \A k \in DOMAIN chain : loaded[k]
        /\ task.at <= Len(Chain!Asked(task.hook)) + 1
    BY <1>1, HookParts
  <1>3. sends' \in Nat
    BY <1>1 DEF Chain!TypeOK
  <1>4. Len(Chain!Asked(task.hook)) \in Nat
    BY AskedParts
  <1>5. CASE task.hook \in {"user", "before"} /\ task.changed /\ task.round < MaxRounds
    <2>1. task' = [task EXCEPT !.round = @ + 1, !.at = 1, !.changed = FALSE]
      BY <1>1, <1>5
    <2>2. /\ task' \in [kind : {"hook"}, hook : Chain!Hooks, round : Nat,
                        at : Nat \ {0}, value : Values, changed : BOOLEAN,
                        notes : Seq(Extensions)]
          /\ task'.kind = "hook" /\ task'.hook = task.hook /\ task'.at = 1
      <3>1. /\ task'.kind = "hook" /\ task'.hook = task.hook /\ task'.at = 1
            /\ task'.round = task.round + 1
        BY <1>2, <2>1
      <3>2. task.round + 1 \in Nat
        BY <1>2
      <3>3. task' = [kind |-> "hook", hook |-> task.hook, round |-> task.round + 1,
                     at |-> 1, value |-> task.value, changed |-> FALSE,
                     notes |-> task.notes]
        BY <1>2, <2>1
      <3> QED BY <1>2, <3>1, <3>2, <3>3
    <2>3. Chain!Asked(task.hook)' = Chain!Asked(task.hook)
      BY <1>1, <2>2 DEF Chain!Asked
    <2>4. Chain!PassShows'
      BY <1>4, <2>2, <2>3 DEF Chain!PassShows
    <2> QED
      BY <1>1, <1>2, <1>3, <2>2, <2>4, ChainTalks DEF Chain!TaskOK, Chain!VettedValue
  <1>6. CASE task.hook \in {"user", "before"} /\ task.changed /\ ~(task.round < MaxRounds)
    <2>1. task' = [kind |-> "verdict", hook |-> task.hook, verdict |-> "cancel",
                   value |-> task.value]
      BY <1>1, <1>6 DEF Chain!Result
    <2>2. Chain!TaskOK'
      BY <1>2, <2>1 DEF Chain!TaskOK
    <2> QED
      BY <1>1, <1>2, <1>3, <2>1, <2>2, ChainTalks DEF Chain!PassShows, Chain!VettedValue
  <1>7. CASE ~(task.hook \in {"user", "before"} /\ task.changed)
    <2>1. task' = [kind |-> "verdict", hook |-> task.hook, verdict |-> "go",
                   value |-> task.value]
      BY <1>1, <1>7 DEF Chain!Result
    <2>2. Chain!TaskOK'
      BY <1>2, <2>1 DEF Chain!TaskOK
    <2>3. ASSUME task.hook \in {"user", "before"}
          PROVE  \A e \in ToSet(Chain!Asked(task.hook)) :
                   e \in DOMAIN seen /\ seen[e] = task.value
      <3>1. /\ ~task.changed
            /\ Chain!Asked(task.hook) \in Seq(Extensions)
            /\ task.at - 1 = Len(Chain!Asked(task.hook))
        BY <1>1, <1>2, <1>4, <1>7, <2>3, AskedParts
      <3>2. \A j \in 1..(task.at - 1) :
              /\ Chain!Asked(task.hook)[j] \in DOMAIN seen
              /\ seen[Chain!Asked(task.hook)[j]] = task.value
        BY <1>1, <3>1 DEF Chain!ChainInv, Chain!PassShows
      <3> QED BY <3>1, <3>2 DEF ToSet
    <2>4. Chain!VettedValue'
      <3>1. Chain!Asked(task.hook)' = Chain!Asked(task.hook)
        BY <1>1, <2>1 DEF Chain!Asked
      <3>2. Chain!ToSet(Chain!Asked(task.hook)) = ToSet(Chain!Asked(task.hook))
        BY ChainLibrary
      <3> QED BY <1>1, <2>1, <2>3, <3>1, <3>2 DEF Chain!VettedValue
    <2> QED
      BY <1>1, <1>2, <1>3, <2>1, <2>2, <2>4, ChainTalks DEF Chain!PassShows
  <1> QED BY <1>5, <1>6, <1>7

\* A hook is dispatched, and what the turn makes of its verdict.
LEMMA ChainTurn ==
  ASSUME Chain!TypeOK, Chain!ChainInv,
         \/ \E hook \in Chain!Hooks, v \in Values : Chain!Dispatch(hook, v)
         \/ Chain!TurnGoesOn \/ Chain!Returns \/ Chain!DropSend
  PROVE  Chain!TypeOK' /\ Chain!ChainInv'
  <1>1. UNCHANGED <<chain, loaded, errors, setup, sends>>
    BY DEF Chain!Dispatch, Chain!TurnGoesOn, Chain!Returns, Chain!DropSend,
           Chain!session
  <1>2. sends' \in Nat
    BY <1>1 DEF Chain!TypeOK
  <1>3. task.kind \in {"turn", "hook", "verdict"} => \A k \in DOMAIN chain : loaded[k]
    BY DEF Chain!ChainInv, Chain!AllSetUp
  <1>4. ASSUME NEW hook \in Chain!Hooks, NEW v \in Values, Chain!Dispatch(hook, v)
        PROVE  Chain!TypeOK' /\ Chain!ChainInv'
    <2>1. /\ task.kind = "turn"
          /\ task' = [kind |-> "hook", hook |-> hook, round |-> 1, at |-> 1, value |-> v,
                      changed |-> FALSE, notes |-> <<>>]
      BY <1>4 DEF Chain!Dispatch
    <2>2. Chain!TaskOK'
      <3>1. task' \in [kind : {"hook"}, hook : Chain!Hooks, round : Nat,
                       at : Nat \ {0}, value : Values, changed : BOOLEAN,
                       notes : Seq(Extensions)]
        BY <2>1
      <3> QED BY <3>1 DEF Chain!TaskOK
    <2>3. Chain!PassShows'
      <3>1. Chain!Asked(hook)' = Chain!Asked(hook) /\ Len(Chain!Asked(hook)) \in Nat
        BY <1>1, AskedParts DEF Chain!Asked
      <3> QED BY <2>1, <3>1 DEF Chain!PassShows
    <2> QED BY <1>1, <1>2, <1>3, <2>1, <2>2, <2>3, ChainTalks DEF Chain!VettedValue
  <1>5. ASSUME task' \in {Chain!Idle, Chain!Turn},
               task.kind \in {"load", "turn", "hook", "verdict"},
               task' = Chain!Turn => task.kind \in {"turn", "hook", "verdict"}
        PROVE  Chain!TypeOK' /\ Chain!ChainInv'
    <2>1. task'.kind \in {"idle", "turn"} /\ (task'.kind = "turn" => task' = Chain!Turn)
      BY <1>5 DEF Chain!Idle, Chain!Turn
    <2>2. Chain!TaskOK'
      BY <1>5 DEF Chain!TaskOK, Chain!Idle, Chain!Turn
    <2>3. Chain!PassShows' /\ Chain!VettedValue'
      BY <2>1 DEF Chain!PassShows, Chain!VettedValue
    <2> QED BY <1>1, <1>2, <1>3, <1>5, <2>1, <2>2, <2>3, ChainTalks
  <1>6. CASE Chain!TurnGoesOn
    BY <1>5, <1>6 DEF Chain!TurnGoesOn, Chain!Idle, Chain!Turn
  <1>7. CASE Chain!Returns
    BY <1>5, <1>7 DEF Chain!Returns, Chain!Idle, Chain!Turn
  <1>8. CASE Chain!DropSend
    BY <1>5, <1>8 DEF Chain!DropSend, Chain!Idle, Chain!Turn
  <1> QED BY <1>4, <1>6, <1>7, <1>8

\* A session shuts its extensions down, the last of the chain first.
LEMMA ChainShutdown ==
  ASSUME Chain!TypeOK, Chain!ChainInv,
         Chain!Shutdown \/ Chain!ShutsDown \/ Chain!Disposed
  PROVE  Chain!TypeOK' /\ Chain!ChainInv'
  <1>1. /\ chain' = chain /\ errors' = errors /\ sends' = sends /\ seen' = seen
    BY DEF Chain!Shutdown, Chain!ShutsDown, Chain!Disposed, Chain!session
  <1>2. \A k \in DOMAIN chain : chain[k] \in Extensions
    BY DEF Chain!TypeOK
  <1>3. Chain!IsInjective(chain)'
    BY <1>1 DEF Chain!ChainInv, Chain!IsInjective
  <1>4. ASSUME task'.kind \in {"shutdown", "gone"}, Chain!TypeOK', Chain!ShutdownRest'
        PROVE  Chain!TypeOK' /\ Chain!ChainInv'
    BY <1>3, <1>4 DEF Chain!ChainInv, Chain!FlagsTell, Chain!LoadsRest, Chain!AllSetUp,
                      Chain!PassShows, Chain!VettedValue
  <1>5. CASE Chain!Shutdown
    <2> DEFINE up == Keep(Chain!Positions, {k \in DOMAIN chain : loaded[k]})
    <2>1. up \in Seq(Nat) /\ ToSet(up) = {k \in DOMAIN chain : loaded[k]}
      BY PositionsKept
    <2>2. /\ task = Chain!Idle /\ UNCHANGED <<loaded, setup>>
          /\ task' = [kind |-> "shutdown", left |-> Reverse(up)]
      BY <1>5, ChainLibrary DEF Chain!Shutdown, Chain!Loaded, Chain!session
    <2> HIDE DEF up
    <2>3. Reverse(up) \in Seq(Nat) /\ ToSet(Reverse(up)) = {k \in DOMAIN chain : loaded[k]}
      BY <2>1, ReverseParts
    <2>4. Chain!TypeOK'
      BY <1>1, <2>2, <2>3 DEF Chain!TypeOK, Chain!TaskOK
    <2>5. Chain!ShutdownRest'
      <3>1. \A e \in Extensions : setup[e] = "up" =>
              \E k \in DOMAIN chain : chain[k] = e /\ loaded[k]
        BY <2>2 DEF Chain!ChainInv, Chain!FlagsTell, Chain!Idle
      <3> QED BY <1>1, <2>2, <2>3, <3>1, ChainLibrary DEF Chain!ShutdownRest
    <2> QED BY <1>4, <2>2, <2>4, <2>5
  <1>6. CASE Chain!ShutsDown
    <2> DEFINE k == Head(task.left)
    <2>1. /\ task.kind = "shutdown" /\ task.left # <<>> /\ loaded' = loaded
          /\ setup' = [setup EXCEPT ![chain[k]] = "down"]
          /\ task' = [task EXCEPT !.left = Tail(@)]
      BY <1>6 DEF Chain!ShutsDown
    <2>2. task \in [kind : {"shutdown"}, left : Seq(Nat)]
      BY <2>1 DEF Chain!TypeOK, Chain!TaskOK, Chain!Idle, Chain!Gone, Chain!Turn
    <2>3. /\ Tail(task.left) \in Seq(Nat) /\ k \in Nat
          /\ ToSet(task.left) = {k} \cup ToSet(Tail(task.left))
      BY <2>1, <2>2, HeadAndTail
    <2> HIDE DEF k
    <2>4. /\ task' \in [kind : {"shutdown"}, left : Seq(Nat)]
          /\ task'.kind = "shutdown" /\ task'.left = Tail(task.left)
      BY <2>1, <2>2, <2>3
    <2>5. /\ ToSet(task.left) \subseteq DOMAIN chain
          /\ \A e \in Extensions : setup[e] = "up" =>
               \E j \in ToSet(task.left) : chain[j] = e
      BY <2>1, ChainLibrary DEF Chain!ChainInv, Chain!ShutdownRest
    <2>6. k \in DOMAIN chain /\ chain[k] \in Extensions
      BY <1>2, <2>3, <2>5
    <2>7. setup \in [Extensions -> {"new", "up", "failed", "down"}]
      BY DEF Chain!TypeOK
    <2>8. /\ setup' \in [Extensions -> {"new", "up", "failed", "down"}]
          /\ \A e \in Extensions : setup'[e] = IF e = chain[k] THEN "down" ELSE setup[e]
      BY <2>1, <2>6, <2>7
    <2>9. Chain!TypeOK'
      BY <1>1, <2>1, <2>4, <2>8 DEF Chain!TypeOK, Chain!TaskOK
    <2>10. Chain!ShutdownRest'
      <3>1. ASSUME NEW e \in Extensions, setup'[e] = "up"
            PROVE  \E j \in ToSet(task'.left) : chain'[j] = e
        <4>1. e # chain[k] /\ setup[e] = "up"
          BY <2>8, <3>1
        <4>2. PICK j \in ToSet(task.left) : chain[j] = e
          BY <2>5, <4>1
        <4> QED BY <1>1, <2>3, <2>4, <4>1, <4>2
      <3>2. ToSet(task'.left) \subseteq DOMAIN chain'
        BY <1>1, <2>3, <2>4, <2>5
      <3> QED BY <2>4, <3>1, <3>2, ChainLibrary DEF Chain!ShutdownRest
    <2> QED BY <1>4, <2>4, <2>9, <2>10
  <1>7. CASE Chain!Disposed
    <2>1. /\ task.kind = "shutdown" /\ task.left = <<>> /\ setup' = setup
          /\ loaded' = [k \in DOMAIN chain |-> FALSE] /\ task' = Chain!Gone
      BY <1>7 DEF Chain!Disposed
    <2>2. Chain!TypeOK'
      BY <1>1, <2>1 DEF Chain!TypeOK, Chain!TaskOK
    <2>3. \A e \in Extensions : setup[e] # "up"
      <3>1. ToSet(task.left) = {}
        BY <2>1 DEF ToSet
      <3> QED BY <2>1, <3>1, ChainLibrary DEF Chain!ChainInv, Chain!ShutdownRest
    <2>4. Chain!ShutdownRest'
      BY <2>1, <2>3 DEF Chain!ShutdownRest, Chain!Gone
    <2> QED BY <1>4, <2>1, <2>2, <2>4 DEF Chain!Gone
  <1> QED BY <1>5, <1>6, <1>7

LEMMA ChainSteps ==
  ASSUME Chain!TypeOK, Chain!ChainInv, Chain!Next
  PROVE  Chain!TypeOK' /\ Chain!ChainInv'
  BY ChainRegister, ChainSend, ChainLoads, ChainAllLoaded, ChainHook, ChainEndPass,
     ChainTurn, ChainShutdown
     DEF Chain!Next

----------------------------------------------------------------------------
(* In a behaviour about the extensions. *)

ChainHolds == subject = "extensions" => Chain!TypeOK /\ Chain!ChainInv

LEMMA ChainKeeps == ChainHolds /\ [MCNext]_<<subject, vars, slots>> => ChainHolds'
  <1> SUFFICES ASSUME ChainHolds, [MCNext]_<<subject, vars, slots>>,
                      subject' = "extensions"
               PROVE  Chain!TypeOK' /\ Chain!ChainInv'
    BY DEF ChainHolds
  <1>1. CASE ChainStep
    BY <1>1, ChainSteps DEF ChainStep, ChainHolds
  <1>2. CASE UNCHANGED <<subject, vars, slots>>
    <2>1. Chain!TypeOK /\ Chain!ChainInv
      BY <1>2 DEF ChainHolds
    <2>2. UNCHANGED <<chain, loaded, errors, setup, task, seen, sends>>
      BY <1>2 DEF slots, slots1_4, slots5_7
    <2> QED
      BY <2>1, <2>2
         DEF Chain!TypeOK, Chain!TaskOK, Chain!ChainInv, Chain!FlagsTell,
             Chain!LoadsRest, Chain!ShutdownRest, Chain!AllSetUp, Chain!PassShows,
             Chain!VettedValue, Chain!Asked
  <1>3. CASE SubprocessStep \/ FilesStep \/ BashStep \/ StreamsStep
    BY <1>3 DEF SubprocessStep, FilesStep, BashStep, StreamsStep
  <1> QED BY <1>1, <1>2, <1>3 DEF MCNext

LEMMA ChainAlways == MCSpec => []ChainHolds
  <1>1. MCInit => ChainHolds
    BY ChainStarts DEF MCInit, ChainHolds
  <1> QED BY <1>1, ChainKeeps, PTL DEF MCSpec

\* What a dispatch lets through is what every extension asked has last answered
\* about, however often the chain rewrites it (dispatch_before_tool_call and
\* dispatch_user_message).
THEOREM ShownToAll == MCSpec => []VettedValue
  <1>1. ChainHolds => VettedValue
    BY DEF ChainHolds, VettedValue, Chain!ChainInv
  <1> QED BY <1>1, ChainAlways, PTL

\* Hooks find every extension of the chain set up, also after loads that failed
\* or were dropped, and a session that is gone leaves none set up
\* (load_extensions and shutdown_extensions).
THEOREM SetUpServe == MCSpec => []OnlySetUpServe
  <1>1. ASSUME Chain!TypeOK, Chain!ChainInv
        PROVE  Chain!HooksFindSetUp /\ Chain!NoneLeftUp
    <2>1. Chain!HooksFindSetUp
      <3> SUFFICES ASSUME task.kind \in {"turn", "hook", "verdict"},
                          NEW e \in ToSet(chain)
                   PROVE  setup[e] = "up"
        BY ChainLibrary DEF Chain!HooksFindSetUp
      <3>1. PICK k \in DOMAIN chain : e = chain[k]
        BY DEF ToSet
      <3> QED BY <1>1, <3>1 DEF Chain!ChainInv, Chain!AllSetUp, Chain!FlagsTell
    <2>2. Chain!NoneLeftUp
      BY <1>1 DEF Chain!NoneLeftUp, Chain!Gone, Chain!ChainInv, Chain!ShutdownRest
    <2> QED BY <2>1, <2>2
  <1>2. ChainHolds => OnlySetUpServe
    BY <1>1 DEF ChainHolds, OnlySetUpServe
  <1> QED BY <1>2, ChainAlways, PTL

----------------------------------------------------------------------------
(* The bash executor. *)

proc      == slot1
pipes     == slot2
forwarder == slot3
chan      == slot4
place     == slot5
result    == slot6
timed     == slot7
ends      == slot8
wrote     == slot9
USE DEF proc, pipes, forwarder, chan, place, result, timed, ends, wrote

LEMMA BashLibrary ==
  ASSUME NEW s, NEW T
  PROVE  Bash!Keep(s, T) = Keep(s, T) /\ Bash!Min(T) = Min(T)
  <1>1. Bash!Keep(s, T) = Keep(s, T)
    BY DEF Bash!Keep, Keep
  <1>2. Bash!Min(T) = Min(T)
    BY DEF Bash!Min, Min
  <1> QED BY <1>1, <1>2

\* The pieces of one stream among those of both.
LEMMA OfParts ==
  ASSUME NEW o \in Seq(Bash!AnyPiece), NEW s \in Bash!Streams
  PROVE  /\ Bash!Of(o, s) \in Seq(Bash!AnyPiece)
         /\ Bash!Of(<<>>, s) = <<>>
         /\ \A x \in Bash!AnyPiece :
              Bash!Of(Append(o, x), s) =
                IF x.from = s THEN Append(Bash!Of(o, s), x) ELSE Bash!Of(o, s)
  <1>1. /\ Bash!Of(o, s) = Keep(o, Bash!Pieces(s))
        /\ Bash!Of(<<>>, s) = Keep(<<>>, Bash!Pieces(s))
        /\ \A x : Bash!Of(Append(o, x), s) = Keep(Append(o, x), Bash!Pieces(s))
    BY BashLibrary DEF Bash!Of
  <1>2. \A x \in Bash!AnyPiece : x \in Bash!Pieces(s) <=> x.from = s
    BY DEF Bash!AnyPiece, Bash!Pieces
  <1> QED BY <1>1, <1>2, KeepInSeq, KeepEmpty, KeepAppend

\* A suffix of the output has a suffix of each stream.
LEMMA SuffixOf ==
  ASSUME NEW o \in Seq(Bash!AnyPiece), NEW s \in Bash!Streams, NEW m \in 0..Len(o)
  PROVE  Bash!IsSuffix(Bash!Of(SubSeq(o, Len(o) - m + 1, Len(o)), s), Bash!Of(o, s))
  <1> DEFINE n == Len(o) - m
             front == SubSeq(o, 1, n)
             back  == SubSeq(o, n + 1, Len(o))
             f == Bash!Of(front, s)
             b == Bash!Of(back, s)
  <1>1. n \in 0..Len(o) /\ Len(o) \in Nat
    OBVIOUS
  <1>2. front \in Seq(Bash!AnyPiece) /\ back \in Seq(Bash!AnyPiece)
    BY <1>1
  <1>3. o = front \o back
    <2>1. SubSeq(o, 1, Len(o)) = o
      BY SubSeqFull
    <2>2. 1 \in 1..(Len(o) + 1) /\ n \in (1 - 1)..Len(o) /\ Len(o) \in n..Len(o)
      BY <1>1
    <2>3. front \o back = SubSeq(o, 1, Len(o))
      <3> HIDE DEF n
      <3> QED BY <2>2, ConcatAdjacentSubSeq
    <2> QED BY <2>1, <2>3
  <1> HIDE DEF front, back
  <1>4. Bash!Of(o, s) = f \o b /\ f \in Seq(Bash!AnyPiece) /\ b \in Seq(Bash!AnyPiece)
    <2>1. Keep(o, Bash!Pieces(s)) = Keep(front, Bash!Pieces(s)) \o Keep(back, Bash!Pieces(s))
      BY <1>2, <1>3, KeepConcat
    <2> QED BY <1>2, <2>1, OfParts, BashLibrary DEF Bash!Of
  <1> HIDE DEF f, b
  <1>5. Len(b) <= Len(f \o b) /\ b = SubSeq(f \o b, Len(f \o b) - Len(b) + 1, Len(f \o b))
    BY <1>4
  <1> QED BY <1>4, <1>5 DEF Bash!IsSuffix, b, back, n

\* What truncate_tail_bytes leaves of a long output is its tail, at least half
\* of what is allowed.
LEMMA TruncatedTail ==
  ASSUME NEW o \in Seq(Bash!AnyPiece), Len(o) > MaxBytes
  PROVE  \E m \in MaxBytes \div 2 .. MaxBytes :
           /\ m \in 0..Len(o)
           /\ Bash!TruncateTail(o) = SubSeq(o, Len(o) - m + 1, Len(o))
  <1> DEFINE cut == Len(o) - MaxBytes
             newlines == {i \in cut + 1 .. Len(o) : o[i].newline}
             first == Min(newlines)
  <1>1. /\ MaxBytes \in Nat /\ Len(o) \in Nat /\ cut \in 1..Len(o)
        /\ MaxBytes \div 2 \in 0..MaxBytes
    BY ToolsAssumption
  <1>2. Bash!TruncateTail(o) =
          IF newlines # {} /\ Len(o) - first >= MaxBytes \div 2
            THEN SubSeq(o, first + 1, Len(o)) ELSE SubSeq(o, cut + 1, Len(o))
    BY <1>1, BashLibrary DEF Bash!TruncateTail
  <1>3. newlines # {} => first \in newlines
    <2>1. newlines \subseteq Nat
      BY <1>1
    <2> HIDE DEF newlines
    <2> QED BY <2>1, MinOfPlaces
  <1> HIDE DEF newlines, first
  <1>4. CASE newlines # {} /\ Len(o) - first >= MaxBytes \div 2
    <2>1. first \in cut + 1 .. Len(o)
      BY <1>3, <1>4 DEF newlines
    <2> DEFINE m == Len(o) - first
    <2>2. m \in MaxBytes \div 2 .. MaxBytes /\ m \in 0..Len(o) /\ Len(o) - m = first
      BY <1>1, <1>4, <2>1
    <2> QED BY <1>2, <1>4, <2>2
  <1>5. CASE ~(newlines # {} /\ Len(o) - first >= MaxBytes \div 2)
    <2>1. /\ MaxBytes \in MaxBytes \div 2 .. MaxBytes /\ MaxBytes \in 0..Len(o)
      BY <1>1
    <2> QED BY <1>2, <1>5, <2>1
  <1> QED BY <1>4, <1>5

LEMMA ConcatAppend ==
  ASSUME NEW S, NEW s \in Seq(S), NEW t \in Seq(S), NEW x \in S
  PROVE  s \o Append(t, x) = Append(s \o t, x)
  OBVIOUS

LEMMA ConcatHead ==
  ASSUME NEW S, NEW s \in Seq(S), NEW t \in Seq(S), t # <<>>
  PROVE  Append(s, Head(t)) \o Tail(t) = s \o t
  OBVIOUS

LEMMA BashStarts == Bash!Init => Bash!TypeOK /\ Bash!BashInv
  <1> SUFFICES ASSUME Bash!Init PROVE Bash!TypeOK /\ Bash!BashInv
    OBVIOUS
  <1>1. /\ proc = [p \in Bash!Processes |-> "none"]
        /\ pipes = [s \in Bash!Streams |-> <<>>] /\ wrote = [s \in Bash!Streams |-> <<>>]
        /\ forwarder = [s \in Bash!Streams |-> "ended"]
        /\ chan = <<>> /\ place = "new"
    BY DEF Bash!Init
  <1>2. Bash!TypeOK
    BY <1>1 DEF Bash!TypeOK
  <1>3. Bash!NothingLost
    <2>1. \A s \in Bash!Streams : Bash!Of(chan, s) = <<>>
      BY <1>1, <1>2, OfParts DEF Bash!TypeOK
    <2>2. \A s \in Bash!Streams : Bash!Of(chan, s) \o pipes[s] = wrote[s]
      BY <1>1, <2>1
    <2>3. \A s \in Bash!Streams : pipes[s] \in Seq(Bash!Pieces(s)) /\ wrote[s] \in Seq(Bash!Pieces(s))
      BY <1>1
    <2> QED BY <1>1, <2>2, <2>3 DEF Bash!NothingLost, Bash!Steps
  <1>4. Bash!Waited
    BY <1>1 DEF Bash!Waited, Bash!Silent, Bash!Alive, Bash!Processes
  <1> QED BY <1>1, <1>2, <1>3, <1>4 DEF Bash!BashInv, Bash!OutputWhole

\* While a process is alive the call has seen neither pipe end, so what the
\* processes do is safe as long as the pipes take all that is written.
LEMMA ProcessKeeps ==
  ASSUME Bash!BashInv, ~Bash!Silent, UNCHANGED <<forwarder, chan, place, result>>,
         Bash!Alive("shell")' => Bash!Alive("shell"),
         \A s \in Bash!Streams : /\ pipes'[s] \in Seq(Bash!Pieces(s))
                                 /\ wrote'[s] \in Seq(Bash!Pieces(s)),
         place # "returned" =>
           \A s \in Bash!Streams : Bash!Of(chan, s) \o pipes'[s] = wrote'[s]
  PROVE  Bash!BashInv'
  <1>1. \A s \in Bash!Streams : place \in Bash!Steps => forwarder[s] # "ended"
    BY DEF Bash!BashInv, Bash!NothingLost
  <1>2. place \notin {"new", "err", "drain"} /\ (place = "returned" => result.how # "done")
    BY <1>1 DEF Bash!BashInv, Bash!Waited, Bash!Steps, Bash!Streams
  <1>3. Bash!NothingLost'
    <2>1. \A s \in Bash!Streams : Bash!Of(chan, s)' = Bash!Of(chan, s)
      BY DEF Bash!Of
    <2> QED BY <1>1, <2>1 DEF Bash!NothingLost
  <1>4. Bash!Waited'
    BY <1>2 DEF Bash!BashInv, Bash!Waited
  <1>5. Bash!OutputWhole'
    BY <1>2 DEF Bash!BashInv, Bash!OutputWhole
  <1> QED BY <1>3, <1>4, <1>5 DEF Bash!BashInv

LEMMA BashProcess ==
  ASSUME Bash!TypeOK, Bash!BashInv,
         Bash!StartsChild \/ (\E p \in Bash!Processes : Bash!Ends(p))
  PROVE  Bash!TypeOK' /\ Bash!BashInv'
  <1>1. UNCHANGED <<pipes, forwarder, chan, place, result, wrote>>
    BY DEF Bash!StartsChild, Bash!Ends
  <1>2. proc \in [Bash!Processes -> {"none", "running", "ended"} \cup Bash!Streams]
    BY DEF Bash!TypeOK
  <1>3. ~Bash!Silent
    BY DEF Bash!Silent, Bash!Alive, Bash!StartsChild, Bash!Ends, Bash!Processes
  <1>4. /\ proc' \in [Bash!Processes -> {"none", "running", "ended"} \cup Bash!Streams]
        /\ Bash!Alive("shell")' => Bash!Alive("shell")
    <2>1. CASE Bash!StartsChild
      BY <1>2, <2>1 DEF Bash!StartsChild, Bash!Alive, Bash!Processes
    <2>2. ASSUME NEW p \in Bash!Processes, Bash!Ends(p)
          PROVE  /\ proc' \in [Bash!Processes -> {"none", "running", "ended"} \cup Bash!Streams]
                 /\ Bash!Alive("shell")' => Bash!Alive("shell")
      BY <1>2, <2>2 DEF Bash!Ends, Bash!Alive, Bash!Processes
    <2> QED BY <2>1, <2>2
  <1>5. Bash!TypeOK'
    BY <1>1, <1>4 DEF Bash!TypeOK
  <1> QED
    BY <1>1, <1>3, <1>4, <1>5, ProcessKeeps DEF Bash!BashInv, Bash!NothingLost

LEMMA BashWrites ==
  ASSUME Bash!TypeOK, Bash!BashInv, NEW p \in Bash!Processes, NEW s \in Bash!Streams,
         NEW newline \in BOOLEAN, Bash!Writes(p, s, newline)
  PROVE  Bash!TypeOK' /\ Bash!BashInv'
  <1> DEFINE x == Bash!Piece(s, newline)
  <1>1. UNCHANGED <<forwarder, chan, place, result>>
    BY DEF Bash!Writes
  <1>2. /\ proc \in [Bash!Processes -> {"none", "running", "ended"} \cup Bash!Streams]
        /\ pipes \in [Bash!Streams -> Seq(Bash!AnyPiece)]
        /\ wrote \in [Bash!Streams -> Seq(Bash!AnyPiece)]
        /\ chan \in Seq(Bash!AnyPiece)
    BY DEF Bash!TypeOK
  <1>3. Bash!Alive(p)
    BY DEF Bash!Writes, Bash!Alive, Bash!Streams
  <1>4. ~Bash!Silent
    BY <1>3 DEF Bash!Silent
  <1>5. proc' \in [Bash!Processes -> {"none", "running", "ended"} \cup Bash!Streams]
    BY <1>2 DEF Bash!Writes
  <1>6. Bash!Alive("shell")' => Bash!Alive("shell")
    <2>1. CASE p = "shell"
      BY <1>3, <2>1
    <2>2. CASE p # "shell"
      <3>1. proc'["shell"] = proc["shell"]
        BY <1>2, <2>2 DEF Bash!Writes, Bash!Processes
      <3> QED BY <3>1 DEF Bash!Alive
    <2> QED BY <2>1, <2>2
  <1>7. \A r \in Bash!Streams : /\ pipes[r] \in Seq(Bash!Pieces(r))
                                /\ wrote[r] \in Seq(Bash!Pieces(r))
    BY DEF Bash!BashInv, Bash!NothingLost
  <1>8. place # "returned" =>
          \A r \in Bash!Streams : Bash!Of(chan, r) \o pipes[r] = wrote[r]
    BY DEF Bash!BashInv, Bash!NothingLost
  <1>9. CASE UNCHANGED <<pipes, wrote>>
    <2>1. Bash!TypeOK'
      BY <1>1, <1>5, <1>9 DEF Bash!TypeOK
    <2> QED BY <1>1, <1>4, <1>6, <1>7, <1>8, <1>9, <2>1, ProcessKeeps
  <1>10. CASE /\ pipes' = [pipes EXCEPT ![s] = Append(@, x)]
              /\ wrote' = [wrote EXCEPT ![s] = Append(@, x)]
    <2>1. x \in Bash!Pieces(s) /\ x \in Bash!AnyPiece
      <3>1. wrote[s] \in Seq(Bash!AnyPiece)
        BY <1>2
      <3>2. Len(wrote[s]) + 1 \in Nat
        BY <3>1
      <3> QED BY <3>2 DEF Bash!Piece, Bash!Pieces, Bash!AnyPiece
    <2> HIDE DEF x
    <2>2. \A r \in Bash!Streams :
            /\ pipes'[r] = IF r = s THEN Append(pipes[r], x) ELSE pipes[r]
            /\ wrote'[r] = IF r = s THEN Append(wrote[r], x) ELSE wrote[r]
      BY <1>2, <1>10
    <2>3. /\ pipes' \in [Bash!Streams -> Seq(Bash!AnyPiece)]
          /\ wrote' \in [Bash!Streams -> Seq(Bash!AnyPiece)]
      BY <1>2, <1>10, <2>1
    <2>4. ASSUME NEW r \in Bash!Streams
          PROVE  pipes'[r] \in Seq(Bash!Pieces(r)) /\ wrote'[r] \in Seq(Bash!Pieces(r))
      <3>1. \A S : \A q \in Seq(S) : x \in S => Append(q, x) \in Seq(S)
        OBVIOUS
      <3>2. CASE r = s
        BY <1>7, <2>1, <2>2, <3>1, <3>2
      <3>3. CASE r # s
        BY <1>7, <2>2, <3>3
      <3> QED BY <3>2, <3>3
    <2>5. ASSUME place # "returned", NEW r \in Bash!Streams
          PROVE  Bash!Of(chan, r) \o pipes'[r] = wrote'[r]
      <3>1. Bash!Of(chan, r) \in Seq(Bash!AnyPiece) /\ pipes[r] \in Seq(Bash!AnyPiece)
        BY <1>2, OfParts
      <3>2. Bash!Of(chan, r) \o Append(pipes[r], x) = Append(Bash!Of(chan, r) \o pipes[r], x)
        BY <2>1, <3>1, ConcatAppend
      <3> QED BY <1>8, <2>2, <2>5, <3>2
    <2>6. Bash!TypeOK'
      BY <1>1, <1>5, <2>3 DEF Bash!TypeOK
    <2> QED BY <1>1, <1>4, <1>6, <2>4, <2>5, <2>6, ProcessKeeps
  <1> QED BY <1>9, <1>10 DEF Bash!Writes

\* A task forwards a piece, sees the end of its pipe, or finds the receiver gone.
LEMMA BashForwards ==
  ASSUME Bash!TypeOK, Bash!BashInv, NEW s \in Bash!Streams, Bash!Forward(s)
  PROVE  Bash!TypeOK' /\ Bash!BashInv'
  <1>1. forwarder[s] = "reading" /\ UNCHANGED <<proc, place, result, wrote>>
    BY DEF Bash!Forward
  <1>2. /\ proc \in [Bash!Processes -> {"none", "running", "ended"} \cup Bash!Streams]
        /\ pipes \in [Bash!Streams -> Seq(Bash!AnyPiece)]
        /\ forwarder \in [Bash!Streams -> {"reading", "ended"}]
        /\ chan \in Seq(Bash!AnyPiece)
    BY DEF Bash!TypeOK
  <1>3. \A r \in Bash!Streams : /\ pipes[r] \in Seq(Bash!Pieces(r))
                                /\ wrote[r] \in Seq(Bash!Pieces(r))
    BY DEF Bash!BashInv, Bash!NothingLost
  <1>4. place # "returned" =>
          \A r \in Bash!Streams : Bash!Of(chan, r) \o pipes[r] = wrote[r]
    BY DEF Bash!BashInv, Bash!NothingLost
  <1>5. place \in Bash!Steps => \A r \in Bash!Streams :
          forwarder[r] = "ended" => pipes[r] = <<>> /\ Bash!Silent
    BY DEF Bash!BashInv, Bash!NothingLost
  <1>6. Bash!Silent' <=> Bash!Silent
    BY <1>1 DEF Bash!Silent, Bash!Alive
  <1>7. ASSUME \A r \in Bash!Streams : forwarder[r] = "ended" => forwarder'[r] = "ended"
        PROVE  Bash!Waited'
    BY <1>1, <1>6, <1>7 DEF Bash!BashInv, Bash!Waited, Bash!Alive, Bash!Streams
  <1>8. Bash!OutputWhole'
    <2>1. \A o, r : Bash!Of(o, r)' = Bash!Of(o, r)
      BY DEF Bash!Of
    <2> QED BY <1>1 DEF Bash!BashInv, Bash!OutputWhole, Bash!Alive, Bash!Of
  <1>9. CASE /\ Bash!EndOfFile(s) /\ forwarder' = [forwarder EXCEPT ![s] = "ended"]
             /\ UNCHANGED <<pipes, chan>>
    <2>1. pipes[s] = <<>> /\ Bash!Silent
      BY <1>9 DEF Bash!EndOfFile, Bash!Silent
    <2>2. Bash!TypeOK'
      BY <1>1, <1>2, <1>9 DEF Bash!TypeOK
    <2>3. \A r \in Bash!Streams : forwarder'[r] = IF r = s THEN "ended" ELSE forwarder[r]
      BY <1>2, <1>9
    <2>4. Bash!NothingLost'
      <3>1. \A r : Bash!Of(chan, r)' = Bash!Of(chan, r)
        BY <1>9 DEF Bash!Of
      <3> QED BY <1>1, <1>3, <1>4, <1>5, <1>6, <1>9, <2>1, <2>3, <3>1 DEF Bash!NothingLost
    <2> QED BY <1>7, <1>8, <2>2, <2>3, <2>4 DEF Bash!BashInv
  <1>10. CASE /\ pipes[s] # <<>> /\ pipes' = [pipes EXCEPT ![s] = Tail(@)]
              /\ \/ /\ place # "returned" /\ chan' = Append(chan, Head(pipes[s]))
                    /\ UNCHANGED forwarder
                 \/ /\ place = "returned" /\ UNCHANGED chan
                    /\ forwarder' = [forwarder EXCEPT ![s] = "ended"]
    <2> DEFINE h == Head(pipes[s])
    <2>1. /\ h \in Bash!Pieces(s) /\ Tail(pipes[s]) \in Seq(Bash!Pieces(s))
          /\ Tail(pipes[s]) \in Seq(Bash!AnyPiece)
      BY <1>2, <1>3, <1>10, TailParts
    <2>2. h \in Bash!AnyPiece /\ h.from = s
      BY <2>1 DEF Bash!Pieces, Bash!AnyPiece
    <2> HIDE DEF h
    <2>3. /\ pipes' \in [Bash!Streams -> Seq(Bash!AnyPiece)]
          /\ \A r \in Bash!Streams : pipes'[r] = IF r = s THEN Tail(pipes[r]) ELSE pipes[r]
      BY <1>2, <1>10, <2>1
    <2>4. /\ forwarder' \in [Bash!Streams -> {"reading", "ended"}]
          /\ \A r \in Bash!Streams : forwarder[r] = "ended" => forwarder'[r] = "ended"
          /\ place # "returned" => forwarder' = forwarder
      BY <1>2, <1>10
    <2>5. /\ chan' \in Seq(Bash!AnyPiece)
          /\ place # "returned" => chan' = Append(chan, h)
      <3>1. (chan' = Append(chan, h) \/ chan' = chan) /\ (place # "returned" => chan' = Append(chan, h))
        BY <1>10 DEF h
      <3>2. Append(chan, h) \in Seq(Bash!AnyPiece)
        BY <1>2, <2>2
      <3> QED BY <1>2, <3>1, <3>2
    <2>6. Bash!TypeOK'
      BY <1>1, <2>3, <2>4, <2>5 DEF Bash!TypeOK
    <2>7. ASSUME place # "returned", NEW r \in Bash!Streams
          PROVE  Bash!Of(chan, r)' \o pipes'[r] = wrote'[r]
      <3>1. Bash!Of(chan, r) \in Seq(Bash!AnyPiece) /\ pipes[r] \in Seq(Bash!AnyPiece)
        BY <1>2, OfParts
      <3>2. Bash!Of(chan, r)' =
              IF r = s THEN Append(Bash!Of(chan, r), h) ELSE Bash!Of(chan, r)
        <4>1. Bash!Of(Append(chan, h), r) =
                IF h.from = r THEN Append(Bash!Of(chan, r), h) ELSE Bash!Of(chan, r)
          BY <1>2, <2>2, OfParts
        <4>2. Bash!Of(chan, r)' = Bash!Of(Append(chan, h), r)
          BY <2>5, <2>7 DEF Bash!Of
        <4> QED BY <2>2, <4>1, <4>2
      <3>3. r = s => Append(Bash!Of(chan, r), h) \o Tail(pipes[r]) = Bash!Of(chan, r) \o pipes[r]
        <4>1. pipes[r] # <<>> => Append(Bash!Of(chan, r), Head(pipes[r])) \o Tail(pipes[r])
                                   = Bash!Of(chan, r) \o pipes[r]
          BY <3>1, ConcatHead
        <4> QED BY <1>10, <4>1 DEF h
      <3> QED BY <1>1, <1>4, <2>3, <2>7, <3>2, <3>3
    <2>8. Bash!NothingLost'
      <3>1. \A r \in Bash!Streams : pipes'[r] \in Seq(Bash!Pieces(r))
        BY <1>3, <2>1, <2>3
      <3>2. place \in Bash!Steps => \A r \in Bash!Streams :
              forwarder'[r] = "ended" => pipes'[r] = <<>> /\ Bash!Silent
        BY <1>1, <1>5, <2>3, <2>4 DEF Bash!Steps
      <3> QED BY <1>1, <1>3, <1>6, <2>7, <3>1, <3>2 DEF Bash!NothingLost
    <2> QED BY <1>7, <1>8, <2>4, <2>6, <2>8 DEF Bash!BashInv
  <1> QED BY <1>9, <1>10 DEF Bash!Forward

LEMMA BashCalls ==
  ASSUME Bash!TypeOK, Bash!BashInv, Bash!Call
  PROVE  Bash!TypeOK' /\ Bash!BashInv'
  <1>1. place = "new" /\ UNCHANGED <<pipes, chan, wrote>> /\ place' \in {"wait", "returned"}
    BY DEF Bash!Call
  <1>2. /\ proc \in [Bash!Processes -> {"none", "running", "ended"} \cup Bash!Streams]
        /\ forwarder \in [Bash!Streams -> {"reading", "ended"}]
    BY DEF Bash!TypeOK
  <1>3. /\ Bash!Silent
        /\ \A r \in Bash!Streams : /\ pipes[r] \in Seq(Bash!Pieces(r))
                                   /\ wrote[r] \in Seq(Bash!Pieces(r))
                                   /\ Bash!Of(chan, r) \o pipes[r] = wrote[r]
    BY <1>1 DEF Bash!BashInv, Bash!NothingLost, Bash!Waited
  <1>4. \A r : Bash!Of(chan, r)' = Bash!Of(chan, r)
    BY <1>1 DEF Bash!Of
  <1>5. CASE /\ place' = "wait" /\ forwarder' = [s \in Bash!Streams |-> "reading"]
             /\ proc' = [proc EXCEPT !["shell"] = "running"]
    <2>1. Bash!TypeOK'
      <3>1. proc' \in [Bash!Processes -> {"none", "running", "ended"} \cup Bash!Streams]
        BY <1>2, <1>5 DEF Bash!Processes
      <3>2. forwarder' \in [Bash!Streams -> {"reading", "ended"}]
        BY <1>5
      <3> QED BY <1>1, <1>5, <3>1, <3>2 DEF Bash!TypeOK, Bash!Steps
    <2>2. Bash!NothingLost'
      BY <1>1, <1>3, <1>4, <1>5 DEF Bash!NothingLost
    <2> QED BY <1>5, <2>1, <2>2 DEF Bash!BashInv, Bash!Waited, Bash!OutputWhole
  <1>6. CASE place' = "returned" /\ result' = [how |-> "not started"] /\ UNCHANGED <<proc, forwarder>>
    <2>1. Bash!TypeOK'
      BY <1>1, <1>6 DEF Bash!TypeOK
    <2>2. Bash!NothingLost'
      BY <1>1, <1>3, <1>6 DEF Bash!NothingLost, Bash!Steps
    <2>3. ~Bash!Alive("shell")' /\ result'.how = "not started"
      BY <1>3, <1>6 DEF Bash!Silent, Bash!Alive, Bash!Processes
    <2> QED BY <1>6, <2>1, <2>2, <2>3 DEF Bash!BashInv, Bash!Waited, Bash!OutputWhole
  <1> QED BY <1>5, <1>6 DEF Bash!Call

LEMMA BashWaits ==
  ASSUME Bash!TypeOK, Bash!BashInv, Bash!Wait
  PROVE  Bash!TypeOK' /\ Bash!BashInv'
  <1>1. /\ UNCHANGED <<proc, pipes, forwarder, chan, result, wrote>>
        /\ \/ place = "wait" /\ ~Bash!Alive("shell") /\ place' = "out"
           \/ place = "out" /\ forwarder["out"] = "ended" /\ place' = "err"
           \/ place = "err" /\ forwarder["err"] = "ended" /\ place' = "drain"
    BY DEF Bash!Wait
  <1>2. Bash!TypeOK'
    BY <1>1 DEF Bash!TypeOK, Bash!Steps
  <1>3. /\ \A r : Bash!Of(chan, r)' = Bash!Of(chan, r)
        /\ Bash!Silent' <=> Bash!Silent
        /\ Bash!Alive("shell")' <=> Bash!Alive("shell")
    BY <1>1 DEF Bash!Of, Bash!Silent, Bash!Alive
  <1>4. Bash!NothingLost'
    BY <1>1, <1>3 DEF Bash!BashInv, Bash!NothingLost, Bash!Steps
  <1>5. Bash!Waited'
    BY <1>1, <1>3 DEF Bash!BashInv, Bash!Waited
  <1> QED BY <1>1, <1>2, <1>4, <1>5 DEF Bash!BashInv, Bash!OutputWhole

\* The call takes what the channel holds: both pipes are at their end.
LEMMA BashDrains ==
  ASSUME Bash!TypeOK, Bash!BashInv, Bash!Drain
  PROVE  Bash!TypeOK' /\ Bash!BashInv'
  <1>1. /\ place = "drain" /\ place' = "returned" /\ chan' = <<>>
        /\ UNCHANGED <<proc, pipes, forwarder, wrote>>
    BY DEF Bash!Drain
  <1>2. PICK kept \in IF Len(chan) > MaxBytes THEN {chan, <<>>} ELSE {<<>>} :
          result' = [how |-> "done", output |-> Bash!TruncateTail(chan),
                     truncated |-> Len(chan) > MaxBytes, file |-> kept]
    BY DEF Bash!Drain
  <1>3. chan \in Seq(Bash!AnyPiece) /\ MaxBytes \in Nat
    BY ToolsAssumption DEF Bash!TypeOK
  <1>4. /\ Bash!Silent
        /\ \A r \in Bash!Streams : /\ pipes[r] \in Seq(Bash!Pieces(r))
                                   /\ wrote[r] \in Seq(Bash!Pieces(r))
                                   /\ Bash!Of(chan, r) = wrote[r]
    <2>1. \A r \in Bash!Streams : forwarder[r] = "ended"
      BY <1>1 DEF Bash!BashInv, Bash!Waited, Bash!Streams
    <2>2. /\ Bash!Silent
          /\ \A r \in Bash!Streams : /\ pipes[r] = <<>>
                                     /\ Bash!Of(chan, r) \o pipes[r] = wrote[r]
      BY <1>1, <2>1 DEF Bash!BashInv, Bash!NothingLost, Bash!Steps, Bash!Streams
    <2>3. \A r \in Bash!Streams : Bash!Of(chan, r) \in Seq(Bash!AnyPiece)
      BY <1>3, OfParts
    <2>4. \A r \in Bash!Streams : Bash!Of(chan, r) \o <<>> = Bash!Of(chan, r)
      BY <2>3
    <2> QED BY <2>2, <2>4 DEF Bash!BashInv, Bash!NothingLost
  <1>5. Bash!TypeOK'
    BY <1>1 DEF Bash!TypeOK
  <1>6. Bash!NothingLost'
    BY <1>1, <1>4 DEF Bash!NothingLost, Bash!Steps
  <1>7. Bash!Silent' /\ ~Bash!Alive("shell")'
    BY <1>1, <1>4 DEF Bash!Silent, Bash!Alive, Bash!Processes
  <1>8. Bash!Waited'
    BY <1>1, <1>7 DEF Bash!Waited
  <1>9. CASE ~(Len(chan) > MaxBytes)
    <2>1. Bash!TruncateTail(chan) = chan
      BY <1>3, <1>9 DEF Bash!TruncateTail
    <2>2. ~result'.truncated /\ result'.output = chan
      BY <1>2, <1>9, <2>1
    <2>3. \A r \in Bash!Streams : Bash!Of(result.output, r)' = wrote'[r]
      BY <1>1, <1>4, <2>2 DEF Bash!Of
    <2>4. Bash!OutputWhole'
      BY <1>7, <2>2, <2>3 DEF Bash!OutputWhole
    <2> QED BY <1>5, <1>6, <1>8, <2>4 DEF Bash!BashInv
  <1>10. CASE Len(chan) > MaxBytes
    <2>1. PICK m \in MaxBytes \div 2 .. MaxBytes :
            /\ m \in 0..Len(chan)
            /\ Bash!TruncateTail(chan) = SubSeq(chan, Len(chan) - m + 1, Len(chan))
      BY <1>3, <1>10, TruncatedTail
    <2> DEFINE tail == SubSeq(chan, Len(chan) - m + 1, Len(chan))
    <2>2. Len(tail) = m
      BY <1>3, <2>1
    <2>3. \A r \in Bash!Streams : Bash!IsSuffix(Bash!Of(tail, r), wrote[r])
      BY <1>3, <1>4, <2>1, SuffixOf
    <2> HIDE DEF tail
    <2>4. /\ result'.truncated /\ result'.output = tail
          /\ result'.file = chan \/ result'.file = <<>>
      BY <1>2, <1>10, <2>1 DEF tail
    <2>5. Len(result'.output) \in MaxBytes \div 2 .. MaxBytes
      BY <2>1, <2>2, <2>4
    <2>6. \A r \in Bash!Streams : Bash!IsSuffix(Bash!Of(result.output, r), wrote[r])'
      BY <1>1, <2>3, <2>4 DEF Bash!IsSuffix, Bash!Of
    <2>7. result'.file # <<>> =>
            \A r \in Bash!Streams : Bash!Of(result.file, r)' = wrote'[r]
      BY <1>1, <1>4, <2>4 DEF Bash!Of
    <2>8. Bash!OutputWhole'
      BY <1>7, <2>4, <2>5, <2>6, <2>7 DEF Bash!OutputWhole
    <2> QED BY <1>5, <1>6, <1>8, <2>8 DEF Bash!BashInv
  <1> QED BY <1>9, <1>10

\* The timeout or an abort drops the call, and the shell is killed.
LEMMA BashDrops ==
  ASSUME Bash!TypeOK, Bash!BashInv, NEW how \in {"timed out", "aborted"},
         Bash!Dropped(how)
  PROVE  Bash!TypeOK' /\ Bash!BashInv'
  <1>1. /\ place' = "returned" /\ chan' = <<>> /\ result' = [how |-> how]
        /\ proc' = [proc EXCEPT !["shell"] = "ended"]
        /\ UNCHANGED <<pipes, forwarder, wrote>>
    BY DEF Bash!Dropped, Bash!Killed
  <1>2. proc \in [Bash!Processes -> {"none", "running", "ended"} \cup Bash!Streams]
    BY DEF Bash!TypeOK
  <1>3. /\ proc' \in [Bash!Processes -> {"none", "running", "ended"} \cup Bash!Streams]
        /\ ~Bash!Alive("shell")'
    BY <1>1, <1>2 DEF Bash!Alive, Bash!Processes
  <1>4. Bash!TypeOK'
    <2>1. <<>> \in Seq(Bash!AnyPiece)
      BY EmptySeq
    <2>2. chan' \in Seq(Bash!AnyPiece)
      BY <1>1, <2>1
    <2>3. /\ pipes' \in [Bash!Streams -> Seq(Bash!AnyPiece)]
          /\ forwarder' \in [Bash!Streams -> {"reading", "ended"}]
          /\ wrote' \in [Bash!Streams -> Seq(Bash!AnyPiece)]
      BY <1>1 DEF Bash!TypeOK
    <2> QED BY <1>1, <1>3, <2>2, <2>3 DEF Bash!TypeOK
  <1>5. Bash!NothingLost'
    BY <1>1 DEF Bash!BashInv, Bash!NothingLost, Bash!Steps
  <1>6. result'.how # "done"
    BY <1>1
  <1> QED
    BY <1>1, <1>3, <1>4, <1>5, <1>6 DEF Bash!BashInv, Bash!Waited, Bash!OutputWhole

LEMMA BashSteps ==
  ASSUME Bash!TypeOK, Bash!BashInv, Bash!Next
  PROVE  Bash!TypeOK' /\ Bash!BashInv'
  BY BashProcess, BashWrites, BashForwards, BashCalls, BashWaits, BashDrains, BashDrops
     DEF Bash!Next, Bash!Timeout, Bash!AbortBash

----------------------------------------------------------------------------
(* In a behaviour about a command. *)

BashHolds == subject = "bash" => Bash!TypeOK /\ Bash!BashInv

LEMMA BashKeeps == BashHolds /\ [MCNext]_<<subject, vars, slots>> => BashHolds'
  <1> SUFFICES ASSUME BashHolds, [MCNext]_<<subject, vars, slots>>, subject' = "bash"
               PROVE  Bash!TypeOK' /\ Bash!BashInv'
    BY DEF BashHolds
  <1>1. CASE BashStep
    BY <1>1, BashSteps DEF BashStep, BashHolds
  <1>2. CASE UNCHANGED <<subject, vars, slots>>
    <2>1. Bash!TypeOK /\ Bash!BashInv
      BY <1>2 DEF BashHolds
    <2>2. UNCHANGED <<proc, pipes, forwarder, chan, place, result, wrote>>
      BY <1>2 DEF slots, slots1_4, slots5_7, slots8_9
    <2>3. Bash!TypeOK' /\ Bash!NothingLost'
      BY <2>1, <2>2
         DEF Bash!TypeOK, Bash!BashInv, Bash!NothingLost, Bash!Of, Bash!Silent, Bash!Alive
    <2>4. Bash!Waited' /\ Bash!OutputWhole'
      BY <2>1, <2>2
         DEF Bash!BashInv, Bash!Waited, Bash!OutputWhole, Bash!Silent, Bash!Alive,
             Bash!Of, Bash!IsSuffix
    <2> QED BY <2>3, <2>4 DEF Bash!BashInv
  <1>3. CASE SubprocessStep \/ ChainStep \/ FilesStep \/ StreamsStep
    BY <1>3 DEF SubprocessStep, ChainStep, FilesStep, StreamsStep
  <1> QED BY <1>1, <1>2, <1>3 DEF MCNext

\* A command that ran to its end reports all its processes wrote, or its tail
\* and the whole in a file, whatever is left of its pipes and whoever of its
\* processes holds them (execute_bash, truncate_tail_bytes); and however the
\* call ends, the shell has.
THEOREM OutputKept == MCSpec => []OutputWhole
  <1>1. MCInit => BashHolds
    BY BashStarts DEF MCInit, BashHolds
  <1>2. BashHolds => OutputWhole
    BY DEF BashHolds, OutputWhole, Bash!BashInv
  <1> QED BY <1>1, <1>2, BashKeeps, PTL DEF MCSpec

-----------------------------------------------------------------------------
(* The terminal events of a response. *)

Ending == {"done", "error"}

\* The terminal ones of some events, as Terminals has them.
EndsIn(es) == Keep(es, {es[k] : k \in {j \in DOMAIN es : es[j].type \in Ending}})

\* A sequence with no terminal event.
Quiet(es) == \E S : es \in Seq(S) /\ \A e \in S : e.type \notin Ending

LEMMA StreamLibrary ==
  ASSUME NEW es
  PROVE  /\ Streams!Anthropic!Terminals(es) = EndsIn(es)
         /\ Streams!OpenAi!Terminals(es) = EndsIn(es)
         /\ Streams!Responses!Terminals(es) = EndsIn(es)
         /\ Streams!Google!Terminals(es) = EndsIn(es)
  <1>1. Streams!Anthropic!Terminals(es) = EndsIn(es)
    BY DEF Streams!Anthropic!Terminals, Streams!Anthropic!Terminal, Streams!Anthropic!Keep,
           Keep, EndsIn, Ending
  <1>2. Streams!OpenAi!Terminals(es) = EndsIn(es)
    BY DEF Streams!OpenAi!Terminals, Streams!OpenAi!Terminal, Streams!OpenAi!Keep,
           Keep, EndsIn, Ending
  <1>3. Streams!Responses!Terminals(es) = EndsIn(es)
    BY DEF Streams!Responses!Terminals, Streams!Responses!Terminal, Streams!Responses!Keep,
           Keep, EndsIn, Ending
  <1>4. Streams!Google!Terminals(es) = EndsIn(es)
    BY DEF Streams!Google!Terminals, Streams!Google!Terminal, Streams!Google!Keep,
           Keep, EndsIn, Ending
  <1> QED BY <1>1, <1>2, <1>3, <1>4

LEMMA QuietEnds ==
  ASSUME NEW es, Quiet(es)
  PROVE  EndsIn(es) = <<>>
  <1>1. PICK S : es \in Seq(S) /\ \A e \in S : e.type \notin Ending
    BY DEF Quiet
  <1>2. {es[k] : k \in {j \in DOMAIN es : es[j].type \in Ending}} = {}
    BY <1>1, Elements
  <1> QED BY <1>1, <1>2, KeepNone DEF EndsIn

LEMMA QuietMade ==
  /\ Quiet(<<>>)
  /\ \A e : e.type \notin Ending => Quiet(<<e>>)
  /\ \A es, e : Quiet(es) /\ e.type \notin Ending => Quiet(Append(es, e))
  <1>1. Quiet(<<>>)
    <2> DEFINE S == {}
    <2>1. <<>> \in Seq(S) /\ \A e \in S : e.type \notin Ending
      OBVIOUS
    <2> HIDE DEF S
    <2> QED BY <2>1 DEF Quiet
  <1>2. ASSUME NEW e, e.type \notin Ending PROVE Quiet(<<e>>)
    <2> DEFINE S == {e}
    <2>1. <<e>> \in Seq(S) /\ \A f \in S : f.type \notin Ending
      BY <1>2
    <2> HIDE DEF S
    <2> QED BY <2>1 DEF Quiet
  <1>3. ASSUME NEW es, NEW e, Quiet(es), e.type \notin Ending PROVE Quiet(Append(es, e))
    <2>1. PICK S : es \in Seq(S) /\ \A f \in S : f.type \notin Ending
      BY <1>3 DEF Quiet
    <2>2. es \in Seq(S \cup {e})
      BY <2>1
    <2>3. Append(es, e) \in Seq(S \cup {e}) /\ \A f \in S \cup {e} : f.type \notin Ending
      BY <2>1, <2>2, <1>3
    <2> QED BY <2>3 DEF Quiet
  <1> QED BY <1>1, <1>2, <1>3

LEMMA OneEnd ==
  ASSUME NEW e, e.type \in Ending
  PROVE  EndsIn(<<e>>) = <<e>>
  <1>1. <<e>> \in Seq({e}) /\ ToSet(<<e>>) = {e}
    BY DEF ToSet
  <1>2. {<<e>>[k] : k \in {j \in DOMAIN <<e>> : <<e>>[j].type \in Ending}} = {e}
    OBVIOUS
  <1> QED BY <1>1, <1>2, KeepAll DEF EndsIn

-----------------------------------------------------------------------------
AnthropicInv ==
  slot5 # <<>> /\ ~slot10 => slot5[1].type = "error" \/ "stop" \in slot8

FinalOf(es) == \A k \in DOMAIN es : slot5 # <<>> => slot5[1].type = "error" /\ es[k].type = "error"

LEMMA AnthropicFinal ==
  ASSUME AnthropicInv, Streams!Anthropic!Next
  PROVE  AnthropicInv' /\ FinalOf(slot6')
  <1>0. \A es : Streams!Anthropic!Terminals(es) = EndsIn(es)
    BY StreamLibrary
  <1>1. ASSUME slot5 = <<>>, NEW es, Quiet(es), Streams!Anthropic!Yield(es)
        PROVE  AnthropicInv' /\ FinalOf(slot6')
    BY <1>0, <1>1, QuietEnds DEF Streams!Anthropic!Yield, AnthropicInv, FinalOf
  <1>2. CASE Streams!Anthropic!SetupFails
    BY <1>2 DEF Streams!Anthropic!SetupFails, AnthropicInv, FinalOf
  <1>3. CASE Streams!Anthropic!MessageStart
    <2>1. Quiet(<<Streams!Anthropic!Start(slot3)>>)
      BY QuietMade DEF Streams!Anthropic!Start, Ending
    <2> QED BY <1>1, <1>3, <2>1 DEF Streams!Anthropic!MessageStart
  <1>4. CASE \/ \E type \in Types : Streams!Anthropic!ContentBlockStart(type)
             \/ \E index \in DOMAIN slot1 : \/ Streams!Anthropic!ContentBlockDelta(index)
                                            \/ Streams!Anthropic!ContentBlockStop(index)
             \/ \E r \in Reasons : Streams!Anthropic!MessageDelta(r)
    <2>1. /\ \A kind, index, msg : Quiet(<<Streams!Anthropic!BlockStart(kind, index, msg)>>)
          /\ \A kind, index, p, msg : Quiet(<<Streams!Anthropic!Delta(kind, index, p, msg)>>)
          /\ \A kind, index, msg : Quiet(<<Streams!Anthropic!BlockEnd(kind, index, msg)>>)
      BY QuietMade DEF Streams!Anthropic!BlockStart, Streams!Anthropic!Delta,
                       Streams!Anthropic!BlockEnd, Ending
    <2>2. slot5 = <<>> /\ \E es : Quiet(es) /\ Streams!Anthropic!Yield(es)
      BY <1>4, <2>1, QuietMade
         DEF Streams!Anthropic!ContentBlockStart, Streams!Anthropic!ContentBlockDelta,
             Streams!Anthropic!ContentBlockStop, Streams!Anthropic!MessageDelta,
             Streams!Anthropic!Streaming
    <2> QED BY <1>1, <2>2
  <1>5. CASE Streams!Anthropic!MessageStop
    BY <1>5 DEF Streams!Anthropic!MessageStop, Streams!Anthropic!Streaming, AnthropicInv, FinalOf
  <1>6. CASE Streams!Anthropic!ErrorEvent
    <2>1. PICK e : e.type = "error" /\ Streams!Anthropic!Yield(<<e>>)
      BY <1>6 DEF Streams!Anthropic!ErrorEvent, Streams!Anthropic!Error
    <2>2. slot5 = <<>> /\ slot5' = <<e>>
      BY <1>0, <1>6, <2>1, OneEnd DEF Streams!Anthropic!ErrorEvent, Streams!Anthropic!Yield, Ending
    <2> QED BY <2>1, <2>2 DEF AnthropicInv, FinalOf
  <1>7. CASE Streams!Anthropic!EndOfBody
    <2>1. slot10' = TRUE /\ ~slot10
      BY <1>7 DEF Streams!Anthropic!EndOfBody
    <2>2. PICK broken \in BOOLEAN : slot6' = Streams!Anthropic!Finalize(broken)
      BY <1>7 DEF Streams!Anthropic!EndOfBody, Streams!Anthropic!Yield
    <2>3. ASSUME slot5 # <<>>
          PROVE  slot5[1].type = "error" \/ slot6' = <<>>
      BY <2>1, <2>2, <2>3 DEF Streams!Anthropic!Finalize, AnthropicInv
    <2>4. ASSUME slot5 # <<>>
          PROVE  \A k \in DOMAIN slot6' : slot6'[k].type = "error"
      BY <2>2, <2>4 DEF Streams!Anthropic!Finalize, Streams!Anthropic!Error
    <2> QED BY <2>1, <2>3, <2>4 DEF AnthropicInv, FinalOf
  <1> QED BY <1>2, <1>3, <1>4, <1>5, <1>6, <1>7 DEF Streams!Anthropic!Next

-----------------------------------------------------------------------------
\* Until the body of the response ends nothing terminal has gone out.
UnendedInv == slot4 # "closed" => slot5 = <<>>

LEMMA OpenAiPartQuiet ==
  ASSUME NEW w, NEW part, Quiet(w.events)
  PROVE  Quiet(Streams!OpenAi!HandlePart(w, part).events)
  <1> DEFINE f == Streams!OpenAi!FinishCurrentBlock(w)
             o == Streams!OpenAi!Opened(w, part)
  <1>1. Quiet(f.events)
    BY QuietMade DEF Streams!OpenAi!FinishCurrentBlock, Streams!OpenAi!Work,
                     Streams!OpenAi!BlockEnd, Ending
  <1>2. Quiet(o.events)
    <2>1. CASE Streams!OpenAi!Continues(w.current, part)
      BY <2>1 DEF Streams!OpenAi!Opened
    <2>2. CASE ~Streams!OpenAi!Continues(w.current, part)
      <3>1. PICK e : o.events = Append(f.events, e) /\ e.type = "block_start"
        BY <2>2 DEF Streams!OpenAi!Opened, Streams!OpenAi!Work, Streams!OpenAi!BlockStart
      <3> QED BY <1>1, <3>1, QuietMade DEF Ending
    <2> QED BY <2>1, <2>2
  <1>3. PICK e : Streams!OpenAi!HandlePart(w, part).events = Append(o.events, e) /\ e.type = "delta"
    <2> DEFINE n   == Len(o.output)
               out == IF part.kind = "toolCall" THEN o.output
                        ELSE [o.output EXCEPT ![n].pieces = Append(@, part.piece)]
               d   == Streams!OpenAi!Delta(part.kind, n, part.piece, out)
    <2>1. Streams!OpenAi!HandlePart(w, part).events = Append(o.events, d)
      BY DEF Streams!OpenAi!HandlePart, Streams!OpenAi!Work
    <2>2. d.type = "delta"
      BY DEF Streams!OpenAi!Delta
    <2> HIDE DEF d
    <2> QED BY <2>1, <2>2
  <1> QED BY <1>2, <1>3, QuietMade DEF Ending

LEMMA OpenAiFinal ==
  ASSUME UnendedInv, Streams!OpenAi!Next
  PROVE  UnendedInv' /\ FinalOf(slot6')
  <1>0. \A es : Streams!OpenAi!Terminals(es) = EndsIn(es)
    BY StreamLibrary
  <1>1. slot5 = <<>>
    BY DEF Streams!OpenAi!Next, Streams!OpenAi!Begin, Streams!OpenAi!HandleDelta,
           Streams!OpenAi!Chunk, Streams!OpenAi!FinishReason, Streams!OpenAi!EndOfBody, UnendedInv
  <1>2. FinalOf(slot6')
    BY <1>1 DEF FinalOf
  <1>3. \A es : Quiet(es) /\ Streams!OpenAi!Yield(es) => slot5' = <<>>
    BY <1>0, <1>1, QuietEnds DEF Streams!OpenAi!Yield
  <1>4. CASE Streams!OpenAi!Begin
    <2>1. Quiet(<<Streams!OpenAi!Start(<<>>)>>)
      BY QuietMade DEF Streams!OpenAi!Start, Ending
    <2> QED BY <1>2, <1>3, <1>4, <2>1 DEF Streams!OpenAi!Begin, UnendedInv
  <1>5. CASE Streams!OpenAi!HandleDelta
    <2>1. PICK parts : Streams!OpenAi!Chunk(parts)
      BY <1>5 DEF Streams!OpenAi!HandleDelta
    <2>2. Streams!OpenAi!Yield(Streams!OpenAi!InTurn(Streams!OpenAi!HandlePart, Streams!OpenAi!Work(slot3, slot7, <<>>), parts).events)
      BY <2>1 DEF Streams!OpenAi!Chunk
    <2>3. Quiet(Streams!OpenAi!Work(slot3, slot7, <<>>).events)
      BY QuietMade DEF Streams!OpenAi!Work
    <2>4. Quiet(Streams!OpenAi!InTurn(Streams!OpenAi!HandlePart, Streams!OpenAi!Work(slot3, slot7, <<>>), parts).events)
      BY <2>3, OpenAiPartQuiet DEF Streams!OpenAi!InTurn
    <2> QED BY <1>2, <1>3, <2>2, <2>4 DEF UnendedInv
  <1>6. CASE Streams!OpenAi!FinishReason
    BY <1>2, <1>3, <1>6, QuietMade DEF Streams!OpenAi!FinishReason, UnendedInv
  <1>7. CASE Streams!OpenAi!EndOfBody
    BY <1>2, <1>7 DEF Streams!OpenAi!EndOfBody, UnendedInv
  <1> QED BY <1>2, <1>4, <1>5, <1>6, <1>7 DEF Streams!OpenAi!Next

LEMMA GoogleFinal ==
  ASSUME UnendedInv, Streams!Google!Next
  PROVE  UnendedInv' /\ FinalOf(slot6')
  <1>0. \A es : Streams!Google!Terminals(es) = EndsIn(es)
    BY StreamLibrary
  <1>1. slot5 = <<>>
    BY DEF Streams!Google!Next, Streams!Google!Begin, Streams!Google!Part,
           Streams!Google!FinishReason, Streams!Google!EndOfBody, UnendedInv
  <1>2. FinalOf(slot6')
    BY <1>1 DEF FinalOf
  <1>3. \A es : Quiet(es) /\ Streams!Google!Yield(es) => slot5' = <<>>
    BY <1>0, <1>1, QuietEnds DEF Streams!Google!Yield
  <1>4. CASE Streams!Google!Begin
    <2>1. Quiet(<<Streams!Google!Start(<<>>)>>)
      BY QuietMade DEF Streams!Google!Start, Ending
    <2> QED BY <1>2, <1>3, <1>4, <2>1 DEF Streams!Google!Begin, UnendedInv
  <1>5. CASE \/ \E kind, id : Streams!Google!Part(kind, id)
             \/ \E r : Streams!Google!FinishReason(r)
    BY <1>2, <1>3, <1>5, QuietMade DEF Streams!Google!Part, Streams!Google!FinishReason, UnendedInv
  <1>6. CASE Streams!Google!EndOfBody
    BY <1>2, <1>6 DEF Streams!Google!EndOfBody, UnendedInv
  <1> QED BY <1>2, <1>4, <1>5, <1>6 DEF Streams!Google!Next

-----------------------------------------------------------------------------
\* The stop reason remembers the error that has gone out.
ResponsesInv ==
  /\ slot4 \in {"new", "body", "completed"} => slot5 = <<>>
  /\ slot4 = "failed" => slot10 = "error" /\ slot5[1].type = "error"

LEMMA ResponsesFinal ==
  ASSUME ResponsesInv, Streams!Responses!Next
  PROVE  ResponsesInv' /\ FinalOf(slot6')
  <1>0. \A es : Streams!Responses!Terminals(es) = EndsIn(es)
    BY StreamLibrary
  <1>1. ASSUME slot4 \in {"new", "body"},
               NEW es, Quiet(es), Streams!Responses!Yield(es), slot4' # "failed"
        PROVE  ResponsesInv' /\ FinalOf(slot6')
    BY <1>0, <1>1, QuietEnds DEF Streams!Responses!Yield, ResponsesInv, FinalOf
  <1>2. CASE Streams!Responses!Begin
    <2>1. Quiet(<<Streams!Responses!Start(<<>>)>>)
      BY QuietMade DEF Streams!Responses!Start, Ending
    <2> QED BY <1>1, <1>2, <2>1 DEF Streams!Responses!Begin, ResponsesInv, FinalOf
  <1>3. CASE \/ \E kind : Streams!Responses!OutputItemAdded(kind)
             \/ Streams!Responses!PieceDelta \/ Streams!Responses!ArgumentsDone
             \/ Streams!Responses!OutputItemDone \/ Streams!Responses!Completed
    <2>1. \A kind, index, p, msg : Quiet(<<Streams!Responses!Delta(kind, index, p, msg)>>)
      BY QuietMade DEF Streams!Responses!Delta, Ending
    <2>2. /\ slot4 = "body" /\ slot4' # "failed"
          /\ \E es : Quiet(es) /\ Streams!Responses!Yield(es)
      BY <1>3, <2>1, QuietMade
         DEF Streams!Responses!OutputItemAdded, Streams!Responses!PieceDelta,
             Streams!Responses!ArgumentsDone, Streams!Responses!OutputItemDone,
             Streams!Responses!Completed
    <2> QED BY <1>1, <2>2
  <1>4. CASE Streams!Responses!Failed
    <2>1. PICK e : e.type = "error" /\ Streams!Responses!Yield(<<e>>)
      BY <1>4 DEF Streams!Responses!Failed, Streams!Responses!Error
    <2>2. slot5 = <<>> /\ slot4' = "failed" /\ slot10' = "error"
      BY <1>4 DEF Streams!Responses!Failed, ResponsesInv
    <2>3. slot5' = <<e>>
      BY <1>0, <2>1, <2>2, OneEnd DEF Streams!Responses!Yield, Ending
    <2> QED BY <2>1, <2>2, <2>3 DEF ResponsesInv, FinalOf
  <1>5. CASE Streams!Responses!EndOfBody
    <2>1. slot4' = "closed" /\ slot4 \in {"body", "completed", "failed"}
      BY <1>5 DEF Streams!Responses!EndOfBody
    <2>2. PICK broken \in BOOLEAN : slot6' = Streams!Responses!Ending(broken)
      BY <1>5 DEF Streams!Responses!EndOfBody, Streams!Responses!Yield
    <2>3. ASSUME slot5 # <<>>
          PROVE  slot5[1].type = "error" /\ \A k \in DOMAIN slot6' : slot6'[k].type = "error"
      <3>1. slot4 = "failed" /\ slot10 = "error" /\ slot5[1].type = "error"
        BY <2>1, <2>3 DEF ResponsesInv
      <3> QED BY <2>2, <3>1 DEF Streams!Responses!Ending, Streams!Responses!Error
    <2> QED BY <2>1, <2>3 DEF ResponsesInv, FinalOf
  <1> QED BY <1>2, <1>3, <1>4, <1>5 DEF Streams!Responses!Next

-----------------------------------------------------------------------------
\* What is known of the terminal events of a response that goes on.
FinalInv ==
  subject = "streams" =>
    /\ slot11 = "anthropic" => AnthropicInv
    /\ slot11 \in {"openai", "google"} => UnendedInv
    /\ slot11 = "responses" => ResponsesInv

LEMMA FinalStarts == MCInit => FinalInv
  <1> SUFFICES ASSUME MCInit, subject = "streams" PROVE FinalInv
    BY DEF FinalInv
  <1>1. Streams!Init
    BY DEF MCInit
  <1>2. slot11 \in {"anthropic", "openai", "google", "responses"} => slot5 = <<>>
    BY <1>1 DEF Streams!Init, Streams!Anthropic!Init, Streams!OpenAi!Init, Streams!Google!Init,
                Streams!Responses!Init
  <1>3. slot11 = "responses" => slot4 = "new"
    BY <1>1 DEF Streams!Init, Streams!Responses!Init
  <1> QED BY <1>2, <1>3 DEF FinalInv, AnthropicInv, UnendedInv, ResponsesInv

LEMMA FinalStep ==
  ASSUME FinalInv, [MCNext]_<<subject, vars, slots>>
  PROVE  FinalInv' /\ (slots' # slots => (subject = "streams" => Streams!StaysFinal))
  <1>1. CASE StreamsStep
    <2>1. subject = "streams" /\ subject' = "streams" /\ Streams!Next
      BY <1>1 DEF StreamsStep
    <2>2. CASE Streams!AnthropicStep
      <3>1. slot11 = "anthropic" /\ slot11' = slot11 /\ Streams!Anthropic!Next
        BY <2>2 DEF Streams!AnthropicStep
      <3> QED BY <2>1, <3>1, AnthropicFinal DEF FinalInv, FinalOf, Streams!StaysFinal
    <2>3. CASE Streams!OpenAiStep
      <3>1. slot11 = "openai" /\ slot11' = slot11 /\ Streams!OpenAi!Next
        BY <2>3 DEF Streams!OpenAiStep
      <3> QED BY <2>1, <3>1, OpenAiFinal DEF FinalInv, FinalOf, Streams!StaysFinal
    <2>4. CASE Streams!ResponsesStep
      <3>1. slot11 = "responses" /\ slot11' = slot11 /\ Streams!Responses!Next
        BY <2>4 DEF Streams!ResponsesStep
      <3> QED BY <2>1, <3>1, ResponsesFinal DEF FinalInv, FinalOf, Streams!StaysFinal
    <2>5. CASE Streams!GoogleStep
      <3>1. slot11 = "google" /\ slot11' = slot11 /\ Streams!Google!Next
        BY <2>5 DEF Streams!GoogleStep
      <3> QED BY <2>1, <3>1, GoogleFinal DEF FinalInv, FinalOf, Streams!StaysFinal
    <2>6. CASE Streams!ProxyStep \/ Streams!ModelStep \/ Streams!RequestsStep
      BY <2>1, <2>6 DEF Streams!ProxyStep, Streams!ModelStep, Streams!RequestsStep, FinalInv,
                        Streams!StaysFinal
    <2> QED BY <2>1, <2>2, <2>3, <2>4, <2>5, <2>6 DEF Streams!Next
  <1>2. CASE UNCHANGED <<subject, vars, slots>>
    BY <1>2 DEF slots, slots1_4, slots5_7, slots8_9, slots10_11, FinalInv, AnthropicInv,
                UnendedInv, ResponsesInv
  <1>3. CASE SubprocessStep \/ ChainStep \/ FilesStep \/ BashStep
    BY <1>3 DEF SubprocessStep, ChainStep, FilesStep, BashStep, FinalInv
  <1> QED BY <1>1, <1>2, <1>3 DEF MCNext

\* A response succeeds or fails, never both, whatever its server, its body and
\* its connection do, for each of the four adapters: Done is the only terminal
\* event, and after an Error only an Error may come.
THEOREM ResponsesAreFinal == MCSpec => DoneIsFinal
  <1>1. FinalInv /\ [MCNext]_<<subject, vars, slots>>
          => FinalInv' /\ [subject = "streams" => Streams!StaysFinal]_slots
    BY FinalStep
  <1> QED BY <1>1, FinalStarts, PTL DEF MCSpec, DoneIsFinal

-----------------------------------------------------------------------------
(* MessageComplete: what a Done carries is what the server sent.           *)

sent      == slot1
pieces    == slot2
output    == slot3
phase     == slot4
terminals == slot5
emitted   == slot6
USE DEF sent, pieces, output, phase, terminals, emitted

Kinds == {"text", "thinking", "toolCall"}

\* Events of which none is a Done.
NoDone(es) == \A k \in DOMAIN es : es[k].type # "done"

LEMMA QuietNoDone == ASSUME NEW es, Quiet(es) PROVE NoDone(es)
  <1>1. PICK S : es \in Seq(S) /\ \A e \in S : e.type \notin Ending
    BY DEF Quiet
  <1> QED BY <1>1, Elements DEF NoDone, Ending

\* A block one piece longer.
LEMMA GrownBlock ==
  \A kd, ps, q : [[kind |-> kd, pieces |-> ps] EXCEPT !.pieces = Append(@, q)]
                   = [kind |-> kd, pieces |-> Append(ps, q)]
  OBVIOUS

-----------------------------------------------------------------------------
(* MessageComplete: Anthropic. *)

openBlocks == slot7
said      == slot8
closed    == slot10
USE DEF openBlocks, said, closed

\* What the message shows of a block of the server.
ShownBlock(b) ==
  Streams!Anthropic!Block(Streams!Anthropic!KindOf(b.type),
                          IF b.open /\ b.type = "tool_use" THEN <<>> ELSE b.pieces)
Unfinished(b) == Streams!Anthropic!Block(Streams!Anthropic!KindOf(b.type), b.pieces)

\* The server has sent no block of an unknown type.
AllKnown == \A k \in DOMAIN sent : sent[k].type \in Streams!Anthropic!Known

\* Until the stream is closed the message copies the server's blocks, a call's
\* arguments once it has ended, and the unended ones are those still open.
AnthropicCopy ==
  /\ sent \in Seq([type : Types, pieces : Seq(Nat), open : BOOLEAN])
  /\ pieces \in Nat
  /\ sent # <<>> => "start" \in said
  /\ "stop" \in said => terminals # <<>> \/ closed
  /\ AllKnown => /\ output = [k \in DOMAIN sent |-> ShownBlock(sent[k])]
                 /\ openBlocks = [k \in {j \in DOMAIN sent : sent[j].open} |-> Unfinished(sent[k])]
  /\ Streams!Anthropic!MessageComplete

\* A step that yields no Done.
LEMMA AnthropicGoesOn ==
  ASSUME AnthropicCopy, UNCHANGED <<sent, pieces, output, openBlocks, said>>,
         NoDone(emitted'), terminals # <<>> \/ closed => terminals' # <<>> \/ closed'
  PROVE  AnthropicCopy'
  <1>1. Streams!Anthropic!MessageComplete'
    BY DEF Streams!Anthropic!MessageComplete, NoDone
  <1> QED BY <1>1 DEF AnthropicCopy, AllKnown

\* A block begun is begun in the message too.
LEMMA AnthropicStarts ==
  ASSUME AnthropicCopy, NEW type \in Types, Streams!Anthropic!ContentBlockStart(type)
  PROVE  AnthropicCopy'
  <1> DEFINE index == Len(sent) + 1
             first == IF type = "redacted_thinking" THEN <<pieces + 1>> ELSE <<>>
             b     == [type |-> type, pieces |-> first, open |-> TRUE]
             block == Streams!Anthropic!Block(Streams!Anthropic!KindOf(type), first)
             B     == [type : Types, pieces : Seq(Nat), open : BOOLEAN]
  <1>1. /\ sent' = Append(sent, b) /\ pieces' = pieces + Len(first)
        /\ UNCHANGED <<said, closed>>
        /\ "start" \in said /\ "stop" \notin said /\ terminals = <<>>
    BY DEF Streams!Anthropic!ContentBlockStart, Streams!Anthropic!Streaming
  <1>2. /\ sent \in Seq(B) /\ pieces \in Nat
        /\ first \in Seq(Nat) /\ Len(first) \in Nat
        /\ Len(sent) \in Nat /\ DOMAIN sent = 1..Len(sent)
    BY DEF AnthropicCopy
  <1>3. b \in B
    BY <1>2
  <1>4. /\ sent' \in Seq(B) /\ pieces' \in Nat
        /\ DOMAIN sent' = DOMAIN sent \cup {index} /\ index \notin DOMAIN sent
        /\ sent'[index] = b
        /\ \A k \in DOMAIN sent : sent'[k] = sent[k]
    <2> HIDE DEF b, first
    <2> QED BY <1>1, <1>2, <1>3
  <1>5. NoDone(emitted')
    BY DEF Streams!Anthropic!ContentBlockStart, Streams!Anthropic!Yield,
           Streams!Anthropic!BlockStart, NoDone
  <1>6. ASSUME AllKnown'
        PROVE  /\ output' = [k \in DOMAIN sent' |-> ShownBlock(sent'[k])]
               /\ openBlocks' = [k \in {j \in DOMAIN sent' : sent'[j].open} |-> Unfinished(sent'[k])]
    <2>1. type \in Streams!Anthropic!Known /\ AllKnown
      BY <1>4, <1>6 DEF AllKnown
    <2>2. /\ output' = Append(output, block)
          /\ openBlocks' = [k \in DOMAIN openBlocks \cup {index} |->
                          IF k = index THEN block ELSE openBlocks[k]]
      BY <2>1 DEF Streams!Anthropic!ContentBlockStart
    <2>3. /\ output = [k \in DOMAIN sent |-> ShownBlock(sent[k])]
          /\ openBlocks = [k \in {j \in DOMAIN sent : sent[j].open} |-> Unfinished(sent[k])]
      BY <2>1 DEF AnthropicCopy
    <2>4. ShownBlock(b) = block /\ Unfinished(b) = block
      BY DEF ShownBlock, Unfinished
    <2> HIDE DEF block, b
    <2>5. output' = [k \in DOMAIN sent' |-> ShownBlock(sent'[k])]
      <3> DEFINE T == {ShownBlock(sent[k]) : k \in DOMAIN sent}
      <3>1. output \in Seq(T) /\ Len(output) = Len(sent)
        BY <1>2, <2>3
      <3>2. /\ DOMAIN output' = DOMAIN output \cup {index}
            /\ output'[index] = block /\ \A k \in DOMAIN output : output'[k] = output[k]
            /\ DOMAIN output = DOMAIN sent
            /\ output' = [k \in DOMAIN output' |-> output'[k]]
        <4> DEFINE o == output
        <4>1. block \in T \cup {block} /\ o \in Seq(T \cup {block})
          BY <3>1
        <4> HIDE DEF T, o
        <4>2. /\ Append(o, block) \in Seq(T \cup {block})
              /\ DOMAIN Append(o, block) = 1..(Len(o) + 1) /\ DOMAIN o = 1..Len(o)
              /\ Append(o, block)[Len(o) + 1] = block
              /\ \A k \in 1..Len(o) : Append(o, block)[k] = o[k]
          BY <4>1
        <4>3. Append(o, block) = [k \in DOMAIN Append(o, block) |-> Append(o, block)[k]]
          BY <4>2, SequenceIsFunction
        <4> QED BY <1>2, <2>2, <3>1, <4>2, <4>3 DEF o
      <3> QED BY <1>4, <2>3, <2>4, <3>2
    <2>6. openBlocks' = [k \in {j \in DOMAIN sent' : sent'[j].open} |-> Unfinished(sent'[k])]
      <3>1. {j \in DOMAIN sent' : sent'[j].open} = {j \in DOMAIN sent : sent[j].open} \cup {index}
        BY <1>4 DEF b
      <3>2. \A k \in {j \in DOMAIN sent : sent[j].open} : k # index
        BY <1>4
      <3> QED BY <1>4, <2>2, <2>3, <2>4, <3>1, <3>2
    <2> QED BY <2>5, <2>6
  <1>7. Streams!Anthropic!MessageComplete'
    BY <1>5 DEF Streams!Anthropic!MessageComplete, NoDone
  <1> QED BY <1>1, <1>4, <1>6, <1>7 DEF AnthropicCopy

\* A piece goes to the block it is a piece of, and to the message unless it
\* is a call's argument.
LEMMA AnthropicDelta ==
  ASSUME AnthropicCopy, NEW index \in DOMAIN sent, Streams!Anthropic!ContentBlockDelta(index)
  PROVE  AnthropicCopy'
  <1> DEFINE p == pieces + 1
             B == [type : Types, pieces : Seq(Nat), open : BOOLEAN]
             b == [sent[index] EXCEPT !.pieces = Append(@, p)]
             kind == Streams!Anthropic!KindOf(sent[index].type)
  <1>1. /\ sent' = [sent EXCEPT ![index].pieces = Append(@, p)] /\ pieces' = p
        /\ UNCHANGED <<said, closed>>
        /\ sent[index].open /\ sent[index].type # "redacted_thinking"
        /\ "start" \in said /\ "stop" \notin said /\ terminals = <<>>
    BY DEF Streams!Anthropic!ContentBlockDelta, Streams!Anthropic!Streaming
  <1>2. sent \in Seq(B) /\ pieces \in Nat /\ sent[index] \in B
    <2>1. sent \in Seq(B) /\ pieces \in Nat
      BY DEF AnthropicCopy
    <2> HIDE DEF B
    <2> QED BY <2>1, Elements
  <1>3. /\ b \in B /\ b.type = sent[index].type /\ b.open = sent[index].open
        /\ b.pieces = Append(sent[index].pieces, p) /\ p \in Nat
    <2>1. p \in Nat /\ sent[index].pieces \in Seq(Nat)
      BY <1>2
    <2>2. Append(sent[index].pieces, p) \in Seq(Nat)
      BY <2>1
    <2> DEFINE q == Append(sent[index].pieces, p)
    <2>3. b = [sent[index] EXCEPT !.pieces = q]
      OBVIOUS
    <2> HIDE DEF q, b
    <2>4. b \in B /\ b.type = sent[index].type /\ b.open = sent[index].open /\ b.pieces = q
      BY <1>2, <2>2, <2>3 DEF q
    <2> QED BY <2>1, <2>4 DEF q
  <1>4. sent' = [sent EXCEPT ![index] = b]
    BY <1>1, <1>2
  <1> HIDE DEF b
  <1>5. /\ sent' \in Seq(B) /\ DOMAIN sent' = DOMAIN sent /\ sent'[index] = b
        /\ \A k \in DOMAIN sent \ {index} : sent'[k] = sent[k]
    BY <1>2, <1>3, <1>4
  <1>6. NoDone(emitted')
    BY DEF Streams!Anthropic!ContentBlockDelta, Streams!Anthropic!Yield,
           Streams!Anthropic!Delta, NoDone
  <1>7. ASSUME AllKnown'
        PROVE  /\ output' = [k \in DOMAIN sent' |-> ShownBlock(sent'[k])]
               /\ openBlocks' = [k \in {j \in DOMAIN sent' : sent'[j].open} |-> Unfinished(sent'[k])]
    <2>1. AllKnown
      <3> SUFFICES ASSUME NEW k \in DOMAIN sent PROVE sent[k].type \in Streams!Anthropic!Known
        BY DEF AllKnown
      <3>1. sent'[k].type = sent[k].type
        BY <1>3, <1>5
      <3> QED BY <1>5, <1>7, <3>1 DEF AllKnown
    <2>2. sent[index].type \in Streams!Anthropic!Known
      BY <2>1 DEF AllKnown
    <2>3. /\ output' = Streams!Anthropic!Grown(output, index, kind, p)
          /\ openBlocks' = [openBlocks EXCEPT ![index].pieces = Append(@, p)]
      BY <2>2 DEF Streams!Anthropic!ContentBlockDelta
    <2>4. /\ output = [k \in DOMAIN sent |-> ShownBlock(sent[k])]
          /\ openBlocks = [k \in {j \in DOMAIN sent : sent[j].open} |-> Unfinished(sent[k])]
      BY <2>1 DEF AnthropicCopy
    <2>5. openBlocks' = [k \in {j \in DOMAIN sent' : sent'[j].open} |-> Unfinished(sent'[k])]
      <3>1. {j \in DOMAIN sent' : sent'[j].open} = {j \in DOMAIN sent : sent[j].open}
        BY <1>3, <1>5
      <3>2. [Unfinished(sent[index]) EXCEPT !.pieces = Append(@, p)] = Unfinished(b)
        <4>1. Unfinished(sent[index]) = [kind |-> kind, pieces |-> sent[index].pieces]
          BY DEF Unfinished, Streams!Anthropic!Block
        <4>2. Unfinished(b) = [kind |-> kind, pieces |-> Append(sent[index].pieces, p)]
          BY <1>3 DEF Unfinished, Streams!Anthropic!Block
        <4> DEFINE ps == sent[index].pieces
        <4>3. [[kind |-> kind, pieces |-> ps] EXCEPT !.pieces = Append(@, p)]
                = [kind |-> kind, pieces |-> Append(ps, p)]
          BY GrownBlock
        <4> HIDE DEF kind, p, ps
        <4> QED BY <4>1, <4>2, <4>3 DEF ps
      <3> QED BY <1>1, <1>5, <2>3, <2>4, <3>1, <3>2
    <2>6. output' = [k \in DOMAIN sent' |-> ShownBlock(sent'[k])]
      <3>1. output[index].kind = kind /\ index \in DOMAIN output
        BY <2>4 DEF ShownBlock, Streams!Anthropic!Block
      <3>2. (kind = "toolCall") <=> (sent[index].type = "tool_use")
        BY DEF Streams!Anthropic!KindOf
      <3>3. CASE kind = "toolCall"
        <4>1. output' = output
          BY <2>3, <3>3 DEF Streams!Anthropic!Grown
        <4>2. ShownBlock(b) = ShownBlock(sent[index])
          BY <1>1, <1>3, <3>2, <3>3 DEF ShownBlock
        <4> QED BY <1>5, <2>4, <4>1, <4>2
      <3>4. CASE kind # "toolCall"
        <4>1. output' = [output EXCEPT ![index].pieces = Append(@, p)]
          BY <2>3, <3>1, <3>4 DEF Streams!Anthropic!Grown, Streams!Anthropic!At
        <4>2. [ShownBlock(sent[index]) EXCEPT !.pieces = Append(@, p)] = ShownBlock(b)
          <5>1. ShownBlock(sent[index]) = [kind |-> kind, pieces |-> sent[index].pieces]
            BY <3>2, <3>4 DEF ShownBlock, Streams!Anthropic!Block
          <5>2. ShownBlock(b) = [kind |-> kind, pieces |-> Append(sent[index].pieces, p)]
            BY <1>3, <3>2, <3>4 DEF ShownBlock, Streams!Anthropic!Block
          <5> DEFINE ps == sent[index].pieces
          <5>3. [[kind |-> kind, pieces |-> ps] EXCEPT !.pieces = Append(@, p)]
                  = [kind |-> kind, pieces |-> Append(ps, p)]
            BY GrownBlock
          <5> HIDE DEF kind, p, ps
          <5> QED BY <5>1, <5>2, <5>3 DEF ps
        <4> QED BY <1>5, <2>4, <4>1, <4>2
      <3> QED BY <3>3, <3>4
    <2> QED BY <2>5, <2>6
  <1>8. Streams!Anthropic!MessageComplete'
    BY <1>6 DEF Streams!Anthropic!MessageComplete, NoDone
  <1> QED BY <1>1, <1>3, <1>5, <1>7, <1>8 DEF AnthropicCopy

\* A block ended has all its pieces in the message.
LEMMA AnthropicStops ==
  ASSUME AnthropicCopy, NEW index \in DOMAIN sent, Streams!Anthropic!ContentBlockStop(index)
  PROVE  AnthropicCopy'
  <1> DEFINE B == [type : Types, pieces : Seq(Nat), open : BOOLEAN]
             b == [sent[index] EXCEPT !.open = FALSE]
             kind == Streams!Anthropic!KindOf(sent[index].type)
  <1>1. /\ sent' = [sent EXCEPT ![index].open = FALSE]
        /\ UNCHANGED <<pieces, said, closed>>
        /\ sent[index].open
        /\ "start" \in said /\ "stop" \notin said /\ terminals = <<>>
    BY DEF Streams!Anthropic!ContentBlockStop, Streams!Anthropic!Streaming
  <1>2. sent \in Seq(B) /\ pieces \in Nat /\ sent[index] \in B
    <2>1. sent \in Seq(B) /\ pieces \in Nat
      BY DEF AnthropicCopy
    <2> HIDE DEF B
    <2> QED BY <2>1, Elements
  <1>3. b \in B /\ b.type = sent[index].type /\ b.open = FALSE /\ b.pieces = sent[index].pieces
    BY <1>2
  <1>4. sent' = [sent EXCEPT ![index] = b]
    BY <1>1, <1>2
  <1> HIDE DEF b
  <1>5. /\ sent' \in Seq(B) /\ DOMAIN sent' = DOMAIN sent /\ sent'[index] = b
        /\ \A k \in DOMAIN sent \ {index} : sent'[k] = sent[k]
    BY <1>2, <1>3, <1>4
  <1>6. NoDone(emitted')
    BY DEF Streams!Anthropic!ContentBlockStop, Streams!Anthropic!Yield,
           Streams!Anthropic!BlockEnd, NoDone
  <1>7. ASSUME AllKnown'
        PROVE  /\ output' = [k \in DOMAIN sent' |-> ShownBlock(sent'[k])]
               /\ openBlocks' = [k \in {j \in DOMAIN sent' : sent'[j].open} |-> Unfinished(sent'[k])]
    <2>1. AllKnown
      <3> SUFFICES ASSUME NEW k \in DOMAIN sent PROVE sent[k].type \in Streams!Anthropic!Known
        BY DEF AllKnown
      <3>1. sent'[k].type = sent[k].type
        BY <1>3, <1>5
      <3> QED BY <1>5, <1>7, <3>1 DEF AllKnown
    <2>2. /\ output = [k \in DOMAIN sent |-> ShownBlock(sent[k])]
          /\ openBlocks = [k \in {j \in DOMAIN sent : sent[j].open} |-> Unfinished(sent[k])]
      BY <2>1 DEF AnthropicCopy
    <2>3. /\ index \in DOMAIN openBlocks /\ openBlocks[index].kind = kind
          /\ openBlocks[index].pieces = sent[index].pieces
          /\ index \in DOMAIN output /\ output[index].kind = kind
      BY <1>1, <2>2 DEF Unfinished, ShownBlock, Streams!Anthropic!Block
    <2>4. /\ openBlocks' = [k \in DOMAIN openBlocks \ {index} |-> openBlocks[k]]
          /\ output' = [output EXCEPT ![index].pieces = sent[index].pieces]
      BY <2>3 DEF Streams!Anthropic!ContentBlockStop, Streams!Anthropic!At
    <2>5. {j \in DOMAIN sent' : sent'[j].open} = {j \in DOMAIN sent : sent[j].open} \ {index}
      BY <1>3, <1>5
    <2>6. openBlocks' = [k \in {j \in DOMAIN sent' : sent'[j].open} |-> Unfinished(sent'[k])]
      BY <1>5, <2>2, <2>4, <2>5
    <2>7. [ShownBlock(sent[index]) EXCEPT !.pieces = sent[index].pieces] = ShownBlock(b)
      BY <1>3 DEF ShownBlock, Streams!Anthropic!Block
    <2>8. output' = [k \in DOMAIN sent' |-> ShownBlock(sent'[k])]
      BY <1>5, <2>2, <2>4, <2>7
    <2> QED BY <2>6, <2>8
  <1>8. Streams!Anthropic!MessageComplete'
    BY <1>6 DEF Streams!Anthropic!MessageComplete, NoDone
  <1> QED BY <1>1, <1>2, <1>5, <1>7, <1>8 DEF AnthropicCopy

\* A message with no block unfinished is whole.
LEMMA AnthropicWhole ==
  ASSUME AnthropicCopy, AllKnown, Streams!Anthropic!Finished
  PROVE  output = Streams!Anthropic!Whole
  <1>1. \A k \in DOMAIN sent : ShownBlock(sent[k]) = Unfinished(sent[k])
    BY DEF Streams!Anthropic!Finished, ShownBlock, Unfinished
  <1> QED BY <1>1 DEF AnthropicCopy, Streams!Anthropic!Whole, Unfinished

\* Every event keeps the copy, and a Done has a whole message.
LEMMA AnthropicSteps ==
  ASSUME AnthropicCopy, Streams!Anthropic!Next
  PROVE  AnthropicCopy'
  <1>0. \A es : Streams!Anthropic!Terminals(es) = EndsIn(es)
    BY StreamLibrary
  <1>1. CASE Streams!Anthropic!SetupFails \/ Streams!Anthropic!ErrorEvent
    <2>1. PICK e : e.type = "error" /\ Streams!Anthropic!Yield(<<e>>)
      BY <1>1 DEF Streams!Anthropic!SetupFails, Streams!Anthropic!ErrorEvent,
                  Streams!Anthropic!Error
    <2>2. NoDone(emitted')
      BY <2>1 DEF Streams!Anthropic!Yield, NoDone
    <2>3. terminals = <<>> /\ ~closed /\ UNCHANGED <<sent, pieces, output, openBlocks, said>>
      BY <1>1 DEF Streams!Anthropic!SetupFails, Streams!Anthropic!ErrorEvent,
                  Streams!Anthropic!server
    <2> QED BY <2>2, <2>3, AnthropicGoesOn
  <1>2. CASE Streams!Anthropic!MessageStart
    <2>1. /\ UNCHANGED <<sent, pieces, output, openBlocks, closed>> /\ said = {} /\ said' = {"start"}
          /\ NoDone(emitted')
      BY <1>2 DEF Streams!Anthropic!MessageStart, Streams!Anthropic!server,
                  Streams!Anthropic!Yield, Streams!Anthropic!Start, NoDone
    <2>2. Streams!Anthropic!MessageComplete'
      BY <2>1 DEF Streams!Anthropic!MessageComplete, NoDone
    <2> QED BY <2>1, <2>2 DEF AnthropicCopy, AllKnown
  <1>3. CASE \E type \in Types : Streams!Anthropic!ContentBlockStart(type)
    BY <1>3, AnthropicStarts
  <1>4. CASE \E index \in DOMAIN sent : Streams!Anthropic!ContentBlockDelta(index)
    BY <1>4, AnthropicDelta
  <1>5. CASE \E index \in DOMAIN sent : Streams!Anthropic!ContentBlockStop(index)
    BY <1>5, AnthropicStops
  <1>6. CASE \E r \in Reasons : Streams!Anthropic!MessageDelta(r)
    <2>1. /\ UNCHANGED <<sent, pieces, output, openBlocks, said, closed>> /\ emitted' = <<>>
          /\ terminals = <<>> /\ ~closed /\ "stop" \notin said
      BY <1>6 DEF Streams!Anthropic!MessageDelta, Streams!Anthropic!Streaming,
                  Streams!Anthropic!server, Streams!Anthropic!Yield
    <2>2. NoDone(emitted')
      BY <2>1 DEF NoDone
    <2> QED BY <2>1, <2>2, AnthropicGoesOn
  <1>7. CASE Streams!Anthropic!MessageStop
    <2> DEFINE e == Streams!Anthropic!Done(slot9, output)
    <2>1. /\ UNCHANGED <<sent, pieces, output, openBlocks, closed>>
          /\ "start" \in said /\ said' = said \cup {"stop"} /\ terminals = <<>>
          /\ Streams!Anthropic!Finished /\ Streams!Anthropic!Yield(<<e>>)
      BY <1>7 DEF Streams!Anthropic!MessageStop, Streams!Anthropic!Streaming,
                  Streams!Anthropic!server
    <2>2. e.type = "done" /\ e.message = output
      BY DEF Streams!Anthropic!Done
    <2> HIDE DEF e
    <2>3. emitted' = <<e>> /\ terminals' = <<e>>
      BY <1>0, <2>1, <2>2, OneEnd DEF Streams!Anthropic!Yield, Ending
    <2>4. Streams!Anthropic!MessageComplete'
      BY <2>1, <2>2, <2>3, AnthropicWhole
         DEF Streams!Anthropic!MessageComplete, Streams!Anthropic!Finished,
             Streams!Anthropic!Whole, AllKnown
    <2> QED BY <2>1, <2>3, <2>4 DEF AnthropicCopy, AllKnown
  <1>8. CASE Streams!Anthropic!EndOfBody
    <2>1. /\ UNCHANGED <<sent, pieces, output, openBlocks, said>> /\ ~closed /\ closed'
      BY <1>8 DEF Streams!Anthropic!EndOfBody, Streams!Anthropic!server
    <2>2. PICK broken \in BOOLEAN : emitted' = Streams!Anthropic!Finalize(broken)
      BY <1>8 DEF Streams!Anthropic!EndOfBody, Streams!Anthropic!Yield
    <2>3. \/ NoDone(emitted')
          \/ /\ terminals = <<>> /\ ~("start" \in said /\ "stop" \notin said)
             /\ emitted' = <<Streams!Anthropic!Done(slot9, output)>>
      BY <2>2 DEF Streams!Anthropic!Finalize, Streams!Anthropic!Error, NoDone
    <2>4. CASE NoDone(emitted')
      BY <2>1, <2>4, AnthropicGoesOn
    <2>5. CASE /\ terminals = <<>> /\ ~("start" \in said /\ "stop" \notin said)
               /\ emitted' = <<Streams!Anthropic!Done(slot9, output)>>
      <3>1. sent = <<>>
        BY <2>1, <2>5 DEF AnthropicCopy
      <3>2. Streams!Anthropic!Finished /\ AllKnown
        BY <3>1 DEF Streams!Anthropic!Finished, AllKnown
      <3>3. Streams!Anthropic!MessageComplete'
        BY <2>1, <2>5, <3>1, <3>2, AnthropicWhole
           DEF Streams!Anthropic!MessageComplete, Streams!Anthropic!Finished,
               Streams!Anthropic!Whole, Streams!Anthropic!Done
      <3> QED BY <2>1, <3>3 DEF AnthropicCopy, AllKnown
    <2> QED BY <2>3, <2>4, <2>5
  <1> QED BY <1>1, <1>2, <1>3, <1>4, <1>5, <1>6, <1>7, <1>8 DEF Streams!Anthropic!Next

LEMMA AnthropicInit == Streams!Anthropic!Init => AnthropicCopy
  BY DEF Streams!Anthropic!Init, AnthropicCopy, AllKnown, Streams!Anthropic!MessageComplete

-----------------------------------------------------------------------------
(* MessageComplete: OpenAI. *)

current   == slot7
USE DEF current

SentBlocks == Seq([kind : Kinds, pieces : Seq(Nat)])

\* What the message holds of the server's blocks while cur is being built: of
\* a call all but its arguments.
Held(cur, bl) ==
  [k \in DOMAIN bl |-> IF k = Len(bl) /\ cur.kind = "toolCall"
                         THEN Streams!OpenAi!Block("toolCall", <<>>) ELSE bl[k]]

\* The block being built is the server's last.
Building(w, bl) ==
  /\ bl \in SentBlocks
  /\ w.output = Held(w.current, bl)
  /\ IF bl = <<>> THEN w.current = Streams!OpenAi!None
     ELSE /\ w.current.kind = bl[Len(bl)].kind
          /\ DOMAIN w.current = {"kind", "call", "args"}
          /\ w.current = [kind |-> w.current.kind, call |-> w.current.call, args |-> w.current.args]
          /\ w.current.kind = "toolCall" => /\ w.current.call = Streams!OpenAi!Calls(bl)
                                            /\ w.current.args = bl[Len(bl)].pieces

\* A call more is a call more, and what changes no kind changes no count.
LEMMA CallsCounted ==
  ASSUME NEW bl \in SentBlocks
  PROVE  /\ Streams!OpenAi!Calls(bl) \in Nat
         /\ \A x \in [kind : Kinds, pieces : Seq(Nat)] :
              Streams!OpenAi!Calls(Append(bl, x)) =
                Streams!OpenAi!Calls(bl) + (IF x.kind = "toolCall" THEN 1 ELSE 0)
         /\ \A n \in DOMAIN bl : \A x : x.kind = bl[n].kind =>
              Streams!OpenAi!Calls([bl EXCEPT ![n] = x]) = Streams!OpenAi!Calls(bl)
  <1> DEFINE K(b) == {k \in DOMAIN b : b[k].kind = "toolCall"}
             B == [kind : Kinds, pieces : Seq(Nat)]
  <1>0. \A b : Streams!OpenAi!Calls(b) = Cardinality(K(b))
    BY DEF Streams!OpenAi!Calls, Streams!OpenAi!Cardinality, Cardinality
  <1>1. bl \in Seq(B) /\ DOMAIN bl = 1..Len(bl) /\ Len(bl) \in Nat
    BY DEF SentBlocks
  <1> HIDE DEF B
  <1>2. IsFiniteSet(K(bl)) /\ Cardinality(K(bl)) \in Nat
    <2>1. IsFiniteSet(1..Len(bl))
      BY <1>1, FS_Interval
    <2>2. K(bl) \subseteq 1..Len(bl)
      BY <1>1
    <2> QED BY <2>1, <2>2, FS_Subset, FS_CardinalityType
  <1>3. ASSUME NEW x \in B
        PROVE  Cardinality(K(Append(bl, x))) = Cardinality(K(bl)) + (IF x.kind = "toolCall" THEN 1 ELSE 0)
    <2>1. /\ DOMAIN Append(bl, x) = DOMAIN bl \cup {Len(bl) + 1}
          /\ Append(bl, x)[Len(bl) + 1] = x /\ Len(bl) + 1 \notin DOMAIN bl
          /\ \A k \in DOMAIN bl : Append(bl, x)[k] = bl[k]
      BY <1>1, <1>3
    <2>2. CASE x.kind = "toolCall"
      <3>1. K(Append(bl, x)) = K(bl) \cup {Len(bl) + 1} /\ Len(bl) + 1 \notin K(bl)
        BY <2>1, <2>2
      <3> HIDE DEF K
      <3>2. Cardinality(K(bl) \cup {Len(bl) + 1}) = Cardinality(K(bl)) + 1
        BY <1>2, <3>1, FS_AddElement
      <3> QED BY <2>2, <3>1, <3>2
    <2>3. CASE x.kind # "toolCall"
      <3>1. K(Append(bl, x)) = K(bl)
        BY <2>1, <2>3
      <3> HIDE DEF K
      <3> QED BY <1>2, <2>3, <3>1
    <2> QED BY <2>2, <2>3
  <1>4. ASSUME NEW n \in DOMAIN bl, NEW x, x.kind = bl[n].kind
        PROVE  K([bl EXCEPT ![n] = x]) = K(bl)
    BY <1>1, <1>4
  <1> HIDE DEF K
  <1> QED BY <1>0, <1>2, <1>3, <1>4 DEF B

\* Whether a part goes on with the block being built is whether the server
\* goes on with its last.
LEMMA PartOfServer ==
  ASSUME NEW w, NEW bl, NEW p \in Nat, Building(w, bl), NEW part \in Streams!OpenAi!Parts(bl, p)
  PROVE  /\ part.kind \in Kinds /\ part.piece \in Nat
         /\ Streams!OpenAi!Continues(w.current, part) <=>
              Len(bl) > 0 /\ bl[Len(bl)].kind = part.kind /\ part.call = Streams!OpenAi!Calls(bl)
         /\ ~Streams!OpenAi!Continues(w.current, part) /\ part.kind = "toolCall"
              => part.call = Streams!OpenAi!Calls(bl) + 1
  <1> DEFINE n == Len(bl)  made == Streams!OpenAi!Calls(bl)
  <1>1. bl \in SentBlocks /\ n \in Nat /\ DOMAIN bl = 1..n /\ made \in Nat
        /\ \A k \in 1..n : bl[k].kind \in Kinds
    <2>1. bl \in SentBlocks /\ made \in Nat
      BY CallsCounted DEF Building
    <2> HIDE DEF made
    <2>2. n \in Nat /\ DOMAIN bl = 1..n /\ \A k \in 1..n : bl[k] \in [kind : Kinds, pieces : Seq(Nat)]
      <3> DEFINE B == [kind : Kinds, pieces : Seq(Nat)]
      <3>1. bl \in Seq(B)
        BY <2>1 DEF SentBlocks
      <3> HIDE DEF B
      <3>2. n \in Nat /\ DOMAIN bl = 1..n /\ \A k \in 1..n : bl[k] \in B
        BY <3>1
      <3> QED BY <3>2 DEF B
    <2> QED BY <2>1, <2>2
  <1>2. \/ n > 0 /\ part = [kind |-> bl[n].kind, call |-> made, piece |-> p]
        \/ /\ \E k \in Kinds : part = [kind |-> k, call |-> made + (IF k = "toolCall" THEN 1 ELSE 0), piece |-> p]
           /\ n > 0 /\ part.kind # "toolCall" => bl[n].kind # part.kind
    BY DEF Streams!OpenAi!Parts, Kinds
  <1>3. /\ part.kind \in Kinds /\ part.piece = p
        /\ part.kind # "toolCall" => part.call = made
        /\ part.call = made \/ (part.call = made + 1 /\ part.kind = "toolCall")
        /\ part.call = made + 1 \/ (n > 0 /\ part.kind = bl[n].kind)
           \/ (part.kind # "toolCall" /\ (n > 0 => bl[n].kind # part.kind))
    BY <1>1, <1>2
  <1>4. n = 0 <=> bl = <<>>
    BY <1>1 DEF SentBlocks
  <1> HIDE DEF made, n
  <1>5. Streams!OpenAi!Continues(w.current, part) <=>
          n > 0 /\ bl[n].kind = part.kind /\ (part.kind = "toolCall" => part.call = made)
    <2>1. CASE bl = <<>>
      BY <1>3, <1>4, <2>1 DEF Building, Streams!OpenAi!Continues, Streams!OpenAi!None, Kinds
    <2>2. CASE bl # <<>>
      <3>1. /\ w.current.kind = bl[n].kind /\ n > 0
            /\ w.current.kind = "toolCall" => w.current.call = made
        BY <1>1, <1>4, <2>2 DEF Building, n, made
      <3> QED BY <3>1 DEF Streams!OpenAi!Continues
    <2> QED BY <2>1, <2>2
  <1> QED BY <1>1, <1>3, <1>5 DEF n, made

\* finish_current_block leaves the message with all the server sent.
LEMMA FinishedWhole ==
  ASSUME NEW w, NEW bl, Building(w, bl)
  PROVE  Streams!OpenAi!FinishCurrentBlock(w).output = bl
  <1> DEFINE n == Len(bl)  B == [kind : Kinds, pieces : Seq(Nat)]
  <1>1. bl \in Seq(B) /\ n \in Nat /\ DOMAIN bl = 1..n /\ w.output = Held(w.current, bl)
    BY DEF Building, SentBlocks
  <1>2. bl = [k \in 1..n |-> bl[k]] /\ \A k \in 1..n : bl[k] \in B
    <2> HIDE DEF B
    <2> QED BY <1>1
  <1>3. CASE bl = <<>>
    <2>1. w.current = Streams!OpenAi!None
      BY <1>3 DEF Building
    <2>2. w.output = bl
      BY <1>1, <1>2, <1>3 DEF Held
    <2> QED BY <2>1, <2>2 DEF Streams!OpenAi!FinishCurrentBlock
  <1>4. CASE bl # <<>>
    <2>1. /\ n \in 1..n /\ w.current.kind = bl[n].kind /\ bl[n] \in B
          /\ w.current.kind = "toolCall" => w.current.args = bl[n].pieces
      <3>1. n \in 1..n
        BY <1>1, <1>4
      <3> QED BY <1>2, <1>4, <3>1 DEF Building
    <2>2. w.current # Streams!OpenAi!None
      BY <2>1 DEF Streams!OpenAi!None, Kinds
    <2>3. DOMAIN w.output = 1..n /\ Len(w.output) = n
      BY <1>1 DEF Held
    <2>4. CASE w.current.kind # "toolCall"
      <3>1. w.output = bl
        BY <1>1, <1>2, <2>4 DEF Held
      <3> QED BY <2>2, <2>4, <3>1 DEF Streams!OpenAi!FinishCurrentBlock, Streams!OpenAi!Work
    <2>5. CASE w.current.kind = "toolCall"
      <3>1. Streams!OpenAi!FinishCurrentBlock(w).output =
              [w.output EXCEPT ![n].pieces = bl[n].pieces]
        BY <2>1, <2>2, <2>3, <2>5 DEF Streams!OpenAi!FinishCurrentBlock, Streams!OpenAi!Work
      <3>2. w.output[n] = [kind |-> "toolCall", pieces |-> <<>>]
        BY <1>1, <2>1, <2>5 DEF Held, Streams!OpenAi!Block
      <3>3. [w.output[n] EXCEPT !.pieces = bl[n].pieces] = bl[n]
        <4>1. bl[n] = [kind |-> bl[n].kind, pieces |-> bl[n].pieces]
          BY <2>1
        <4> QED BY <2>1, <2>5, <3>2, <4>1
      <3>4. [w.output EXCEPT ![n] = bl[n]] = bl
        <4>1. \A k \in 1..n : k # n => w.output[k] = bl[k]
          BY <1>1 DEF Held
        <4> QED BY <1>1, <1>2, <2>3, <4>1 DEF Held
      <3> QED BY <2>3, <3>1, <3>3, <3>4
    <2> QED BY <2>4, <2>5
  <1> QED BY <1>3, <1>4

\* A part of a chunk grows the message as it grows what the server sent.
LEMMA PartHandled ==
  ASSUME NEW w, NEW bl, NEW p \in Nat, Building(w, bl), NEW part \in Streams!OpenAi!Parts(bl, p)
  PROVE  Building(Streams!OpenAi!HandlePart(w, part), Streams!OpenAi!SentWith(bl, part))
  <1> DEFINE n  == Len(bl)
             B  == [kind : Kinds, pieces : Seq(Nat)]
             o  == Streams!OpenAi!Opened(w, part)
             h  == Streams!OpenAi!HandlePart(w, part)
             sw == Streams!OpenAi!SentWith(bl, part)
  <1>1. /\ part.kind \in Kinds /\ part.piece \in Nat
        /\ Streams!OpenAi!Continues(w.current, part) <=>
             n > 0 /\ bl[n].kind = part.kind /\ part.call = Streams!OpenAi!Calls(bl)
        /\ ~Streams!OpenAi!Continues(w.current, part) /\ part.kind = "toolCall"
             => part.call = Streams!OpenAi!Calls(bl) + 1
    BY PartOfServer
  <1>2. /\ bl \in Seq(B) /\ n \in Nat /\ DOMAIN bl = 1..n
        /\ \A k \in 1..n : bl[k] \in B
        /\ bl = [k \in 1..n |-> bl[k]]
    <2>1. bl \in Seq(B)
      BY DEF Building, SentBlocks
    <2> HIDE DEF B
    <2> QED BY <2>1
  <1>3. h.output = IF part.kind = "toolCall" THEN o.output
                     ELSE [o.output EXCEPT ![Len(o.output)].pieces = Append(@, part.piece)]
    BY DEF Streams!OpenAi!HandlePart, Streams!OpenAi!Work
  <1>4. h.current = [o.current EXCEPT !.args = Append(@, part.piece)]
    BY DEF Streams!OpenAi!HandlePart, Streams!OpenAi!Work
  <1>5. \A q \in Seq(Nat) : Append(q, part.piece) \in Seq(Nat)
    BY <1>1
  <1>6. CASE Streams!OpenAi!Continues(w.current, part)
    <2> DEFINE x == [kind |-> bl[n].kind, pieces |-> Append(bl[n].pieces, part.piece)]
    <2>1. o = w
      BY <1>6 DEF Streams!OpenAi!Opened
    <2>2. n > 0 /\ n \in 1..n /\ bl # <<>> /\ bl[n].kind = part.kind /\ bl[n] \in B
      <3> HIDE DEF B
      <3>1. n > 0 /\ n \in 1..n /\ bl[n].kind = part.kind
        BY <1>1, <1>2, <1>6
      <3> QED BY <1>2, <3>1
    <2>3. bl[n] = [kind |-> bl[n].kind, pieces |-> bl[n].pieces]
      BY <2>2
    <2>4. [bl[n] EXCEPT !.pieces = Append(@, part.piece)] = x
      BY <2>3, GrownBlock
    <2>5. sw = [bl EXCEPT ![n] = x]
      <3>1. sw = [bl EXCEPT ![n].pieces = Append(@, part.piece)]
        BY <1>1, <1>6 DEF Streams!OpenAi!SentWith
      <3> HIDE DEF x
      <3> QED BY <1>2, <2>2, <2>4, <3>1
    <2>6. x \in B /\ x.kind = bl[n].kind
      BY <1>5, <2>2
    <2>7. /\ sw \in Seq(B) /\ Len(sw) = n /\ DOMAIN sw = 1..n /\ sw[n] = x /\ sw # <<>>
          /\ \A k \in 1..n : k # n => sw[k] = bl[k]
          /\ sw = [k \in 1..n |-> IF k = n THEN x ELSE bl[k]]
      <3> HIDE DEF x, B
      <3>1. sw = [k \in 1..n |-> IF k = n THEN x ELSE bl[k]]
        BY <1>2, <2>2, <2>5
      <3>2. n \in DOMAIN bl
        BY <1>2, <2>2
      <3>3. /\ sw \in Seq(B) /\ Len(sw) = n /\ DOMAIN sw = DOMAIN bl /\ sw[n] = x
            /\ \A k \in DOMAIN bl : k # n => sw[k] = bl[k]
        <4> HIDE DEF sw
        <4> QED BY <1>2, <2>5, <2>6, <3>2, ExceptParts
      <3>4. sw # <<>>
        BY <2>2, <3>3
      <3> QED BY <1>2, <3>1, <3>3, <3>4
    <2>8. Streams!OpenAi!Calls(sw) = Streams!OpenAi!Calls(bl)
      <3>1. bl \in SentBlocks
        BY <1>2 DEF SentBlocks
      <3>2. n \in DOMAIN bl
        BY <1>2, <2>2
      <3>3. Streams!OpenAi!Calls([bl EXCEPT ![n] = x]) = Streams!OpenAi!Calls(bl)
        <4> HIDE DEF x, n
        <4> QED BY <2>6, <3>1, <3>2, CallsCounted
      <3> QED BY <2>5, <3>3
    <2>9. /\ w.current = [kind |-> w.current.kind, call |-> w.current.call, args |-> w.current.args]
          /\ w.current.kind = bl[n].kind
          /\ w.current.kind = "toolCall" => /\ w.current.call = Streams!OpenAi!Calls(bl)
                                            /\ w.current.args = bl[n].pieces
          /\ w.output = Held(w.current, bl)
      BY <2>2 DEF Building
    <2>10. h.current = [kind |-> w.current.kind, call |-> w.current.call,
                        args |-> Append(w.current.args, part.piece)]
      BY <1>4, <2>1, <2>9
    <2>11. h.output = Held(h.current, sw)
      <3>1. h.current.kind = bl[n].kind /\ Len(w.output) = n /\ DOMAIN w.output = 1..n
        BY <1>2, <2>9, <2>10 DEF Held
      <3>2. CASE part.kind = "toolCall"
        <4>1. h.output = Held(w.current, bl)
          BY <1>3, <2>1, <2>9, <3>2
        <4> QED BY <1>2, <2>2, <2>7, <2>9, <3>1, <3>2, <4>1 DEF Held
      <3>3. CASE part.kind # "toolCall"
        <4>1. w.output = bl
          BY <1>2, <2>2, <2>9, <3>3 DEF Held
        <4>2. h.output = [bl EXCEPT ![n].pieces = Append(@, part.piece)]
          BY <1>3, <2>1, <3>3, <4>1
        <4>3. h.output = sw
          BY <1>1, <1>6, <4>2 DEF Streams!OpenAi!SentWith
        <4>4. Held(h.current, sw) = [k \in 1..n |-> sw[k]]
          BY <2>2, <2>7, <3>1, <3>3 DEF Held
        <4>5. sw = [k \in 1..n |-> sw[k]]
          BY <2>7
        <4> QED BY <4>3, <4>4, <4>5
      <3> QED BY <3>2, <3>3
    <2>12. h.current.kind = "toolCall" => h.current.args = x.pieces
      BY <2>9, <2>10
    <2> HIDE DEF x, h, sw
    <2>13. sw \in SentBlocks
      BY <2>7 DEF SentBlocks
    <2> QED BY <2>6, <2>7, <2>8, <2>9, <2>10, <2>11, <2>12, <2>13 DEF Building, h, sw
  <1>7. CASE ~Streams!OpenAi!Continues(w.current, part)
    <2> DEFINE f == Streams!OpenAi!FinishCurrentBlock(w)
               e == Streams!OpenAi!Block(part.kind, <<>>)
               x == [kind |-> part.kind, pieces |-> <<part.piece>>]
    <2>1. f.output = bl
      BY FinishedWhole
    <2>2. /\ o.output = Append(bl, e)
          /\ o.current = [kind |-> part.kind, call |-> part.call, args |-> <<>>]
      BY <1>7, <2>1 DEF Streams!OpenAi!Opened, Streams!OpenAi!Work
    <2>3. sw = Append(bl, x)
      BY <1>1, <1>7 DEF Streams!OpenAi!SentWith, Streams!OpenAi!Block
    <2>4. /\ x \in B /\ e \in B /\ e = [kind |-> part.kind, pieces |-> <<>>]
          /\ [e EXCEPT !.pieces = Append(@, part.piece)] = x
      <3>1. <<part.piece>> \in Seq(Nat) /\ <<>> \in Seq(Nat) /\ Append(<<>>, part.piece) = <<part.piece>>
        BY <1>1
      <3>2. e = [kind |-> part.kind, pieces |-> <<>>]
        BY DEF Streams!OpenAi!Block
      <3>3. [e EXCEPT !.pieces = Append(@, part.piece)] = x
        BY <3>1, <3>2, GrownBlock
      <3>4. x \in B /\ [kind |-> part.kind, pieces |-> <<>>] \in B
        BY <1>1, <3>1
      <3> QED BY <3>2, <3>3, <3>4
    <2>5. h.current = [kind |-> part.kind, call |-> part.call, args |-> <<part.piece>>]
      BY <1>4, <2>2
    <2>6. \A y \in B : /\ Append(bl, y) \in Seq(B) /\ Len(Append(bl, y)) = n + 1
                       /\ Append(bl, y) # <<>> /\ DOMAIN Append(bl, y) = 1..(n + 1)
                       /\ Append(bl, y) = [k \in 1..(n + 1) |-> IF k = n + 1 THEN y ELSE bl[k]]
                       /\ Append(bl, y)[n + 1] = y
      <3> HIDE DEF B
      <3> QED BY <1>2, AppendParts
    <2>7. Streams!OpenAi!Calls(sw) = Streams!OpenAi!Calls(bl) + (IF part.kind = "toolCall" THEN 1 ELSE 0)
      <3>1. bl \in SentBlocks
        BY <1>2 DEF SentBlocks
      <3> QED BY <2>3, <2>4, <3>1, CallsCounted
    <2>8. h.output = Held(h.current, sw)
      <3>1. CASE part.kind = "toolCall"
        <4>1. h.output = [k \in 1..(n + 1) |-> IF k = n + 1 THEN e ELSE bl[k]]
          BY <1>3, <2>2, <2>4, <2>6, <3>1
        <4>2. Held(h.current, sw) = [k \in 1..(n + 1) |-> IF k = n + 1 THEN e ELSE sw[k]]
          BY <2>3, <2>4, <2>5, <2>6, <3>1 DEF Held
        <4>3. \A k \in 1..(n + 1) : k # n + 1 => sw[k] = bl[k]
          BY <2>3, <2>4, <2>6
        <4> QED BY <4>1, <4>2, <4>3
      <3>2. CASE part.kind # "toolCall"
        <4>1. h.output = [Append(bl, e) EXCEPT ![n + 1].pieces = Append(@, part.piece)]
          BY <1>3, <2>2, <2>4, <2>6, <3>2
        <4> HIDE DEF e, x, B
        <4>2. [Append(bl, e) EXCEPT ![n + 1].pieces = Append(@, part.piece)] = Append(bl, x)
          BY <1>2, <2>4, <2>6
        <4>3. Held(h.current, sw) = [k \in 1..(n + 1) |-> sw[k]]
          BY <2>3, <2>4, <2>5, <2>6, <3>2 DEF Held
        <4>4. sw = [k \in 1..(n + 1) |-> sw[k]]
          BY <2>3, <2>4, <2>6
        <4> QED BY <2>3, <4>1, <4>2, <4>3, <4>4
      <3> QED BY <3>1, <3>2
    <2>9. sw \in SentBlocks
      BY <2>3, <2>4, <2>6 DEF SentBlocks
    <2>10. sw # <<>> /\ sw[Len(sw)] = x
      BY <2>3, <2>4, <2>6
    <2>11. /\ h.current.kind = x.kind
           /\ h.current = [kind |-> h.current.kind, call |-> h.current.call, args |-> h.current.args]
           /\ DOMAIN h.current = {"kind", "call", "args"}
           /\ h.current.kind = "toolCall" => /\ h.current.call = Streams!OpenAi!Calls(sw)
                                             /\ h.current.args = x.pieces
      BY <1>1, <1>7, <2>5, <2>7
    <2> HIDE DEF h, sw, x
    <2> QED BY <2>8, <2>9, <2>10, <2>11 DEF Building, h, sw
  <1> QED BY <1>6, <1>7

\* The message and the block being built are what the server sent so far.
OpenAiCopy ==
  /\ pieces \in Nat
  /\ phase # "closed" =>
       Building(Streams!OpenAi!Work(output, current, <<>>), sent)
  /\ Streams!OpenAi!MessageComplete

LEMMA OpenAiInit == Streams!OpenAi!Init => OpenAiCopy
  BY DEF Streams!OpenAi!Init, OpenAiCopy, Building, Held, SentBlocks, Streams!OpenAi!Work,
         Streams!OpenAi!MessageComplete

\* Every chunk keeps the copy, and the end of the body has a whole message.
LEMMA OpenAiSteps ==
  ASSUME OpenAiCopy, Streams!OpenAi!Next
  PROVE  OpenAiCopy'
  <1> DEFINE w0 == Streams!OpenAi!Work(output, current, <<>>)
  <1>1. CASE Streams!OpenAi!Begin \/ Streams!OpenAi!FinishReason
    <2>1. UNCHANGED <<sent, pieces, output, current>> /\ phase # "closed"
      BY <1>1 DEF Streams!OpenAi!Begin, Streams!OpenAi!FinishReason
    <2>2. NoDone(emitted')
      BY <1>1 DEF Streams!OpenAi!Begin, Streams!OpenAi!FinishReason, Streams!OpenAi!Yield,
                  Streams!OpenAi!Start, Streams!OpenAi!Error, NoDone
    <2>3. Streams!OpenAi!MessageComplete'
      BY <2>2 DEF Streams!OpenAi!MessageComplete, NoDone
    <2> QED BY <2>1, <2>3 DEF OpenAiCopy, Streams!OpenAi!Work
  <1>2. CASE Streams!OpenAi!HandleDelta
    <2>1. PICK parts \in Streams!OpenAi!Chunks : Streams!OpenAi!Chunk(parts)
      BY <1>2 DEF Streams!OpenAi!HandleDelta
    <2> DEFINE w  == Streams!OpenAi!InTurn(Streams!OpenAi!HandlePart, w0, parts)
               sw == Streams!OpenAi!InTurn(Streams!OpenAi!SentWith, sent, parts)
    <2>2. /\ output' = w.output /\ current' = w.current /\ emitted' = w.events
          /\ sent' = sw /\ pieces' = pieces + Len(parts) /\ phase = "body" /\ phase' = phase
      BY <2>1 DEF Streams!OpenAi!Chunk, Streams!OpenAi!Yield
    <2>3. Building(w0, sent) /\ pieces \in Nat /\ Quiet(w0.events)
      BY <2>2, QuietMade DEF OpenAiCopy, Streams!OpenAi!Work
    <2>4. \/ \E a \in Streams!OpenAi!Parts(sent, pieces + 1) : parts = <<a>>
          \/ \E a \in Streams!OpenAi!Parts(sent, pieces + 1) :
               \E b \in Streams!OpenAi!Parts(Streams!OpenAi!SentWith(sent, a), pieces + 2) :
                 parts = <<a, b>>
      BY <2>1 DEF Streams!OpenAi!Chunks
    <2>5. Building(w, sw) /\ Quiet(w.events) /\ Len(parts) \in Nat
      <3> HIDE DEF w0
      <3>1. CASE \E a \in Streams!OpenAi!Parts(sent, pieces + 1) : parts = <<a>>
        <4>1. PICK a \in Streams!OpenAi!Parts(sent, pieces + 1) : parts = <<a>>
          BY <3>1
        <4>2. w = Streams!OpenAi!HandlePart(w0, a) /\ sw = Streams!OpenAi!SentWith(sent, a)
          BY <4>1 DEF Streams!OpenAi!InTurn
        <4>3. Len(parts) \in Nat /\ pieces + 1 \in Nat
          BY <2>3, <4>1
        <4> QED BY <2>3, <4>2, <4>3, PartHandled, OpenAiPartQuiet
      <3>2. CASE \E a \in Streams!OpenAi!Parts(sent, pieces + 1) :
               \E b \in Streams!OpenAi!Parts(Streams!OpenAi!SentWith(sent, a), pieces + 2) :
                 parts = <<a, b>>
        <4>0. PICK a \in Streams!OpenAi!Parts(sent, pieces + 1) :
                 \E b \in Streams!OpenAi!Parts(Streams!OpenAi!SentWith(sent, a), pieces + 2) :
                   parts = <<a, b>>
          BY <3>2
        <4>1. PICK b \in Streams!OpenAi!Parts(Streams!OpenAi!SentWith(sent, a), pieces + 2) :
                 parts = <<a, b>>
          BY <4>0
        <4> DEFINE w1 == Streams!OpenAi!HandlePart(w0, a)  s1 == Streams!OpenAi!SentWith(sent, a)
        <4>2. w = Streams!OpenAi!HandlePart(w1, b) /\ sw = Streams!OpenAi!SentWith(s1, b)
          BY <4>1 DEF Streams!OpenAi!InTurn
        <4>3. Len(parts) \in Nat /\ pieces + 1 \in Nat /\ pieces + 2 \in Nat
          BY <2>3, <4>1
        <4>4. Building(w1, s1) /\ Quiet(w1.events)
          BY <2>3, <4>3, PartHandled, OpenAiPartQuiet
        <4>5. b \in Streams!OpenAi!Parts(s1, pieces + 2)
          OBVIOUS
        <4> HIDE DEF w1, s1
        <4> QED BY <4>2, <4>3, <4>4, <4>5, PartHandled, OpenAiPartQuiet
      <3> QED BY <2>4, <3>1, <3>2
    <2> HIDE DEF w, sw, w0
    <2>6. Building(Streams!OpenAi!Work(w.output, w.current, <<>>), sw)
      BY <2>5 DEF Building, Streams!OpenAi!Work
    <2>7. NoDone(emitted')
      BY <2>2, <2>5, QuietNoDone
    <2>8. Streams!OpenAi!MessageComplete'
      BY <2>7 DEF Streams!OpenAi!MessageComplete, NoDone
    <2> QED BY <2>2, <2>3, <2>5, <2>6, <2>8 DEF OpenAiCopy
  <1>3. CASE Streams!OpenAi!EndOfBody
    <2> DEFINE w == Streams!OpenAi!FinishCurrentBlock(w0)
    <2>1. /\ phase = "body" /\ phase' = "closed" /\ UNCHANGED <<sent, pieces>>
          /\ \/ emitted' = Append(w.events, Streams!OpenAi!Error("error", w.output))
             \/ emitted' = Append(w.events, Streams!OpenAi!Done(
                  Streams!OpenAi!ResolveStopReason(w.output), w.output))
      BY <1>3 DEF Streams!OpenAi!EndOfBody, Streams!OpenAi!Yield
    <2>2. Building(w0, sent) /\ Quiet(w0.events)
      BY <2>1, QuietMade DEF OpenAiCopy, Streams!OpenAi!Work
    <2>3. w.output = sent
      BY <2>2, FinishedWhole
    <2>4. Quiet(w.events)
      BY <2>2, QuietMade DEF Streams!OpenAi!FinishCurrentBlock, Streams!OpenAi!Work,
                             Streams!OpenAi!BlockEnd, Ending
    <2>5. PICK e : emitted' = Append(w.events, e) /\ (e.type = "done" => e.message = sent)
      BY <2>1, <2>3 DEF Streams!OpenAi!Error, Streams!OpenAi!Done
    <2>6. PICK S : w.events \in Seq(S) /\ \A q \in S : q.type # "done"
      BY <2>4 DEF Quiet, Ending
    <2> HIDE DEF w
    <2>7. \A k \in DOMAIN emitted' : emitted'[k] \in S \/ emitted'[k] = e
      <3> DEFINE es == w.events
      <3>1. es \in Seq(S \cup {e}) /\ Append(es, e) \in Seq(S \cup {e})
        BY <2>6
      <3>2. \A k \in DOMAIN Append(es, e) : Append(es, e)[k] \in S \cup {e}
        BY <3>1, Elements
      <3> QED BY <2>5, <3>2
    <2>8. Streams!OpenAi!MessageComplete'
      BY <2>1, <2>5, <2>6, <2>7 DEF Streams!OpenAi!MessageComplete
    <2> QED BY <2>1, <2>8 DEF OpenAiCopy
  <1> QED BY <1>1, <1>2, <1>3 DEF Streams!OpenAi!Next

-----------------------------------------------------------------------------
(* MessageComplete: Responses. *)

style     == slot7
open      == slot8
buffers   == slot9
stopReason == slot10
USE DEF style, open, buffers, stopReason

Item == [kind : Kinds, pieces : Seq(Nat)]
VisibleItems == {b \in Item : b.kind # "text" \/ b.pieces # <<>>}

\* text_buffer has the text of the one text part, finished or not.
TextHeld(items) ==
  /\ \A k \in DOMAIN items : items[k].kind = "text" => buffers.text = items[k].pieces
  /\ (\A k \in DOMAIN items : items[k].kind # "text") => buffers.text = <<>>

\* The items but the last are in the message, and the buffers have the last.
ItemOpen ==
  \E items \in Seq(Item), x \in Item :
    /\ sent = Append(items, x)
    /\ Streams!Responses!OneText =>
         /\ output = Keep(items, VisibleItems)
         /\ TextHeld(sent)
         /\ buffers.thinking = IF x.kind = "thinking" /\ "deltas" \in style THEN x.pieces ELSE <<>>
         /\ x.kind = "toolCall" /\ style = {"deltas"} => buffers.toolCall = x.pieces

\* Every item is in the message.
ItemsDone ==
  Streams!Responses!OneText =>
    output = Keep(sent, VisibleItems) /\ TextHeld(sent) /\ buffers.thinking = <<>>

\* What the message and the buffers have of the items, while the body goes on.
ResponsesCopy ==
  /\ sent \in Seq(Item) /\ pieces \in Nat /\ open \in BOOLEAN
  /\ style \in {{"deltas"}, {"final"}, {"deltas", "final"}}
  /\ buffers \in [Kinds -> Seq(Nat)]
  /\ phase \in {"new", "body", "completed"} => IF open THEN ItemOpen ELSE ItemsDone
  /\ phase = "failed" => stopReason = "error"
  /\ phase = "new" => sent = <<>>
  /\ phase = "completed" => ~open
  /\ Streams!Responses!MessageComplete

\* The message the property asks for, as Keep.
LEMMA VisibleKept ==
  ASSUME NEW items \in Seq(Item)
  PROVE  Streams!Responses!Visible(items) = Keep(items, VisibleItems)
  <1> DEFINE T == {items[k] : k \in {j \in DOMAIN items : items[j].kind # "text" \/ items[j].pieces # <<>>}}
  <1>1. Streams!Responses!Visible(items) = Keep(items, T)
    BY DEF Streams!Responses!Visible, Streams!Responses!Keep, Keep
  <1>2. \A k \in DOMAIN items : items[k] \in Item
    BY Elements
  <1>3. ToSet(items) \cap T = ToSet(items) \cap VisibleItems
    BY <1>2 DEF ToSet, VisibleItems
  <1> HIDE DEF T
  <1> QED BY <1>1, <1>3, KeepSame

\* A step of no item, and of no Done.
LEMMA ResponsesGoesOn ==
  ASSUME ResponsesCopy, UNCHANGED <<sent, pieces, output, style, open, buffers>>,
         NoDone(emitted'), phase \in {"new", "body"}, phase' # "new",
         phase' = "failed" => stopReason' = "error", phase' = "completed" => ~open
  PROVE  ResponsesCopy'
  <1>1. Streams!Responses!MessageComplete'
    BY DEF Streams!Responses!MessageComplete, NoDone
  <1> QED BY <1>1 DEF ResponsesCopy, ItemOpen, ItemsDone, TextHeld, Streams!Responses!OneText

\* An item added resets the arguments' buffer, and is in no buffer yet.
LEMMA ResponsesAdds ==
  ASSUME ResponsesCopy, NEW kind \in Kinds, Streams!Responses!OutputItemAdded(kind)
  PROVE  ResponsesCopy'
  <1> DEFINE x == [kind |-> kind, pieces |-> <<>>]  n == Len(sent)
  <1>1. /\ sent' = Append(sent, x) /\ open' = TRUE /\ ~open /\ phase = "body"
        /\ buffers' = IF kind = "toolCall" THEN [buffers EXCEPT !["toolCall"] = <<>>] ELSE buffers
        /\ emitted' = <<>> /\ UNCHANGED <<pieces, style, output, phase, stopReason>>
    BY DEF Streams!Responses!OutputItemAdded, Streams!Responses!Block, Streams!Responses!Yield
  <1>2. x \in Item /\ sent \in Seq(Item) /\ ItemsDone
    BY <1>1 DEF Item, ResponsesCopy
  <1>3. /\ sent' \in Seq(Item) /\ n \in Nat /\ DOMAIN sent = 1..n /\ DOMAIN sent' = 1..(n + 1)
        /\ sent'[n + 1] = x /\ \A k \in 1..n : sent'[k] = sent[k]
    <2> HIDE DEF x
    <2> QED BY <1>1, <1>2, AppendParts
  <1>4. buffers' \in [Kinds -> Seq(Nat)] /\ buffers'.text = buffers.text
        /\ buffers'.thinking = buffers.thinking /\ (kind = "toolCall" => buffers'.toolCall = <<>>)
    BY <1>1 DEF ResponsesCopy, Kinds
  <1>5. ASSUME Streams!Responses!OneText'
        PROVE  /\ output' = Keep(sent, VisibleItems)
               /\ TextHeld(sent)'
               /\ buffers'.thinking = <<>>
    <2>1. Streams!Responses!OneText
      BY <1>3, <1>5 DEF Streams!Responses!OneText
    <2>2. output = Keep(sent, VisibleItems) /\ TextHeld(sent) /\ buffers.thinking = <<>>
      BY <1>2, <2>1 DEF ItemsDone
    <2>3. \A k \in 1..n : kind = "text" => sent[k].kind # "text"
      <3> SUFFICES ASSUME NEW k \in 1..n, kind = "text", sent[k].kind = "text" PROVE FALSE
        OBVIOUS
      <3>1. k \in 1..(n + 1) /\ n + 1 \in 1..(n + 1) /\ k # n + 1
        BY <1>3
      <3> QED BY <1>3, <1>5, <3>1 DEF Streams!Responses!OneText
    <2>4. \A k \in 1..(n + 1) : k \in 1..n \/ k = n + 1
      BY <1>3
    <2>5. TextHeld(sent)'
      <3>1. x.kind = kind /\ x.pieces = <<>> /\ n + 1 \in 1..(n + 1)
        BY <1>3
      <3> HIDE DEF x
      <3>2. CASE kind = "text"
        <4>1. buffers'.text = <<>>
          BY <1>3, <1>4, <2>2, <2>3, <3>2 DEF TextHeld
        <4> QED BY <1>3, <2>3, <2>4, <3>1, <3>2, <4>1 DEF TextHeld
      <3>3. CASE kind # "text"
        <4>1. \A k \in 1..n : k \in 1..(n + 1)
          BY <1>3
        <4> QED BY <1>3, <1>4, <2>2, <2>4, <3>1, <3>3, <4>1 DEF TextHeld
      <3> QED BY <3>2, <3>3
    <2> QED BY <1>1, <1>4, <2>2, <2>5
  <1>6. ItemOpen'
    <2> HIDE DEF x
    <2>1. x.kind = kind /\ x.pieces = <<>>
      BY DEF x
    <2> QED BY <1>1, <1>2, <1>4, <1>5, <2>1 DEF ItemOpen
  <1>7. Streams!Responses!MessageComplete'
    BY <1>1 DEF Streams!Responses!MessageComplete
  <1> QED BY <1>1, <1>3, <1>4, <1>6, <1>7 DEF ResponsesCopy

\* A delta grows the item and its buffer.
LEMMA ResponsesPiece ==
  ASSUME ResponsesCopy, Streams!Responses!PieceDelta
  PROVE  ResponsesCopy'
  <1> DEFINE p == pieces + 1
  <1>1. /\ sent' = [sent EXCEPT ![Len(sent)].pieces = Append(@, p)] /\ pieces' = p
        /\ open /\ phase = "body" /\ UNCHANGED <<style, open, output, phase, stopReason>>
        /\ IF "deltas" \in style \/ sent[Len(sent)].kind = "text"
             THEN buffers' = [buffers EXCEPT ![sent[Len(sent)].kind] = Append(@, p)]
             ELSE UNCHANGED buffers
    BY DEF Streams!Responses!PieceDelta, Streams!Responses!Last
  <1>2. NoDone(emitted')
    BY DEF Streams!Responses!PieceDelta, Streams!Responses!Yield, Streams!Responses!Delta, NoDone
  <1>3. PICK items \in Seq(Item), x \in Item :
          /\ sent = Append(items, x)
          /\ Streams!Responses!OneText =>
               /\ output = Keep(items, VisibleItems)
               /\ TextHeld(sent)
               /\ buffers.thinking = IF x.kind = "thinking" /\ "deltas" \in style THEN x.pieces ELSE <<>>
               /\ x.kind = "toolCall" /\ style = {"deltas"} => buffers.toolCall = x.pieces
    BY <1>1 DEF ResponsesCopy, ItemOpen
  <1> DEFINE n == Len(items)
             y == [kind |-> x.kind, pieces |-> Append(x.pieces, p)]
  <1>4. /\ x.kind \in Kinds /\ x.pieces \in Seq(Nat) /\ p \in Nat
        /\ x = [kind |-> x.kind, pieces |-> x.pieces]
    BY DEF Item, ResponsesCopy
  <1>5. Append(x.pieces, p) \in Seq(Nat) /\ y \in Item /\ Append(x.pieces, p) # <<>>
    <2>1. Append(x.pieces, p) \in Seq(Nat) /\ Append(x.pieces, p) # <<>>
      BY <1>4, AppendParts
    <2> QED BY <1>4, <2>1 DEF Item
  <1>6. /\ n \in Nat /\ Len(sent) = n + 1 /\ DOMAIN sent = 1..(n + 1) /\ sent[n + 1] = x
        /\ \A k \in 1..n : sent[k] = items[k]
    BY <1>3, AppendParts
  <1>7. sent' = Append(items, y)
    <2>1. [x EXCEPT !.pieces = Append(@, p)] = y
      BY <1>4, GrownBlock
    <2>2. sent' = [sent EXCEPT ![n + 1] = y]
      <3> HIDE DEF p, y
      <3> QED BY <1>1, <1>6, <2>1
    <2>3. sent = [k \in 1..(n + 1) |-> IF k = n + 1 THEN x ELSE items[k]]
      BY <1>3, AppendParts
    <2>4. Append(items, y) = [k \in 1..(n + 1) |-> IF k = n + 1 THEN y ELSE items[k]]
      <3> HIDE DEF y
      <3> QED BY <1>5, AppendParts
    <2> HIDE DEF y
    <2> QED BY <1>6, <2>2, <2>3, <2>4
  <1>8. /\ sent' \in Seq(Item) /\ DOMAIN sent' = 1..(n + 1) /\ sent'[n + 1] = y
        /\ \A k \in 1..n : sent'[k] = items[k]
    <2> HIDE DEF y
    <2> QED BY <1>5, <1>7, AppendParts
  <1>9. /\ buffers' \in [Kinds -> Seq(Nat)]
        /\ \A k \in Kinds :
             buffers'[k] = IF k = x.kind /\ ("deltas" \in style \/ k = "text")
                             THEN Append(buffers[k], p) ELSE buffers[k]
    <2>1. buffers \in [Kinds -> Seq(Nat)] /\ \A k \in Kinds : Append(buffers[k], p) \in Seq(Nat)
      BY <1>4 DEF ResponsesCopy
    <2> HIDE DEF p
    <2>2. x.kind \in Kinds /\ sent[Len(sent)].kind = x.kind
      BY <1>4, <1>6
    <2>3. CASE "deltas" \in style \/ x.kind = "text"
      <3> DEFINE q == Append(buffers[x.kind], p)
      <3>1. q \in Seq(Nat)
        BY <2>1, <2>2
      <3>2. buffers' = [buffers EXCEPT ![x.kind] = q]
        BY <1>1, <2>2, <2>3
      <3> HIDE DEF q
      <3>3. buffers' \in [Kinds -> Seq(Nat)]
            /\ \A k \in Kinds : buffers'[k] = IF k = x.kind THEN q ELSE buffers[k]
        BY <2>1, <2>2, <3>1, <3>2
      <3> QED BY <2>3, <3>3 DEF q
    <2>4. CASE ~("deltas" \in style \/ x.kind = "text")
      BY <1>1, <2>1, <2>2, <2>4
    <2> QED BY <2>3, <2>4
  <1>10. ASSUME Streams!Responses!OneText'
         PROVE  /\ output' = Keep(items, VisibleItems)
                /\ TextHeld(sent)'
                /\ buffers'.thinking = IF y.kind = "thinking" /\ "deltas" \in style' THEN y.pieces ELSE <<>>
                /\ y.kind = "toolCall" /\ style' = {"deltas"} => buffers'.toolCall = y.pieces
    <2>0. \A k \in 1..(n + 1) : k \in 1..n \/ k = n + 1
      BY <1>6
    <2>1. \A k \in 1..(n + 1) : sent'[k].kind = sent[k].kind
      BY <1>6, <1>8, <2>0
    <2>2. Streams!Responses!OneText
      BY <1>6, <1>8, <1>10, <2>1 DEF Streams!Responses!OneText
    <2>3. /\ output = Keep(items, VisibleItems)
          /\ TextHeld(sent)
          /\ buffers.thinking = IF x.kind = "thinking" /\ "deltas" \in style THEN x.pieces ELSE <<>>
          /\ x.kind = "toolCall" /\ style = {"deltas"} => buffers.toolCall = x.pieces
      BY <1>3, <2>2
    <2>4. TextHeld(sent)'
      <3>1. CASE x.kind = "text"
        <4>1. \A k \in 1..n : sent[k].kind # "text"
          <5> SUFFICES ASSUME NEW k \in 1..n, sent[k].kind = "text" PROVE FALSE
            OBVIOUS
          <5>1. k \in 1..(n + 1) /\ n + 1 \in 1..(n + 1) /\ k # n + 1
            BY <1>6
          <5> QED BY <1>6, <2>2, <3>1, <5>1 DEF Streams!Responses!OneText
        <4>2. buffers.text = x.pieces
          BY <1>6, <2>3, <3>1 DEF TextHeld
        <4>3. buffers'.text = y.pieces
          BY <1>9, <3>1, <4>2 DEF Kinds
        <4>4. n + 1 \in 1..(n + 1) /\ sent'[n + 1].kind = "text"
          BY <1>6, <1>8, <3>1
        <4> QED BY <1>6, <1>8, <2>0, <2>1, <4>1, <4>3, <4>4 DEF TextHeld
      <3>2. CASE x.kind # "text"
        <4>1. buffers'.text = buffers.text
          BY <1>9, <3>2 DEF Kinds
        <4>2. \A k \in 1..n : sent'[k] = sent[k]
          BY <1>6, <1>8
        <4>3. sent'[n + 1].kind # "text" /\ n + 1 \in 1..(n + 1)
          BY <1>6, <1>8, <3>2
        <4>4. \A k \in 1..(n + 1) : sent'[k].kind = "text" => sent'[k] = sent[k]
          BY <2>0, <4>2, <4>3
        <4> HIDE DEF y
        <4> QED BY <1>6, <1>8, <2>1, <2>3, <4>1, <4>4 DEF TextHeld
      <3> QED BY <3>1, <3>2
    <2>5. buffers'.thinking = IF y.kind = "thinking" /\ "deltas" \in style' THEN y.pieces ELSE <<>>
      BY <1>1, <1>9, <2>3 DEF Kinds
    <2>6. y.kind = "toolCall" /\ style' = {"deltas"} => buffers'.toolCall = y.pieces
      BY <1>1, <1>9, <2>3 DEF Kinds
    <2> QED BY <1>1, <2>3, <2>4, <2>5, <2>6
  <1>11. ItemOpen'
    <2> HIDE DEF y
    <2> QED BY <1>3, <1>5, <1>7, <1>10 DEF ItemOpen
  <1>12. Streams!Responses!MessageComplete'
    BY <1>2 DEF Streams!Responses!MessageComplete, NoDone
  <1> QED BY <1>1, <1>4, <1>8, <1>9, <1>11, <1>12 DEF ResponsesCopy

\* The final arguments replace the deltas they repeat.
LEMMA ResponsesArguments ==
  ASSUME ResponsesCopy, Streams!Responses!ArgumentsDone
  PROVE  ResponsesCopy'
  <1>1. /\ open /\ phase = "body" /\ "final" \in style
        /\ buffers' = [buffers EXCEPT !["toolCall"] = sent[Len(sent)].pieces]
        /\ UNCHANGED <<sent, pieces, style, open, output, phase, stopReason>>
    BY DEF Streams!Responses!ArgumentsDone, Streams!Responses!Last
  <1>2. NoDone(emitted')
    BY DEF Streams!Responses!ArgumentsDone, Streams!Responses!Yield, Streams!Responses!Delta, NoDone
  <1>3. ItemOpen
    BY <1>1 DEF ResponsesCopy
  <1>4. sent[Len(sent)].pieces \in Seq(Nat)
    <2>1. PICK items \in Seq(Item), x \in Item : sent = Append(items, x)
      BY <1>3 DEF ItemOpen
    <2>2. sent[Len(sent)] = x
      BY <2>1, AppendParts
    <2> QED BY <2>2 DEF Item
  <1>5. /\ buffers' \in [Kinds -> Seq(Nat)]
        /\ buffers'.text = buffers.text /\ buffers'.thinking = buffers.thinking
    BY <1>1, <1>4 DEF ResponsesCopy, Kinds
  <1>6. style # {"deltas"}
    BY <1>1
  <1>7. ItemOpen'
    BY <1>1, <1>3, <1>5, <1>6 DEF ItemOpen, TextHeld, Streams!Responses!OneText
  <1>8. Streams!Responses!MessageComplete'
    BY <1>2 DEF Streams!Responses!MessageComplete, NoDone
  <1> QED BY <1>1, <1>5, <1>7, <1>8 DEF ResponsesCopy

\* An item done goes into the message whole, and the thinking buffer is
\* emptied for the next.
LEMMA ResponsesItemDone ==
  ASSUME ResponsesCopy, Streams!Responses!OutputItemDone
  PROVE  ResponsesCopy'
  <1>1. /\ open /\ open' = FALSE /\ phase = "body"
        /\ (sent[Len(sent)].kind = "toolCall" /\ "final" \in style
              => buffers.toolCall = sent[Len(sent)].pieces)
        /\ emitted' = <<>> /\ UNCHANGED <<sent, pieces, style, phase>>
    BY DEF Streams!Responses!OutputItemDone, Streams!Responses!Last, Streams!Responses!Yield
  <1>2. PICK items \in Seq(Item), x \in Item :
          /\ sent = Append(items, x)
          /\ Streams!Responses!OneText =>
               /\ output = Keep(items, VisibleItems)
               /\ TextHeld(sent)
               /\ buffers.thinking = IF x.kind = "thinking" /\ "deltas" \in style THEN x.pieces ELSE <<>>
               /\ x.kind = "toolCall" /\ style = {"deltas"} => buffers.toolCall = x.pieces
    BY <1>1 DEF ResponsesCopy, ItemOpen
  <1>3. /\ x.kind \in Kinds /\ x = [kind |-> x.kind, pieces |-> x.pieces]
        /\ style \in {{"deltas"}, {"final"}, {"deltas", "final"}}
        /\ buffers \in [Kinds -> Seq(Nat)]
    BY DEF Item, ResponsesCopy
  <1>4. /\ Streams!Responses!Last = x /\ sent[Len(sent)] = x
        /\ Len(sent) \in DOMAIN sent
    BY <1>2, AppendParts DEF Streams!Responses!Last
  <1>5. Keep(sent, VisibleItems) = IF x \in VisibleItems THEN Append(Keep(items, VisibleItems), x) ELSE Keep(items, VisibleItems)
    BY <1>2, KeepAppend
  <1>6. x \in VisibleItems <=> x.kind # "text" \/ x.pieces # <<>>
    BY DEF VisibleItems
  <1>7. buffers' \in [Kinds -> Seq(Nat)] /\ buffers'.text = buffers.text
    <2>1. <<>> \in Seq(Nat)
      OBVIOUS
    <2>2. \/ buffers' = [buffers EXCEPT !["toolCall"] = <<>>]
          \/ buffers' = [buffers EXCEPT !["thinking"] = <<>>]
          \/ buffers' = buffers
      BY <1>3, <1>4 DEF Streams!Responses!OutputItemDone, Kinds
    <2> QED BY <1>3, <2>1, <2>2 DEF Kinds
  <1>8. ASSUME Streams!Responses!OneText
        PROVE  output' = Keep(sent, VisibleItems) /\ TextHeld(sent)' /\ buffers'.thinking = <<>>
    <2>1. /\ output = Keep(items, VisibleItems)
          /\ TextHeld(sent)
          /\ buffers.thinking = IF x.kind = "thinking" /\ "deltas" \in style THEN x.pieces ELSE <<>>
          /\ x.kind = "toolCall" /\ style = {"deltas"} => buffers.toolCall = x.pieces
      BY <1>2, <1>8
    <2>2. TextHeld(sent)'
      BY <1>1, <1>7, <2>1 DEF TextHeld
    <2>3. CASE x.kind = "toolCall"
      <3>1. buffers.toolCall = x.pieces
        BY <1>1, <1>3, <1>4, <2>1, <2>3
      <3>2. /\ output' = Append(output, [kind |-> "toolCall", pieces |-> buffers.toolCall])
            /\ buffers' = [buffers EXCEPT !["toolCall"] = <<>>]
        BY <1>4, <2>3 DEF Streams!Responses!OutputItemDone, Streams!Responses!Block
      <3>3. output' = Append(output, x)
        BY <1>3, <2>3, <3>1, <3>2
      <3>4. buffers'.thinking = <<>>
        BY <1>3, <2>1, <2>3, <3>2 DEF Kinds
      <3> QED BY <1>5, <1>6, <2>1, <2>2, <2>3, <3>3, <3>4
    <2>4. CASE x.kind = "thinking"
      <3>1. Streams!Responses!ItemText = x.pieces
        BY <1>3, <1>4, <2>1, <2>4 DEF Streams!Responses!ItemText
      <3>2. /\ output' = Append(output, [kind |-> "thinking", pieces |-> x.pieces])
            /\ buffers' = [buffers EXCEPT !["thinking"] = <<>>]
        BY <1>4, <2>4, <3>1 DEF Streams!Responses!OutputItemDone, Streams!Responses!Block
      <3>3. output' = Append(output, x)
        BY <1>3, <2>4, <3>2
      <3>4. buffers'.thinking = <<>>
        BY <1>3, <3>2 DEF Kinds
      <3> QED BY <1>5, <1>6, <2>1, <2>2, <2>4, <3>3, <3>4
    <2>5. CASE x.kind = "text"
      <3>1. buffers.text = x.pieces
        BY <1>4, <2>1, <2>5 DEF TextHeld
      <3>2. /\ output' = IF x.pieces = <<>> THEN output
                           ELSE Append(output, [kind |-> "text", pieces |-> x.pieces])
            /\ buffers' = buffers
        BY <1>4, <2>5, <3>1 DEF Streams!Responses!OutputItemDone, Streams!Responses!Block
      <3>3. output' = IF x.pieces = <<>> THEN output ELSE Append(output, x)
        BY <1>3, <2>5, <3>2
      <3>4. buffers'.thinking = <<>>
        BY <2>1, <2>5, <3>2
      <3> QED BY <1>5, <1>6, <2>1, <2>2, <2>5, <3>3, <3>4
    <2> QED BY <1>3, <2>3, <2>4, <2>5 DEF Kinds
  <1>9. ItemsDone'
    BY <1>1, <1>8 DEF ItemsDone, Streams!Responses!OneText
  <1>10. Streams!Responses!MessageComplete'
    BY <1>1 DEF Streams!Responses!MessageComplete
  <1> QED BY <1>1, <1>7, <1>9, <1>10 DEF ResponsesCopy

\* A response that ended with an item done needs no finishing.
LEMMA ResponsesFinalized ==
  ASSUME ResponsesCopy, ItemsDone, Streams!Responses!OneText
  PROVE  Streams!Responses!Finalized = Keep(sent, VisibleItems)
  <1>1. output = Keep(sent, VisibleItems) /\ TextHeld(sent) /\ buffers.thinking = <<>>
    BY DEF ItemsDone
  <1>2. sent \in Seq(Item) /\ ToSet(output) = ToSet(sent) \cap VisibleItems
    BY <1>1, KeepElements DEF ResponsesCopy
  <1>3. ASSUME buffers.text # <<>>
        PROVE  \E k \in DOMAIN output : output[k].kind = "text"
    <2>1. PICK k \in DOMAIN sent : sent[k].kind = "text" /\ buffers.text = sent[k].pieces
      BY <1>1, <1>3 DEF TextHeld
    <2>2. sent[k] \in Item
      BY <1>2, Elements
    <2>3. sent[k] \in ToSet(sent) \cap VisibleItems
      BY <1>3, <2>1, <2>2 DEF ToSet, VisibleItems
    <2>4. sent[k] \in ToSet(output)
      BY <1>2, <2>3
    <2> QED BY <2>1, <2>4 DEF ToSet
  <1> QED BY <1>1, <1>3 DEF Streams!Responses!Finalized

\* Every event keeps the copy, and a Done has a whole message.
LEMMA ResponsesCopySteps ==
  ASSUME ResponsesCopy, Streams!Responses!Next
  PROVE  ResponsesCopy'
  <1>1. CASE Streams!Responses!Begin
    <2>1. /\ UNCHANGED <<sent, pieces, output, style, open, buffers>>
          /\ phase = "new" /\ phase' \in {"body", "closed"} /\ NoDone(emitted')
      BY <1>1 DEF Streams!Responses!Begin, Streams!Responses!Yield, Streams!Responses!Start,
                  Streams!Responses!Error, NoDone
    <2> QED BY <2>1, ResponsesGoesOn
  <1>2. CASE Streams!Responses!Completed
    <2>1. /\ UNCHANGED <<sent, pieces, output, style, open, buffers>>
          /\ phase = "body" /\ phase' = "completed" /\ ~open /\ NoDone(emitted')
      BY <1>2 DEF Streams!Responses!Completed, Streams!Responses!Yield, NoDone
    <2> QED BY <2>1, ResponsesGoesOn
  <1>3. CASE Streams!Responses!Failed
    <2>1. /\ UNCHANGED <<sent, pieces, output, style, open, buffers>>
          /\ phase = "body" /\ phase' = "failed" /\ stopReason' = "error" /\ NoDone(emitted')
      BY <1>3 DEF Streams!Responses!Failed, Streams!Responses!Yield, Streams!Responses!Error, NoDone
    <2> QED BY <2>1, ResponsesGoesOn
  <1>4. CASE Streams!Responses!EndOfBody
    <2>1. /\ UNCHANGED <<sent, pieces, style, open, buffers>>
          /\ phase' = "closed" /\ phase \in {"body", "completed", "failed"}
      BY <1>4 DEF Streams!Responses!EndOfBody
    <2>2. PICK broken \in BOOLEAN : emitted' = Streams!Responses!Ending(broken)
      BY <1>4 DEF Streams!Responses!EndOfBody, Streams!Responses!Yield
    <2>3. \/ NoDone(emitted')
          \/ /\ stopReason # "error"
             /\ emitted' = <<[type |-> "done", reason |-> stopReason, message |-> Streams!Responses!Finalized]>>
      BY <2>2 DEF Streams!Responses!Ending, Streams!Responses!Error, Streams!Responses!Done, NoDone
    <2>4. CASE NoDone(emitted')
      <3>1. Streams!Responses!MessageComplete'
        BY <2>4 DEF Streams!Responses!MessageComplete, NoDone
      <3> QED BY <2>1, <3>1 DEF ResponsesCopy
    <2>5. CASE /\ stopReason # "error"
               /\ emitted' = <<[type |-> "done", reason |-> stopReason, message |-> Streams!Responses!Finalized]>>
      <3>1. phase \in {"body", "completed"}
        BY <2>1, <2>5 DEF ResponsesCopy
      <3>2. ASSUME ~open, Streams!Responses!OneText
            PROVE  Streams!Responses!Finalized = Streams!Responses!Visible(sent)
        <4>1. ItemsDone /\ sent \in Seq(Item)
          BY <3>1, <3>2 DEF ResponsesCopy
        <4> QED BY <3>2, <4>1, ResponsesFinalized, VisibleKept
      <3>3. Streams!Responses!OneText' <=> Streams!Responses!OneText
        BY <2>1 DEF Streams!Responses!OneText
      <3>4. Streams!Responses!MessageComplete'
        BY <2>1, <2>5, <3>2, <3>3 DEF Streams!Responses!MessageComplete
      <3> QED BY <2>1, <3>4 DEF ResponsesCopy
    <2> QED BY <2>3, <2>4, <2>5
  <1> QED BY <1>1, <1>2, <1>3, <1>4, ResponsesAdds, ResponsesPiece, ResponsesArguments,
             ResponsesItemDone
          DEF Streams!Responses!Next, Kinds

LEMMA ResponsesInit == Streams!Responses!Init => ResponsesCopy
  <1> SUFFICES ASSUME Streams!Responses!Init PROVE ResponsesCopy
    OBVIOUS
  <1>1. /\ sent = <<>> /\ pieces = 0 /\ open = FALSE /\ output = <<>> /\ emitted = <<>>
        /\ buffers = [text |-> <<>>, thinking |-> <<>>, toolCall |-> <<>>] /\ phase = "new"
        /\ style \in {{"deltas"}, {"final"}, {"deltas", "final"}}
    BY DEF Streams!Responses!Init
  <1>2. buffers \in [Kinds -> Seq(Nat)]
    <2>1. <<>> \in Seq(Nat)
      OBVIOUS
    <2>2. buffers = [k \in Kinds |-> <<>>]
      BY <1>1 DEF Kinds
    <2> QED BY <2>1, <2>2
  <1>3. ItemsDone
    <2>1. Keep(<<>>, VisibleItems) = <<>>
      BY KeepEmpty
    <2> QED BY <1>1, <2>1 DEF ItemsDone, TextHeld
  <1>4. sent \in Seq(Item) /\ pieces \in Nat /\ Streams!Responses!MessageComplete
    BY <1>1 DEF Streams!Responses!MessageComplete
  <1> QED BY <1>1, <1>2, <1>3, <1>4 DEF ResponsesCopy

-----------------------------------------------------------------------------
(* MessageComplete: Google. *)

finish    == slot7
USE DEF finish

\* The parts of a body, and the blocks made of them.
ServerPart == [kind : Kinds, id : Ids \cup {"none"}, piece : Nat]
WithIds == [kind : Kinds, pieces : Seq(Nat), id : Ids \cup {"none"} \cup {MadeId(n) : n \in 0..MaxPieces}]

PiecesOf(msg) == [j \in DOMAIN msg |-> msg[j].pieces]

\* A message of the first n parts.
Holds(msg, n) ==
  /\ msg \in Seq(WithIds) /\ n \in Nat
  /\ FlattenSeq(PiecesOf(msg)) = [j \in 1..n |-> j]
  /\ \A j \in DOMAIN msg : \A p \in ToSet(msg[j].pieces) :
       p \in 1..n /\ sent[p].kind = msg[j].kind

\* The pieces of a message's blocks, and of a message with one block more.
LEMMA PiecesInSeq ==
  ASSUME NEW msg \in Seq(WithIds)
  PROVE  PiecesOf(msg) \in Seq(Seq(Nat)) /\ Len(PiecesOf(msg)) = Len(msg)
  <1>1. DOMAIN msg = 1..Len(msg) /\ Len(msg) \in Nat /\ \A j \in DOMAIN msg : msg[j] \in WithIds
    BY Elements
  <1>2. \A b \in WithIds : b.pieces \in Seq(Nat)
    BY DEF WithIds
  <1>3. PiecesOf(msg) = [j \in 1..Len(msg) |-> msg[j].pieces]
        /\ \A j \in 1..Len(msg) : msg[j].pieces \in Seq(Nat)
    BY <1>1, <1>2 DEF PiecesOf
  <1> DEFINE Q == Seq(Nat)
  <1> HIDE DEF Q
  <1>4. \A j \in 1..Len(msg) : msg[j].pieces \in Q
    BY <1>3 DEF Q
  <1>5. PiecesOf(msg) \in Seq(Q) /\ Len(PiecesOf(msg)) = Len(msg)
    BY <1>1, <1>3, <1>4
  <1> QED BY <1>5 DEF Q

LEMMA PiecesAppend ==
  ASSUME NEW msg \in Seq(WithIds), NEW b \in WithIds
  PROVE  PiecesOf(Append(msg, b)) = Append(PiecesOf(msg), b.pieces)
  <1> DEFINE n == Len(msg)  u == Append(msg, b)  v == Append(PiecesOf(msg), b.pieces)
  <1>1. /\ u = [j \in 1..(n + 1) |-> IF j = n + 1 THEN b ELSE msg[j]] /\ DOMAIN msg = 1..n
        /\ n \in Nat
    BY AppendParts
  <1>2. v = [j \in 1..(n + 1) |-> IF j = n + 1 THEN b.pieces ELSE PiecesOf(msg)[j]]
    <2> DEFINE Q == Seq(Nat)
    <2>1. PiecesOf(msg) \in Seq(Q) /\ Len(PiecesOf(msg)) = n
      BY PiecesInSeq
    <2>2. b.pieces \in Q
      BY DEF WithIds
    <2> HIDE DEF Q
    <2> QED BY <2>1, <2>2, AppendParts
  <1> HIDE DEF n, u, v
  <1>3. \A j \in 1..(n + 1) : j # n + 1 => j \in 1..n
    BY <1>1
  <1>4. PiecesOf(u) = [j \in 1..(n + 1) |-> u[j].pieces]
    BY <1>1 DEF PiecesOf
  <1>5. \A j \in 1..n : PiecesOf(msg)[j] = msg[j].pieces
    BY <1>1 DEF PiecesOf
  <1>6. \A j \in 1..(n + 1) : u[j].pieces = IF j = n + 1 THEN b.pieces ELSE PiecesOf(msg)[j]
    BY <1>1, <1>3, <1>5
  <1>7. PiecesOf(u) = v
    BY <1>2, <1>4, <1>6
  <1> QED BY <1>7 DEF u, v

\* A block is added, empty or of the next part.
LEMMA HoldsAppend ==
  ASSUME NEW msg, NEW n, Holds(msg, n), NEW b \in WithIds, NEW m,
         \/ m = n /\ b.pieces = <<>>
         \/ m = n + 1 /\ b.pieces = <<m>> /\ sent[m].kind = b.kind
  PROVE  Holds(Append(msg, b), m)
  <1> DEFINE u == Append(msg, b)
  <1>1. msg \in Seq(WithIds) /\ n \in Nat /\ m \in Nat /\ 1..n \subseteq 1..m
    BY DEF Holds
  <1>2. /\ u \in Seq(WithIds) /\ DOMAIN u = 1..(Len(msg) + 1) /\ u[Len(msg) + 1] = b
        /\ \A k \in 1..Len(msg) : u[k] = msg[k] /\ DOMAIN msg = 1..Len(msg)
    BY <1>1, AppendParts
  <1>3. \A k \in DOMAIN u : k \in 1..Len(msg) \/ k = Len(msg) + 1
    BY <1>1, <1>2
  <1>4. FlattenSeq(PiecesOf(u)) = FlattenSeq(PiecesOf(msg)) \o b.pieces
    <2>1. PiecesOf(msg) \in Seq(Seq(Nat)) /\ b.pieces \in Seq(Nat)
      BY <1>1, PiecesInSeq DEF WithIds
    <2>2. PiecesOf(u) = Append(PiecesOf(msg), b.pieces)
      BY <1>1, PiecesAppend
    <2> QED BY <2>1, <2>2, FlattenAppend
  <1>5. FlattenSeq(PiecesOf(u)) = [j \in 1..m |-> j]
    <2>1. FlattenSeq(PiecesOf(msg)) = [j \in 1..n |-> j]
      BY DEF Holds
    <2>2. [j \in 1..n |-> j] \o <<>> = [j \in 1..n |-> j]
      BY <1>1
    <2>3. [j \in 1..n |-> j] \o <<n + 1>> = [j \in 1..(n + 1) |-> j]
      BY <1>1
    <2> QED BY <1>4, <2>1, <2>2, <2>3
  <1>6. \A p \in ToSet(b.pieces) : p \in 1..m /\ sent[p].kind = b.kind
    BY <1>1 DEF ToSet
  <1>7. \A k \in 1..Len(msg) : \A p \in ToSet(msg[k].pieces) : p \in 1..m /\ sent[p].kind = msg[k].kind
    BY <1>1, <1>2 DEF Holds
  <1> HIDE DEF u
  <1>8. \A k \in DOMAIN u : \A p \in ToSet(u[k].pieces) : p \in 1..m /\ sent[p].kind = u[k].kind
    BY <1>2, <1>3, <1>6, <1>7
  <1>9. Holds(u, m)
    BY <1>1, <1>2, <1>5, <1>8 DEF Holds
  <1> QED BY <1>9 DEF u

\* The next part goes on with the last block.
LEMMA HoldsGrows ==
  ASSUME NEW msg, NEW n, Holds(msg, n), msg # <<>>,
         NEW l, l = Len(msg), sent[n + 1].kind = msg[l].kind, NEW b,
         b = [kind |-> msg[l].kind, pieces |-> Append(msg[l].pieces, n + 1), id |-> msg[l].id]
  PROVE  b \in WithIds /\ Holds([msg EXCEPT ![l] = b], n + 1)
  <1> DEFINE u == [msg EXCEPT ![l] = b]
  <1>1. msg \in Seq(WithIds) /\ n \in Nat /\ l \in DOMAIN msg /\ DOMAIN msg = 1..l /\ l \in Nat
    BY DEF Holds
  <1>2. msg[l] \in WithIds /\ msg[l].pieces \in Seq(Nat)
    <2>1. msg[l] \in WithIds
      BY <1>1, Elements
    <2> QED BY <2>1 DEF WithIds
  <1>3. b \in WithIds /\ b.pieces = Append(msg[l].pieces, n + 1) /\ b.kind = msg[l].kind
    BY <1>1, <1>2 DEF WithIds
  <1>4. /\ u \in Seq(WithIds) /\ Len(u) = Len(msg) /\ DOMAIN u = DOMAIN msg /\ u[l] = b
        /\ \A k \in DOMAIN msg : k # l => u[k] = msg[k]
    <2>1. \A c \in WithIds, k \in DOMAIN msg :
            /\ [msg EXCEPT ![k] = c] \in Seq(WithIds) /\ Len([msg EXCEPT ![k] = c]) = Len(msg)
            /\ DOMAIN [msg EXCEPT ![k] = c] = DOMAIN msg /\ [msg EXCEPT ![k] = c][k] = c
            /\ \A j \in DOMAIN msg : j # k => [msg EXCEPT ![k] = c][j] = msg[j]
      <3>1. msg \in Seq(WithIds)
        BY <1>1
      <3> QED BY <3>1, ExceptParts
    <2>2. l \in DOMAIN msg /\ b \in WithIds
      BY <1>1, <1>3
    <2> QED BY <2>1, <2>2
  <1> HIDE DEF u
  <1>5. FlattenSeq(PiecesOf(u)) = Append(FlattenSeq(PiecesOf(msg)), n + 1)
    <2>1. /\ PiecesOf(msg) \in Seq(Seq(Nat)) /\ Len(PiecesOf(msg)) = l
          /\ PiecesOf(u) \in Seq(Seq(Nat)) /\ Len(PiecesOf(u)) = l
      BY <1>1, <1>4, PiecesInSeq
    <2>2. PiecesOf(u)[l] = Append(PiecesOf(msg)[l], n + 1)
      BY <1>1, <1>3, <1>4 DEF PiecesOf
    <2>3. \A k \in 1..(l - 1) : PiecesOf(u)[k] = PiecesOf(msg)[k]
      <3>1. \A k \in 1..(l - 1) : k \in DOMAIN msg /\ k # l
        BY <1>1
      <3> QED BY <1>4, <3>1 DEF PiecesOf
    <2>4. PiecesOf(msg) # <<>> /\ n + 1 \in Nat
      BY <1>1, <2>1
    <2> DEFINE a == PiecesOf(msg)  c == PiecesOf(u)  m == n + 1
    <2> HIDE DEF a, c, m
    <2>5. \A x \in Nat, v \in Seq(Seq(Nat)) :
            /\ Len(v) = Len(a) /\ v[Len(a)] = Append(a[Len(a)], x)
            /\ \A k \in 1..(Len(a) - 1) : v[k] = a[k]
            => FlattenSeq(v) = Append(FlattenSeq(a), x)
      BY <2>1, <2>4, FlattenLast DEF a
    <2>6. m \in Nat /\ c \in Seq(Seq(Nat)) /\ Len(c) = Len(a) /\ Len(a) = l
          /\ c[l] = Append(a[l], m) /\ \A k \in 1..(l - 1) : c[k] = a[k]
      BY <2>1, <2>2, <2>3, <2>4 DEF a, c, m
    <2>7. FlattenSeq(c) = Append(FlattenSeq(a), m)
      BY <2>5, <2>6, Zenon
    <2> QED BY <2>7 DEF a, c, m
  <1>6. FlattenSeq(PiecesOf(u)) = [j \in 1..(n + 1) |-> j]
    <2>1. FlattenSeq(PiecesOf(msg)) = [j \in 1..n |-> j]
      BY DEF Holds
    <2>2. Append([j \in 1..n |-> j], n + 1) = [j \in 1..(n + 1) |-> j]
      BY <1>1
    <2> QED BY <1>5, <2>1, <2>2
  <1>7. \A k \in DOMAIN msg : \A p \in ToSet(msg[k].pieces) :
          p \in 1..(n + 1) /\ sent[p].kind = msg[k].kind
    <2>1. 1..n \subseteq 1..(n + 1)
      BY <1>1
    <2> QED BY <2>1 DEF Holds
  <1>8. ToSet(b.pieces) = ToSet(msg[l].pieces) \cup {n + 1}
    BY <1>1, <1>2, <1>3, DistinctAppend
  <1>9. \A p \in ToSet(b.pieces) : p \in 1..(n + 1) /\ sent[p].kind = b.kind
    <2>1. n + 1 \in 1..(n + 1)
      BY <1>1
    <2> QED BY <1>1, <1>3, <1>7, <1>8, <2>1
  <1>a. \A k \in DOMAIN u : \A p \in ToSet(u[k].pieces) : p \in 1..(n + 1) /\ sent[p].kind = u[k].kind
    <2> SUFFICES ASSUME NEW k \in DOMAIN u
                 PROVE  \A p \in ToSet(u[k].pieces) : p \in 1..(n + 1) /\ sent[p].kind = u[k].kind
      OBVIOUS
    <2>1. k \in DOMAIN msg /\ (k = l \/ k # l)
      BY <1>4
    <2>2. CASE k = l
      <3>1. u[k] = b
        BY <1>4, <2>2
      <3> QED BY <1>9, <3>1, Zenon
    <2>3. CASE k # l
      <3>1. u[k] = msg[k]
        BY <1>4, <2>1, <2>3
      <3> QED BY <1>7, <2>1, <3>1, Zenon
    <2> QED BY <2>1, <2>2, <2>3
  <1>b. Holds(u, n + 1)
    BY <1>1, <1>4, <1>6, <1>a DEF Holds
  <1> QED BY <1>3, <1>b DEF u

\* The ids of the calls of a message: the server's, or made up before now.
Calling(msg) == {k \in DOMAIN msg : msg[k].kind = "toolCall"}
Named(msg, counter) ==
  /\ \A k \in Calling(msg) : msg[k].id \in Ids \/ \E c \in 0..(counter - 1) : msg[k].id = MadeId(c)
  /\ \A i, j \in Calling(msg) : i # j => msg[i].id # msg[j].id

\* Events about a block that the message has.
Apt(es) == \E S : /\ es \in Seq(S)
                  /\ \A e \in S : e.type \notin Ending /\ e.message[e.index].kind = e.kind

LEMMA AptMade ==
  /\ Apt(<<>>)
  /\ \A es, e : Apt(es) /\ e.type \notin Ending /\ e.message[e.index].kind = e.kind => Apt(Append(es, e))
  <1>1. Apt(<<>>)
    <2> DEFINE S == {}
    <2>1. <<>> \in Seq(S) /\ \A e \in S : e.type \notin Ending /\ e.message[e.index].kind = e.kind
      OBVIOUS
    <2> HIDE DEF S
    <2> QED BY <2>1 DEF Apt
  <1>2. ASSUME NEW es, NEW e, Apt(es), e.type \notin Ending, e.message[e.index].kind = e.kind
        PROVE  Apt(Append(es, e))
    <2>1. PICK S : es \in Seq(S) /\ \A f \in S : f.type \notin Ending /\ f.message[f.index].kind = f.kind
      BY <1>2 DEF Apt
    <2>2. es \in Seq(S \cup {e})
      BY <2>1
    <2>3. /\ Append(es, e) \in Seq(S \cup {e})
          /\ \A f \in S \cup {e} : f.type \notin Ending /\ f.message[f.index].kind = f.kind
      BY <2>1, <2>2, <1>2
    <2> QED BY <2>3 DEF Apt
  <1> QED BY <1>1, <1>2

\* What has been parsed of the first n parts.
Parsing(w, n) ==
  /\ Holds(w.output, n) /\ Named(w.output, w.counter)
  /\ w.counter \in 0..n
  /\ w.type \in {"none", "text", "thinking"}
  /\ w.type # "none" => w.output # <<>> /\ w.output[Len(w.output)].kind = w.type
  /\ Apt(w.events)

\* Ending a block keeps what was parsed, and leaves none open.
LEMMA ParsingEnded ==
  ASSUME NEW w, NEW n, Parsing(w, n)
  PROVE  Parsing(Streams!Google!Ended(w), n) /\ Streams!Google!Ended(w).type = "none"
  <1> DEFINE e == Streams!Google!BlockEnd(w.type, Len(w.output), w.output)
  <1>1. CASE w.type = "none"
    BY <1>1 DEF Streams!Google!Ended
  <1>2. CASE w.type # "none"
    <2>1. Apt(Append(w.events, e))
      <3>1. e.type \notin Ending /\ e.message[e.index].kind = e.kind
        BY <1>2 DEF Parsing, Streams!Google!BlockEnd, Ending
      <3> HIDE DEF e
      <3> QED BY <3>1, AptMade DEF Parsing
    <2> DEFINE x == Streams!Google!Ended(w)
    <2>2. /\ x.output = w.output /\ x.type = "none" /\ x.counter = w.counter
          /\ x.events = Append(w.events, e)
      BY <1>2 DEF Streams!Google!Ended, Streams!Google!Work
    <2> HIDE DEF x, e
    <2>3. Parsing(x, n) /\ x.type = "none"
      BY <2>1, <2>2 DEF Parsing
    <2> QED BY <2>3 DEF x
  <1> QED BY <1>1, <1>2

\* Opening one keeps what was parsed, and leaves that one open.
LEMMA ParsingOpened ==
  ASSUME NEW w, NEW n, Parsing(w, n), NEW kind \in {"text", "thinking"}
  PROVE  Parsing(Streams!Google!Opened(w, kind), n) /\ Streams!Google!Opened(w, kind).type = kind
  <1> DEFINE x   == Streams!Google!Opened(w, kind)
             e   == Streams!Google!Ended(w)
             b   == Streams!Google!WithId(kind, <<>>, "none")
             out == Append(e.output, b)
             ev  == Streams!Google!BlockStart(kind, Len(out), out)
  <1>1. CASE w.type = kind
    BY <1>1 DEF Streams!Google!Opened
  <1>2. CASE w.type # kind
    <2>1. /\ x.output = out /\ x.type = kind /\ x.counter = e.counter
          /\ x.events = Append(e.events, ev)
      BY <1>2 DEF Streams!Google!Opened, Streams!Google!Work
    <2>2. Parsing(e, n)
      BY ParsingEnded
    <2>3. b \in WithIds /\ b.pieces = <<>> /\ b.kind = kind
      BY DEF WithIds, Streams!Google!WithId, Kinds
    <2>4. ev.type \notin Ending /\ ev.message = out /\ ev.index = Len(out) /\ ev.kind = kind
      BY DEF Streams!Google!BlockStart, Ending
    <2> HIDE DEF x, e, b, ev
    <2>5. e.output \in Seq(WithIds)
      BY <2>2 DEF Parsing, Holds
    <2>6. /\ Len(out) = Len(e.output) + 1 /\ out # <<>> /\ out[Len(out)] = b
          /\ DOMAIN out = 1..(Len(e.output) + 1) /\ DOMAIN e.output = 1..Len(e.output)
          /\ \A k \in 1..Len(e.output) : out[k] = e.output[k]
      BY <2>3, <2>5, AppendParts
    <2>7. Holds(out, n)
      BY <2>2, <2>3, HoldsAppend DEF Parsing
    <2> HIDE DEF out
    <2>8. Named(out, e.counter)
      <3>1. Len(e.output) \in Nat
        BY <2>5, Elements
      <3>2. Calling(out) = Calling(e.output)
        BY <2>3, <2>6, <3>1 DEF Calling
      <3>3. \A k \in Calling(e.output) : out[k] = e.output[k]
        BY <2>6 DEF Calling
      <3> QED BY <2>2, <3>2, <3>3 DEF Parsing, Named
    <2>9. Apt(Append(e.events, ev))
      BY <2>2, <2>3, <2>4, <2>6, AptMade DEF Parsing
    <2>a. Parsing(x, n) /\ x.type = kind
      BY <2>1, <2>2, <2>3, <2>6, <2>7, <2>8, <2>9 DEF Parsing
    <2> QED BY <2>a DEF x
  <1> QED BY <1>1, <1>2

\* A part of text or thinking goes to the block of its kind.
LEMMA ParsingText ==
  ASSUME NEW w, NEW n, Parsing(w, n), NEW part \in ServerPart,
         part.kind # "toolCall", part.piece = n + 1, sent[n + 1] = part
  PROVE  Parsing(Streams!Google!TextPart(w, part), n + 1)
  <1> DEFINE x   == Streams!Google!TextPart(w, part)
             o   == Streams!Google!Opened(w, part.kind)
             l   == Len(o.output)
             out == [o.output EXCEPT ![l].pieces = Append(@, part.piece)]
             ev  == Streams!Google!Delta(part.kind, l, part.piece, out)
             b   == [kind |-> o.output[l].kind, pieces |-> Append(o.output[l].pieces, n + 1),
                     id |-> o.output[l].id]
  <1>1. /\ x.output = out /\ x.type = o.type /\ x.counter = o.counter
        /\ x.events = Append(o.events, ev)
    BY DEF Streams!Google!TextPart, Streams!Google!Work
  <1>2. part.kind \in {"text", "thinking"}
    BY DEF ServerPart, Kinds
  <1>3. Parsing(o, n) /\ o.type = part.kind
    BY <1>2, ParsingOpened
  <1>4. ev.type \notin Ending /\ ev.message = out /\ ev.index = l /\ ev.kind = part.kind
    BY DEF Streams!Google!Delta, Ending
  <1> HIDE DEF x, o, ev
  <1>5. /\ o.output # <<>> /\ o.output[l].kind = part.kind
        /\ o.output \in Seq(WithIds) /\ Holds(o.output, n)
    BY <1>2, <1>3 DEF Parsing, Holds
  <1>6. l \in DOMAIN o.output /\ o.output[l] \in WithIds
    <2>1. l \in DOMAIN o.output
      BY <1>5
    <2> QED BY <1>5, <2>1, Elements
  <1>7. out = [o.output EXCEPT ![l] = b]
    <2>1. o.output[l] = [kind |-> o.output[l].kind, pieces |-> o.output[l].pieces,
                         id |-> o.output[l].id]
      BY <1>6 DEF WithIds
    <2>2. [o.output[l] EXCEPT !.pieces = Append(@, n + 1)] = b
      <3> DEFINE y == o.output[l]
      <3>1. y = [kind |-> y.kind, pieces |-> y.pieces, id |-> y.id]
        BY <2>1
      <3>2. b = [kind |-> y.kind, pieces |-> Append(y.pieces, n + 1), id |-> y.id]
        OBVIOUS
      <3> HIDE DEF y, b
      <3>3. [y EXCEPT !.pieces = Append(@, n + 1)]
              = [kind |-> y.kind, pieces |-> Append(y.pieces, n + 1), id |-> y.id]
        BY <3>1
      <3> QED BY <3>2, <3>3 DEF y
    <2>3. out = [o.output EXCEPT ![l] = [o.output[l] EXCEPT !.pieces = Append(@, n + 1)]]
      OBVIOUS
    <2> QED BY <2>2, <2>3
  <1>8. b \in WithIds /\ Holds(out, n + 1)
    <2>1. sent[n + 1].kind = o.output[l].kind
      BY <1>5
    <2> HIDE DEF out
    <2> QED BY <1>5, <1>7, <2>1, HoldsGrows
  <1>9. b.kind = o.output[l].kind /\ b.id = o.output[l].id
    OBVIOUS
  <1> HIDE DEF b, out
  <1>a. /\ Len(out) = l /\ DOMAIN out = DOMAIN o.output /\ out[l] = b /\ out # <<>>
        /\ \A k \in DOMAIN o.output : k # l => out[k] = o.output[k]
    <2>1. /\ Len(out) = l /\ DOMAIN out = DOMAIN o.output /\ out[l] = b
          /\ \A k \in DOMAIN o.output : k # l => out[k] = o.output[k]
      BY <1>5, <1>6, <1>7, <1>8, ExceptParts
    <2> QED BY <1>6, <2>1
  <1> HIDE DEF l
  <1>b. Named(out, o.counter)
    <2>1. \A k \in DOMAIN o.output : out[k].kind = o.output[k].kind /\ out[k].id = o.output[k].id
      BY <1>9, <1>a
    <2>2. Calling(out) = Calling(o.output)
      BY <1>a, <2>1 DEF Calling
    <2>3. Calling(o.output) \subseteq DOMAIN o.output
      BY DEF Calling
    <2> QED BY <1>3, <2>1, <2>2, <2>3 DEF Parsing, Named
  <1>c. Apt(Append(o.events, ev))
    BY <1>3, <1>4, <1>5, <1>9, <1>a, AptMade DEF Parsing
  <1>d. x.counter \in 0..(n + 1)
    BY <1>1, <1>3 DEF Parsing, Holds
  <1>e. Parsing(x, n + 1)
    BY <1>1, <1>3, <1>5, <1>8, <1>9, <1>a, <1>b, <1>c, <1>d DEF Parsing
  <1> QED BY <1>e DEF x

\* The events of a call are apt when those before them are.
LEMMA AptConcat ==
  ASSUME NEW es, NEW a, NEW b, NEW c, Apt(es), a.type \notin Ending, b.type \notin Ending,
         c.type \notin Ending, a.message[a.index].kind = a.kind,
         b.message[b.index].kind = b.kind, c.message[c.index].kind = c.kind
  PROVE  Apt(es \o <<a, b, c>>)
  <1>1. Apt(Append(Append(Append(es, a), b), c))
    BY AptMade
  <1>2. PICK S : es \in Seq(S)
    BY DEF Apt
  <1>3. es \o <<a, b, c>> = Append(Append(Append(es, a), b), c)
    BY <1>2
  <1> QED BY <1>1, <1>3

\* A part with a call makes a block with a new id, and ends it.
LEMMA ParsingCall ==
  ASSUME NEW w, NEW n \in 0..MaxPieces, Parsing(w, n), NEW part \in ServerPart,
         part.kind = "toolCall", part.piece = n + 1, sent[n + 1] = part
  PROVE  Parsing(Streams!Google!FunctionCall(w, part), n + 1)
  <1> DEFINE x   == Streams!Google!FunctionCall(w, part)
             e   == Streams!Google!Ended(w)
             new == Streams!Google!NeedsNewId(e.output, part.id)
             id  == IF new THEN MadeId(e.counter) ELSE part.id
             b   == Streams!Google!WithId("toolCall", <<part.piece>>, id)
             out == Append(e.output, b)
             m   == Len(out)
             ev1 == Streams!Google!BlockStart("toolCall", m, out)
             ev2 == Streams!Google!Delta("toolCall", m, part.piece, out)
             ev3 == Streams!Google!BlockEnd("toolCall", m, out)
             counter == e.counter + (IF new THEN 1 ELSE 0)
  <1>1. /\ x.output = out /\ x.type = "none" /\ x.counter = counter
        /\ x.events = e.events \o <<ev1, ev2, ev3>>
    BY DEF Streams!Google!FunctionCall, Streams!Google!Work, MadeId
  <1>2. Parsing(e, n) /\ e.type = "none"
    BY ParsingEnded
  <1>3. /\ ev1.type \notin Ending /\ ev1.message = out /\ ev1.index = m /\ ev1.kind = "toolCall"
        /\ ev2.type \notin Ending /\ ev2.message = out /\ ev2.index = m /\ ev2.kind = "toolCall"
        /\ ev3.type \notin Ending /\ ev3.message = out /\ ev3.index = m /\ ev3.kind = "toolCall"
    BY DEF Streams!Google!BlockStart, Streams!Google!Delta, Streams!Google!BlockEnd, Ending
  <1>4. b.kind = "toolCall" /\ b.pieces = <<n + 1>> /\ b.id = id
    BY DEF Streams!Google!WithId
  <1>5. /\ e.output \in Seq(WithIds) /\ Holds(e.output, n) /\ Named(e.output, e.counter)
        /\ e.counter \in 0..n /\ e.counter \in 0..MaxPieces /\ n \in Nat /\ MaxPieces \in Nat
    BY <1>2, ToolsAssumption DEF Parsing, Holds
  <1>6. b \in WithIds
    <2>1. id \in Ids \cup {"none"} \cup {MadeId(c) : c \in 0..MaxPieces}
      BY <1>5 DEF ServerPart
    <2>2. <<part.piece>> \in Seq(Nat)
      BY DEF ServerPart
    <2> QED BY <2>1, <2>2 DEF WithIds, Streams!Google!WithId, Kinds
  <1>7. new \/ (part.id \in Ids /\ \A k \in DOMAIN e.output : e.output[k].id # part.id)
    BY DEF Streams!Google!NeedsNewId, ServerPart
  <1> HIDE DEF x, e, new, ev1, ev2, ev3, b
  <1>8. /\ Len(out) = Len(e.output) + 1 /\ out[m] = b /\ Len(e.output) \in Nat
        /\ DOMAIN out = 1..(Len(e.output) + 1) /\ DOMAIN e.output = 1..Len(e.output)
        /\ \A k \in 1..Len(e.output) : out[k] = e.output[k]
    BY <1>5, <1>6, AppendParts
  <1>9. Holds(out, n + 1)
    BY <1>4, <1>5, <1>6, HoldsAppend
  <1> HIDE DEF out
  <1>a. Named(out, counter) /\ counter \in 0..(n + 1)
    <2>1. /\ Calling(out) = Calling(e.output) \cup {m} /\ m \notin Calling(e.output)
          /\ \A k \in Calling(e.output) : out[k] = e.output[k] /\ k \in DOMAIN e.output
      BY <1>4, <1>8 DEF Calling
    <2>2. \A k \in Calling(e.output) :
            e.output[k].id \in Ids \/ \E c \in 0..(e.counter - 1) : e.output[k].id = MadeId(c)
      BY <1>5 DEF Named
    <2>3. \A i, j \in Calling(e.output) : i # j => e.output[i].id # e.output[j].id
      BY <1>5 DEF Named
    <2>4. CASE new
      <3>1. id = MadeId(e.counter) /\ counter = e.counter + 1
        BY <1>5, <2>4
      <3> HIDE DEF id, counter
      <3>2. e.counter \in 0..(counter - 1) /\ 0..(e.counter - 1) \subseteq 0..(counter - 1)
            /\ counter \in 0..(n + 1)
        BY <1>5, <3>1
      <3>3. \A k \in Calling(e.output) : e.output[k].id # id
        <4>1. \A c \in 0..(e.counter - 1) : c \in 0..MaxPieces /\ c # e.counter
          BY <1>5
        <4> QED BY <1>5, <2>2, <3>1, <4>1, MadeIdsAreNew
      <3>4. \A k \in Calling(out) : out[k].id \in Ids \/ \E c \in 0..(counter - 1) : out[k].id = MadeId(c)
        BY <1>4, <1>8, <2>1, <2>2, <3>1, <3>2
      <3>5. \A i, j \in Calling(out) : i # j => out[i].id # out[j].id
        BY <1>4, <1>8, <2>1, <2>3, <3>3
      <3> QED BY <3>2, <3>4, <3>5 DEF Named
    <2>5. CASE ~new
      <3>1. id = part.id /\ counter = e.counter
        BY <1>5, <2>5
      <3> HIDE DEF id, counter
      <3>2. id \in Ids /\ \A k \in DOMAIN e.output : e.output[k].id # id
        BY <1>7, <2>5, <3>1
      <3>3. \A k \in Calling(out) : out[k].id \in Ids \/ \E c \in 0..(counter - 1) : out[k].id = MadeId(c)
        BY <1>4, <1>8, <2>1, <2>2, <3>1, <3>2
      <3>4. \A i, j \in Calling(out) : i # j => out[i].id # out[j].id
        BY <1>4, <1>8, <2>1, <2>3, <3>2
      <3>5. counter \in 0..(n + 1)
        BY <1>5, <3>1
      <3> QED BY <3>3, <3>4, <3>5 DEF Named
    <2> QED BY <2>4, <2>5
  <1> HIDE DEF counter, m
  <1>b. Apt(e.events \o <<ev1, ev2, ev3>>)
    <2>1. out[m].kind = "toolCall" /\ Apt(e.events)
      BY <1>2, <1>4, <1>8 DEF Parsing
    <2> QED BY <1>3, <2>1, AptConcat
  <1>c. Parsing(x, n + 1)
    BY <1>1, <1>9, <1>a, <1>b DEF Parsing
  <1> QED BY <1>c DEF x

GoogleBody ==
  /\ sent \in Seq(ServerPart) /\ Len(sent) <= MaxPieces + 1
  /\ \A k \in DOMAIN sent : sent[k].piece = k

Fresh == Streams!Google!Work(<<>>, "none", 0, <<>>)

\* Parsed, as its recursion builds it.
ParsedSoFar(f, m) ==
  f = [n \in 0..m |-> IF n = 0 THEN Fresh ELSE Streams!Google!HandlePart(f[n - 1], sent[n])]

\* Parsed, as its recursion builds it, exists for each number of parts.
LEMMA ParsedSoFarExists == \A m \in Nat : \E f : ParsedSoFar(f, m)
  <1> DEFINE P == {m \in Nat : \E f : ParsedSoFar(f, m)}
  <1>1. 0 \in P
    <2> DEFINE f == [n \in 0..0 |-> Fresh]
    <2>1. ParsedSoFar(f, 0)
      BY DEF ParsedSoFar
    <2> QED BY <2>1
  <1>2. ASSUME NEW m \in Nat, m \in P PROVE m + 1 \in P
    <2>1. PICK f : ParsedSoFar(f, m)
      BY <1>2
    <2> DEFINE g == [n \in 0..(m + 1) |->
                       IF n <= m THEN f[n] ELSE Streams!Google!HandlePart(f[n - 1], sent[n])]
               h == [n \in 0..(m + 1) |->
                       IF n = 0 THEN Fresh ELSE Streams!Google!HandlePart(g[n - 1], sent[n])]
    <2>2. ASSUME NEW n \in 0..(m + 1) PROVE g[n] = h[n]
      <3>1. CASE n = 0
        <4>1. 0 \in 0..m /\ f[0] = Fresh
          BY <2>1 DEF ParsedSoFar
        <4> QED BY <3>1, <4>1
      <3>2. CASE n # 0
        <4>1. n - 1 \in 0..m /\ g[n - 1] = f[n - 1]
          BY <3>2
        <4>2. h[n] = Streams!Google!HandlePart(f[n - 1], sent[n])
          BY <3>2, <4>1
        <4>3. CASE n <= m
          <5>1. n \in 0..m /\ g[n] = f[n]
            BY <4>3
          <5>2. f[n] = Streams!Google!HandlePart(f[n - 1], sent[n])
            BY <2>1, <3>2, <5>1 DEF ParsedSoFar
          <5> QED BY <4>2, <5>1, <5>2
        <4>4. CASE ~(n <= m)
          BY <3>2, <4>2, <4>4
        <4> QED BY <4>3, <4>4
      <3> QED BY <3>1, <3>2
    <2>3. g = h
      BY <2>2
    <2>4. ParsedSoFar(g, m + 1)
      BY <2>3 DEF ParsedSoFar
    <2> QED BY <2>4
  <1> HIDE DEF P
  <1>3. Nat \subseteq P
    BY <1>1, <1>2, SetInduction
  <1> QED BY <1>3 DEF P

\* A body parsed is a message that holds all its parts.
LEMMA ParsedWhole ==
  ASSUME GoogleBody
  PROVE  Parsing(Streams!Google!Parsed, Len(sent))
  <1> DEFINE z == Len(sent)  f == CHOOSE g : ParsedSoFar(g, z)
  <1>1. z \in Nat /\ z <= MaxPieces + 1 /\ MaxPieces \in Nat /\ DOMAIN sent = 1..z
        /\ \A k \in 1..z : sent[k] \in ServerPart /\ sent[k].piece = k
    BY Elements, ToolsAssumption DEF GoogleBody
  <1>2. Streams!Google!Parsed = Streams!Google!Ended(f[z])
    BY DEF Streams!Google!Parsed, ParsedSoFar, Fresh
  <1>3. ParsedSoFar(f, z)
    <2>1. \E g : ParsedSoFar(g, z)
      BY <1>1, ParsedSoFarExists
    <2> QED BY <2>1
  <1> HIDE DEF f, z
  <1> DEFINE P == {n \in Nat : n <= z => Parsing(f[n], n)}
  <1>4. 0 \in P
    <2>1. f[0] = Fresh
      <3>1. 0 \in 0..z
        BY <1>1
      <3> QED BY <1>3, <3>1 DEF ParsedSoFar
    <2>2. Fresh.output = <<>> /\ Fresh.type = "none" /\ Fresh.counter = 0 /\ Fresh.events = <<>>
      BY DEF Fresh, Streams!Google!Work
    <2>3. Holds(<<>>, 0)
      BY DEF Holds, PiecesOf, FlattenSeq
    <2>4. Named(<<>>, 0)
      BY DEF Named, Calling
    <2>5. Parsing(Fresh, 0)
      BY <2>2, <2>3, <2>4, AptMade DEF Parsing
    <2> QED BY <2>1, <2>5
  <1>5. ASSUME NEW n \in Nat, n \in P PROVE n + 1 \in P
    <2> SUFFICES ASSUME n + 1 <= z PROVE Parsing(f[n + 1], n + 1)
      OBVIOUS
    <2>1. n + 1 \in 1..z /\ n + 1 \in 0..z /\ n + 1 # 0 /\ (n + 1) - 1 = n /\ n <= z
          /\ n \in 0..MaxPieces
      BY <1>1
    <2>2. Parsing(f[n], n)
      BY <1>5, <2>1
    <2> DEFINE part == sent[n + 1]
    <2>3. part \in ServerPart /\ part.piece = n + 1
      BY <1>1, <2>1
    <2>4. f[n + 1] = Streams!Google!HandlePart(f[n], part)
      BY <1>3, <2>1 DEF ParsedSoFar
    <2> HIDE DEF P
    <2>5. CASE part.kind = "toolCall"
      BY <2>1, <2>2, <2>3, <2>4, <2>5, ParsingCall DEF Streams!Google!HandlePart
    <2>6. CASE part.kind # "toolCall"
      BY <2>1, <2>2, <2>3, <2>4, <2>6, ParsingText DEF Streams!Google!HandlePart
    <2> QED BY <2>5, <2>6
  <1> HIDE DEF P
  <1>6. Nat \subseteq P
    BY <1>4, <1>5, SetInduction
  <1>7. Parsing(f[z], z)
    <2>1. z \in P /\ z <= z
      BY <1>1, <1>6
    <2> QED BY <2>1 DEF P
  <1> QED BY <1>2, <1>7, ParsingEnded DEF z

\* Nothing but the end of the body says anything about a block.
Blockless(es) == \A k \in DOMAIN es : es[k].type \in {"start", "error"}

GoogleCopy ==
  /\ GoogleBody
  /\ phase # "closed" => Blockless(emitted)
  /\ Streams!Google!MessageComplete

\* Events of no block and of no message.
LEMMA BlocklessComplete ==
  ASSUME Blockless(emitted) PROVE Streams!Google!MessageComplete
  BY DEF Blockless, Streams!Google!MessageComplete

\* MessageComplete, of given events and given parts.
Whole(msg, parts) ==
  /\ Streams!Google!FlattenSeq([j \in DOMAIN msg |-> msg[j].pieces]) = [j \in DOMAIN parts |-> j]
  /\ \A j \in DOMAIN msg : \A p \in Streams!Google!ToSet(msg[j].pieces) : parts[p].kind = msg[j].kind
  /\ \A i, j \in DOMAIN msg :
       i # j /\ msg[i].kind = "toolCall" /\ msg[j].kind = "toolCall" => msg[i].id # msg[j].id

Completes(es, parts) ==
  \A k \in DOMAIN es :
    /\ es[k].type = "done" => Whole(es[k].message, parts)
    /\ es[k].type \in {"block_start", "delta", "block_end"} =>
         es[k].message[es[k].index].kind = es[k].kind

LEMMA CompletesMeans ==
  ASSUME Completes(emitted', sent') PROVE Streams!Google!MessageComplete'
  BY Zenon DEF Completes, Whole, Streams!Google!MessageComplete, Streams!Google!FlattenSeq,
               Streams!Google!ToSet

\* What a whole body yields is complete.
LEMMA GoogleCompletes ==
  ASSUME GoogleBody, NEW reason, NEW es,
         es = Append(Streams!Google!Parsed.events,
                     Streams!Google!Done(reason, Streams!Google!Parsed.output))
  PROVE  Completes(es, sent)
  <1> DEFINE w == Streams!Google!Parsed  z == Len(sent)  msg == w.output
             d == Streams!Google!Done(reason, msg)
  <1>1. Parsing(w, z) /\ z \in Nat /\ DOMAIN sent = 1..z
    BY ParsedWhole, Elements DEF GoogleBody
  <1>2. d.type = "done" /\ d.message = msg
    BY DEF Streams!Google!Done
  <1>3. PICK S : /\ w.events \in Seq(S)
                 /\ \A e \in S : e.type \notin Ending /\ e.message[e.index].kind = e.kind
    BY <1>1 DEF Parsing, Apt
  <1> HIDE DEF w, d
  <1>4. \A k \in DOMAIN es : es[k] \in S \/ es[k] = d
    <2>1. w.events \in Seq(S \cup {d}) /\ Append(w.events, d) \in Seq(S \cup {d})
      BY <1>3
    <2> QED BY <2>1, Elements DEF w, d
  <1>5. Streams!Google!FlattenSeq([j \in DOMAIN msg |-> msg[j].pieces]) = [j \in DOMAIN sent |-> j]
    <2>1. Streams!Google!FlattenSeq([j \in DOMAIN msg |-> msg[j].pieces]) = FlattenSeq(PiecesOf(msg))
      BY DEF Streams!Google!FlattenSeq, FlattenSeq, PiecesOf
    <2> QED BY <1>1, <2>1 DEF Parsing, Holds
  <1>6. \A j \in DOMAIN msg : \A p \in Streams!Google!ToSet(msg[j].pieces) : sent[p].kind = msg[j].kind
    <2>1. \A s : Streams!Google!ToSet(s) = ToSet(s)
      BY DEF Streams!Google!ToSet, ToSet
    <2> QED BY <1>1, <2>1 DEF Parsing, Holds
  <1>7. \A i, j \in DOMAIN msg :
          i # j /\ msg[i].kind = "toolCall" /\ msg[j].kind = "toolCall" => msg[i].id # msg[j].id
    BY <1>1 DEF Parsing, Named, Calling
  <1>8. ASSUME NEW k \in DOMAIN es, es[k].type = "done"
        PROVE  es[k].message = msg
    BY <1>2, <1>3, <1>4, <1>8 DEF Ending
  <1>9. ASSUME NEW k \in DOMAIN es, es[k].type \in {"block_start", "delta", "block_end"}
        PROVE  es[k].message[es[k].index].kind = es[k].kind
    BY <1>2, <1>3, <1>4, <1>9
  <1>10. Whole(msg, sent)
    BY <1>5, <1>6, <1>7 DEF Whole
  <1> HIDE DEF msg
  <1> QED BY <1>8, <1>9, <1>10 DEF Completes

\* Every step keeps the body in order, and what it yields complete.
LEMMA GoogleSteps ==
  ASSUME GoogleCopy, Streams!Google!Next
  PROVE  GoogleCopy'
  <1>1. ASSUME GoogleBody', Blockless(emitted') PROVE GoogleCopy'
    <2>1. Streams!Google!MessageComplete'
      BY <1>1 DEF Blockless, Streams!Google!MessageComplete
    <2> QED BY <1>1, <2>1 DEF GoogleCopy
  <1>2. CASE Streams!Google!Begin
    <2>1. Blockless(emitted') /\ UNCHANGED sent
      BY <1>2 DEF Streams!Google!Begin, Streams!Google!Yield, Streams!Google!Start,
                  Streams!Google!Error, Blockless
    <2> QED BY <1>1, <2>1 DEF GoogleCopy, GoogleBody
  <1>3. ASSUME NEW kind \in Kinds, NEW id \in Ids \cup {"none"}, Streams!Google!Part(kind, id)
        PROVE  GoogleCopy'
    <2> DEFINE part == [kind |-> kind, id |-> id, piece |-> Len(sent) + 1]
    <2>1. emitted' = <<>> /\ sent' = Append(sent, part) /\ Len(sent) < MaxPieces + 1
      BY <1>3 DEF Streams!Google!Part, Streams!Google!Yield
    <2>2. sent \in Seq(ServerPart) /\ \A k \in DOMAIN sent : sent[k].piece = k
      BY DEF GoogleCopy, GoogleBody
    <2>3. part \in ServerPart /\ part.piece = Len(sent) + 1
      BY <2>2 DEF ServerPart
    <2> HIDE DEF part
    <2>4. /\ sent' \in Seq(ServerPart) /\ Len(sent') = Len(sent) + 1 /\ Len(sent) \in Nat
          /\ DOMAIN sent' = 1..(Len(sent) + 1) /\ DOMAIN sent = 1..Len(sent)
          /\ sent'[Len(sent) + 1] = part /\ \A k \in 1..Len(sent) : sent'[k] = sent[k]
      BY <2>1, <2>2, <2>3, AppendParts
    <2>5. Len(sent') <= MaxPieces + 1
      BY <2>1, <2>4, ToolsAssumption
    <2>6. \A k \in DOMAIN sent' : sent'[k].piece = k
      <3>1. \A k \in DOMAIN sent' : k = Len(sent) + 1 \/ k \in DOMAIN sent
        BY <2>4
      <3> QED BY <2>2, <2>3, <2>4, <3>1
    <2>7. GoogleBody'
      BY <2>4, <2>5, <2>6 DEF GoogleBody
    <2>8. Blockless(emitted')
      BY <2>1 DEF Blockless
    <2> QED BY <1>1, <2>7, <2>8
  <1>4. ASSUME NEW r, Streams!Google!FinishReason(r) PROVE GoogleCopy'
    <2>1. Blockless(emitted') /\ UNCHANGED sent
      BY <1>4 DEF Streams!Google!FinishReason, Streams!Google!Yield, Blockless
    <2> QED BY <1>1, <2>1 DEF GoogleCopy, GoogleBody
  <1>5. CASE Streams!Google!EndOfBody
    <2>1. GoogleBody' /\ phase' = "closed"
      BY <1>5 DEF Streams!Google!EndOfBody, GoogleCopy, GoogleBody
    <2>2. UNCHANGED sent
      BY <1>5 DEF Streams!Google!EndOfBody
    <2>3. CASE emitted' = <<Streams!Google!Error("error", <<>>)>>
      <3>1. Blockless(emitted')
        BY <2>3 DEF Blockless, Streams!Google!Error
      <3> QED BY <1>1, <2>1, <3>1
    <2>4. CASE emitted' = Append(Streams!Google!Parsed.events,
                                 Streams!Google!Done(Streams!Google!StopReason, Streams!Google!Parsed.output))
      <3>1. Completes(emitted', sent')
        <4>1. GoogleBody
          BY DEF GoogleCopy
        <4> QED BY <2>2, <2>4, <4>1, GoogleCompletes
      <3>2. Streams!Google!MessageComplete'
        BY <3>1, CompletesMeans
      <3> QED BY <2>1, <3>2 DEF GoogleCopy
    <2> QED BY <1>5, <2>3, <2>4 DEF Streams!Google!EndOfBody, Streams!Google!Yield
  <1> QED BY <1>2, <1>3, <1>4, <1>5 DEF Streams!Google!Next, Kinds

LEMMA GoogleInit == Streams!Google!Init => GoogleCopy
  <1> SUFFICES ASSUME Streams!Google!Init PROVE GoogleCopy
    OBVIOUS
  <1>1. sent = <<>> /\ emitted = <<>>
    BY DEF Streams!Google!Init
  <1>2. sent \in Seq(ServerPart) /\ Len(sent) = 0 /\ DOMAIN sent = {}
    BY <1>1
  <1>3. GoogleBody
    BY <1>2, ToolsAssumption DEF GoogleBody
  <1>4. Blockless(emitted)
    BY <1>1 DEF Blockless
  <1> QED BY <1>3, <1>4, BlocklessComplete DEF GoogleCopy

-----------------------------------------------------------------------------
(* MessageComplete: the proxy. *)

wire      == slot7
finished  == slot8
cancelled == slot10
USE DEF wire, finished, cancelled

ServerBlock == [kind : Kinds, pieces : Seq(Nat), open : BOOLEAN]
Closing == {"done", "error", "garbage"}
WireLine == [type : {"start", "block_start", "delta", "block_end"} \cup Closing,
             kind : Kinds \cup {"none"}, index : Nat, piece : Nat]

Rebuilt(blocks) == [j \in DOMAIN blocks |-> [kind |-> blocks[j].kind, pieces |-> blocks[j].pieces]]

\* The client has rebuilt these blocks of the server.
Shows(out, bufs, blocks) ==
  /\ out = Rebuilt(blocks)
  /\ DOMAIN bufs = {j \in DOMAIN blocks : blocks[j].kind = "toolCall" /\ blocks[j].open}
  /\ \A j \in DOMAIN bufs : bufs[j] = blocks[j].pieces

\* What a line says of the server's blocks before and after it.
Leads(line, h, g) ==
  \/ line.type \in {"start"} \cup Closing /\ g = h
  \/ /\ line.type = "block_start" /\ line.index = Len(h) + 1 /\ line.kind \in Kinds
     /\ g = Append(h, [kind |-> line.kind, pieces |-> <<>>, open |-> TRUE])
  \/ /\ line.type = "delta" /\ line.index \in DOMAIN h /\ h[line.index].open
     /\ line.kind = h[line.index].kind
     /\ g = [h EXCEPT ![line.index] =
               [kind |-> line.kind, pieces |-> Append(h[line.index].pieces, line.piece), open |-> TRUE]]
  \/ /\ line.type = "block_end" /\ line.index \in DOMAIN h /\ h[line.index].open
     /\ line.kind = h[line.index].kind
     /\ g = [h EXCEPT ![line.index] =
               [kind |-> line.kind, pieces |-> h[line.index].pieces, open |-> FALSE]]

\* A block with other pieces.
LEMMA FilledBlock ==
  \A kd, ps, q : [[kind |-> kd, pieces |-> ps] EXCEPT !.pieces = q] = [kind |-> kd, pieces |-> q]
  OBVIOUS

LEMMA FilledServerBlock ==
  ASSUME NEW b \in ServerBlock
  PROVE  /\ \A r : [b EXCEPT !.pieces = r] = [kind |-> b.kind, pieces |-> r, open |-> b.open]
         /\ \A r : [b EXCEPT !.open = r] = [kind |-> b.kind, pieces |-> b.pieces, open |-> r]
  <1>1. b = [kind |-> b.kind, pieces |-> b.pieces, open |-> b.open]
    BY DEF ServerBlock
  <1>2. \A kd, ps, op, r : [[kind |-> kd, pieces |-> ps, open |-> op] EXCEPT !.pieces = r]
                             = [kind |-> kd, pieces |-> r, open |-> op]
    OBVIOUS
  <1>3. \A kd, ps, op, r : [[kind |-> kd, pieces |-> ps, open |-> op] EXCEPT !.open = r]
                             = [kind |-> kd, pieces |-> ps, open |-> r]
    OBVIOUS
  <1> QED BY <1>1, <1>2, <1>3

\* The client shows after a line what the line says the server has.
LEMMA LineShown ==
  ASSUME NEW w, NEW line \in WireLine, NEW h \in Seq(ServerBlock), NEW g \in Seq(ServerBlock),
         w.ok, Shows(w.output, w.buffers, h), Leads(line, h, g)
  PROVE  LET v == Streams!Proxy!ProcessProxyEvent(w, line) IN
         /\ Shows(v.output, v.buffers, g)
         /\ v.ok <=> line.type # "garbage"
         /\ \E e : /\ v.events = Append(w.events, e)
                   /\ e.type = "done" => line.type = "done" /\ e.message = v.output
  <1> DEFINE v == Streams!Proxy!ProcessProxyEvent(w, line)
             i == line.index
  <1> SUFFICES /\ Shows(v.output, v.buffers, g)
               /\ v.ok <=> line.type # "garbage"
               /\ \E e : /\ v.events = Append(w.events, e)
                         /\ e.type = "done" => line.type = "done" /\ e.message = v.output
    OBVIOUS
  <1>1. /\ w.output = Rebuilt(h) /\ DOMAIN w.output = DOMAIN h /\ DOMAIN h = 1..Len(h)
        /\ Len(h) \in Nat /\ \A j \in DOMAIN h : h[j] \in ServerBlock /\ w.output[j].kind = h[j].kind
        /\ Len(w.output) = Len(h)
    <2>1. DOMAIN h = 1..Len(h) /\ Len(h) \in Nat /\ \A j \in DOMAIN h : h[j] \in ServerBlock
      BY Elements
    <2>2. w.output = [j \in 1..Len(h) |-> [kind |-> h[j].kind, pieces |-> h[j].pieces]]
      BY <2>1 DEF Shows, Rebuilt
    <2> QED BY <2>1, <2>2 DEF Shows, Rebuilt
  <1>2. DOMAIN g = 1..Len(g) /\ Len(g) \in Nat
    BY Elements
  <1> HIDE DEF v
  <1>3. CASE line.type \in {"start"} \cup Closing
    <2>1. g = h
      BY <1>3 DEF Leads, Closing
    <2>2. CASE line.type = "start"
      <3>1. v = Streams!Proxy!Work(w.output, w.buffers, Append(w.events, Streams!Proxy!Start(w.output)), TRUE)
        BY <2>2 DEF v, Streams!Proxy!ProcessProxyEvent
      <3>2. Streams!Proxy!Start(w.output).type # "done"
        BY DEF Streams!Proxy!Start
      <3> QED BY <2>1, <2>2, <3>1, <3>2 DEF Streams!Proxy!Work
    <2>3. CASE line.type = "done"
      <3>1. v = Streams!Proxy!Work(w.output, w.buffers, Append(w.events, Streams!Proxy!Done("stop", w.output)), TRUE)
        BY <2>3 DEF v, Streams!Proxy!ProcessProxyEvent
      <3>2. Streams!Proxy!Done("stop", w.output).message = w.output
        BY DEF Streams!Proxy!Done
      <3> QED BY <2>1, <2>3, <3>1, <3>2 DEF Streams!Proxy!Work
    <2>4. CASE line.type = "error"
      <3>1. v = Streams!Proxy!Work(w.output, w.buffers, Append(w.events, Streams!Proxy!Error("error", w.output)), TRUE)
        BY <2>4 DEF v, Streams!Proxy!ProcessProxyEvent
      <3>2. Streams!Proxy!Error("error", w.output).type # "done"
        BY DEF Streams!Proxy!Error
      <3> QED BY <2>1, <2>4, <3>1, <3>2 DEF Streams!Proxy!Work
    <2>5. CASE line.type = "garbage"
      <3>1. v = Streams!Proxy!Work(w.output, w.buffers, Append(w.events, Streams!Proxy!Error("error", w.output)), FALSE)
        BY <2>5 DEF v, Streams!Proxy!ProcessProxyEvent, Streams!Proxy!Refused
      <3>2. Streams!Proxy!Error("error", w.output).type # "done"
        BY DEF Streams!Proxy!Error
      <3> QED BY <2>1, <2>5, <3>1, <3>2 DEF Streams!Proxy!Work
    <2> QED BY <1>3, <2>2, <2>3, <2>4, <2>5 DEF Closing
  <1>4. CASE line.type = "block_start"
    <2> DEFINE b    == [kind |-> line.kind, pieces |-> <<>>, open |-> TRUE]
               out  == Append(w.output, [kind |-> line.kind, pieces |-> <<>>])
               bufs == IF line.kind = "toolCall" THEN Streams!Proxy!Set(w.buffers, i, <<>>) ELSE w.buffers
               e    == Streams!Proxy!BlockStart(line.kind, i, out)
    <2>1. i = Len(h) + 1 /\ line.kind \in Kinds /\ g = Append(h, b)
      BY <1>4 DEF Leads, Closing
    <2>2. v = Streams!Proxy!Work(out, bufs, Append(w.events, e), TRUE)
      <3>1. ~(i > Len(w.output) + 1) /\ i = Len(w.output) + 1
        BY <1>1, <2>1
      <3> QED BY <1>4, <3>1 DEF v, Streams!Proxy!ProcessProxyEvent, Streams!Proxy!Placed, Streams!Proxy!Block
    <2>3. e.type # "done"
      BY DEF Streams!Proxy!BlockStart
    <2>4. /\ DOMAIN g = 1..(Len(h) + 1) /\ g[i] = b /\ \A j \in 1..Len(h) : g[j] = h[j]
      <3>1. b \in ServerBlock
        BY <2>1 DEF ServerBlock
      <3> HIDE DEF b
      <3> QED BY <2>1, <3>1, AppendParts
    <2>5. out = Rebuilt(g)
      <3> DEFINE B == [kind : Kinds, pieces : Seq(Nat)]  c == [kind |-> line.kind, pieces |-> <<>>]
      <3>1. w.output \in Seq(B) /\ c \in B
        <4>1. \A j \in 1..Len(h) : [kind |-> h[j].kind, pieces |-> h[j].pieces] \in B
          BY <1>1 DEF ServerBlock
        <4>2. w.output = [j \in 1..Len(h) |-> [kind |-> h[j].kind, pieces |-> h[j].pieces]]
          BY <1>1 DEF Rebuilt
        <4>3. c \in B
          BY <2>1
        <4> HIDE DEF B
        <4> QED BY <1>1, <4>1, <4>2, <4>3
      <3>2. out = [k \in 1..(Len(h) + 1) |-> IF k = Len(h) + 1 THEN c ELSE w.output[k]]
        <4>1. out = Append(w.output, c)
          OBVIOUS
        <4> HIDE DEF B, c, out
        <4> QED BY <1>1, <3>1, <4>1, AppendParts
      <3>3. Rebuilt(g) = [k \in 1..(Len(h) + 1) |-> [kind |-> g[k].kind, pieces |-> g[k].pieces]]
        BY <2>4 DEF Rebuilt
      <3>4. \A k \in 1..(Len(h) + 1) : k # Len(h) + 1 => k \in 1..Len(h)
        BY <1>1
      <3>5. \A k \in 1..(Len(h) + 1) :
              (IF k = Len(h) + 1 THEN c ELSE w.output[k]) = [kind |-> g[k].kind, pieces |-> g[k].pieces]
        BY <1>1, <2>1, <2>4, <3>4 DEF Rebuilt
      <3> HIDE DEF c, out
      <3> QED BY <3>2, <3>3, <3>5
    <2>6. Shows(out, bufs, g)
      <3> DEFINE Open(x) == {j \in DOMAIN x : x[j].kind = "toolCall" /\ x[j].open}
      <3>1. DOMAIN w.buffers = Open(h) /\ \A j \in Open(h) : w.buffers[j] = h[j].pieces
        BY DEF Shows
      <3>2. \A j \in DOMAIN g : j = i \/ (j \in DOMAIN h /\ g[j] = h[j])
        BY <1>1, <2>1, <2>4
      <3>3. DOMAIN h \subseteq DOMAIN g /\ i \notin DOMAIN h /\ i \in DOMAIN g
            /\ \A j \in DOMAIN h : g[j] = h[j]
        BY <1>1, <2>1, <2>4
      <3>4. CASE line.kind = "toolCall"
        <4>1. Open(g) = Open(h) \cup {i}
          BY <2>4, <3>2, <3>3, <3>4
        <4>2. bufs = [k \in DOMAIN w.buffers \cup {i} |-> IF k = i THEN <<>> ELSE w.buffers[k]]
          BY <3>4 DEF Streams!Proxy!Set
        <4>3. DOMAIN bufs = Open(g)
          BY <3>1, <4>1, <4>2
        <4>4. \A j \in Open(g) : bufs[j] = g[j].pieces
          BY <2>4, <3>1, <3>3, <4>1, <4>2
        <4> HIDE DEF out, bufs
        <4> QED BY <2>5, <4>3, <4>4 DEF Shows
      <3>5. CASE line.kind # "toolCall"
        <4>1. Open(g) = Open(h) /\ bufs = w.buffers
          BY <2>4, <3>2, <3>3, <3>5
        <4> HIDE DEF out, bufs
        <4> QED BY <2>5, <3>1, <3>3, <4>1 DEF Shows
      <3> QED BY <3>4, <3>5
    <2> HIDE DEF out, bufs, e, b
    <2> QED BY <1>4, <2>2, <2>3, <2>6 DEF Streams!Proxy!Work
  <1>5. CASE line.type = "delta"
    <2> DEFINE ps   == Append(h[i].pieces, line.piece)
               b    == [kind |-> line.kind, pieces |-> ps, open |-> TRUE]
               out  == [w.output EXCEPT ![i] = [kind |-> line.kind, pieces |-> ps]]
               bufs == IF line.kind = "toolCall" THEN Streams!Proxy!Set(w.buffers, i, ps) ELSE w.buffers
               e    == Streams!Proxy!Delta(line.kind, i, line.piece, out)
    <2>1. /\ i \in DOMAIN h /\ h[i].open /\ line.kind = h[i].kind /\ g = [h EXCEPT ![i] = b]
          /\ h[i] \in ServerBlock
      BY <1>1, <1>5 DEF Leads, Closing
    <2>2. w.output[i] = [kind |-> line.kind, pieces |-> h[i].pieces]
      BY <1>1, <2>1 DEF Rebuilt
    <2>3. line.kind = "toolCall" => i \in DOMAIN w.buffers /\ w.buffers[i] = h[i].pieces
      BY <2>1 DEF Shows
    <2>4. v = Streams!Proxy!Work(out, bufs, Append(w.events, e), TRUE)
      <3>1. v = Streams!Proxy!Deltas(w, line)
        BY <1>1, <1>5, <2>1 DEF v, Streams!Proxy!ProcessProxyEvent
      <3> DEFINE old  == IF i \in DOMAIN w.buffers THEN w.buffers[i] ELSE <<>>
                 buf  == Append(old, line.piece)
                 out2 == [w.output EXCEPT ![i].pieces =
                            IF line.kind = "toolCall" THEN buf ELSE Append(@, line.piece)]
      <3>2. v = Streams!Proxy!Work(out2,
                  IF line.kind = "toolCall" THEN Streams!Proxy!Set(w.buffers, i, buf) ELSE w.buffers,
                  Append(w.events, Streams!Proxy!Delta(line.kind, i, line.piece, out2)), TRUE)
        BY <3>1 DEF Streams!Proxy!Deltas
      <3>3. line.kind = "toolCall" => buf = ps
        BY <2>3
      <3>4. out2 = out
        <4>1. CASE line.kind = "toolCall"
          <5>1. out2 = [w.output EXCEPT ![i] = [w.output[i] EXCEPT !.pieces = buf]]
            BY <4>1
          <5>3. \A r : [w.output[i] EXCEPT !.pieces = r] = [kind |-> line.kind, pieces |-> r]
            BY <2>2, FilledBlock
          <5> HIDE DEF buf, ps
          <5> QED BY <3>3, <4>1, <5>1, <5>3
        <4>2. CASE line.kind # "toolCall"
          <5>1. out2 = [w.output EXCEPT ![i] = [w.output[i] EXCEPT !.pieces = Append(@, line.piece)]]
            BY <4>2
          <5>3. [w.output[i] EXCEPT !.pieces = Append(@, line.piece)] = [kind |-> line.kind, pieces |-> ps]
            <6>1. \A r : [w.output[i] EXCEPT !.pieces = r] = [kind |-> line.kind, pieces |-> r]
              BY <2>2, FilledBlock
            <6>2. w.output[i].pieces = h[i].pieces
              BY <2>2
            <6>3. [w.output[i] EXCEPT !.pieces = Append(@, line.piece)] = [w.output[i] EXCEPT !.pieces = ps]
              BY <6>2, Zenon
            <6> HIDE DEF ps
            <6> QED BY <6>1, <6>3
          <5> QED BY <5>1, <5>3
        <4> QED BY <4>1, <4>2
      <3> HIDE DEF out, out2, buf, ps
      <3> QED BY <3>2, <3>3, <3>4
    <2>5. e.type # "done"
      BY DEF Streams!Proxy!Delta
    <2>6. /\ DOMAIN g = DOMAIN h /\ g[i] = b /\ \A j \in DOMAIN h : j # i => g[j] = h[j]
      BY <1>1, <2>1
    <2>7. out = Rebuilt(g)
      <3>1. Rebuilt(g) = [j \in DOMAIN h |-> [kind |-> g[j].kind, pieces |-> g[j].pieces]]
        BY <2>6 DEF Rebuilt
      <3>2. out = [j \in DOMAIN h |-> IF j = i THEN [kind |-> line.kind, pieces |-> ps] ELSE w.output[j]]
        BY <1>1
      <3>3. \A j \in DOMAIN h : (IF j = i THEN [kind |-> line.kind, pieces |-> ps] ELSE w.output[j])
                                  = [kind |-> g[j].kind, pieces |-> g[j].pieces]
        <4>1. g[i].kind = line.kind /\ g[i].pieces = ps
          BY <2>6
        <4>2. \A j \in DOMAIN h : w.output[j] = [kind |-> h[j].kind, pieces |-> h[j].pieces]
          BY <1>1 DEF Rebuilt
        <4> HIDE DEF ps, b, out
        <4> QED BY <2>6, <4>1, <4>2
      <3> HIDE DEF out, ps
      <3> QED BY <3>1, <3>2, <3>3
    <2>8. Shows(out, bufs, g)
      <3> DEFINE Open(x) == {j \in DOMAIN x : x[j].kind = "toolCall" /\ x[j].open}
      <3>1. DOMAIN w.buffers = Open(h) /\ \A j \in Open(h) : w.buffers[j] = h[j].pieces
        BY DEF Shows
      <3>2. b.kind = h[i].kind /\ b.open /\ b.pieces = ps
        BY <2>1
      <3> HIDE DEF b, ps
      <3>3. Open(g) = Open(h)
        BY <2>1, <2>6, <3>2
      <3>4. CASE line.kind = "toolCall"
        <4>1. i \in Open(h)
          BY <2>1, <3>4
        <4>2. bufs = [k \in DOMAIN w.buffers \cup {i} |-> IF k = i THEN ps ELSE w.buffers[k]]
          BY <3>4 DEF Streams!Proxy!Set
        <4>3. DOMAIN bufs = Open(g)
          BY <3>1, <3>3, <4>1, <4>2
        <4>4. \A j \in Open(g) : bufs[j] = g[j].pieces
          BY <2>6, <3>1, <3>2, <3>3, <4>1, <4>2
        <4> HIDE DEF out, bufs
        <4> QED BY <2>7, <4>3, <4>4 DEF Shows
      <3>5. CASE line.kind # "toolCall"
        <4>1. bufs = w.buffers /\ i \notin Open(h)
          BY <2>1, <3>5
        <4>2. \A j \in Open(h) : g[j] = h[j]
          BY <2>6, <4>1
        <4> HIDE DEF out, bufs
        <4> QED BY <2>7, <3>1, <3>3, <4>1, <4>2 DEF Shows
      <3> QED BY <3>4, <3>5
    <2> HIDE DEF out, bufs, e, b, ps
    <2> QED BY <1>5, <2>4, <2>5, <2>8 DEF Streams!Proxy!Work
  <1>6. CASE line.type = "block_end"
    <2> DEFINE b    == [kind |-> line.kind, pieces |-> h[i].pieces, open |-> FALSE]
               bufs == IF line.kind = "toolCall"
                         THEN [k \in DOMAIN w.buffers \ {i} |-> w.buffers[k]] ELSE w.buffers
               e    == Streams!Proxy!BlockEnd(line.kind, i, w.output)
    <2>1. /\ i \in DOMAIN h /\ h[i].open /\ line.kind = h[i].kind /\ g = [h EXCEPT ![i] = b]
      BY <1>1, <1>6 DEF Leads, Closing
    <2>2. v = Streams!Proxy!Work(w.output, bufs, Append(w.events, e), TRUE)
      <3>1. i \in DOMAIN w.output /\ w.output[i].kind = line.kind
        BY <1>1, <2>1
      <3>2. CASE line.kind = "toolCall"
        BY <1>6, <3>1, <3>2 DEF v, Streams!Proxy!ProcessProxyEvent
      <3>3. CASE line.kind # "toolCall"
        BY <1>6, <3>1, <3>3 DEF v, Streams!Proxy!ProcessProxyEvent
      <3> QED BY <3>2, <3>3
    <2>3. e.type # "done"
      BY DEF Streams!Proxy!BlockEnd
    <2>4. /\ DOMAIN g = DOMAIN h /\ g[i] = b /\ \A j \in DOMAIN h : j # i => g[j] = h[j]
      BY <1>1, <2>1
    <2>5. w.output = Rebuilt(g)
      <3>1. \A j \in DOMAIN h : g[j].kind = h[j].kind /\ g[j].pieces = h[j].pieces
        BY <2>1, <2>4
      <3> QED BY <1>1, <2>4, <3>1 DEF Rebuilt
    <2>6. Shows(w.output, bufs, g)
      <3> DEFINE Open(x) == {j \in DOMAIN x : x[j].kind = "toolCall" /\ x[j].open}
      <3>1. DOMAIN w.buffers = Open(h) /\ \A j \in Open(h) : w.buffers[j] = h[j].pieces
        BY DEF Shows
      <3>2. ~g[i].open /\ g[i].kind = line.kind
        BY <2>4
      <3>3. CASE line.kind = "toolCall"
        <4>1. Open(g) = Open(h) \ {i} /\ bufs = [k \in DOMAIN w.buffers \ {i} |-> w.buffers[k]]
          BY <2>4, <3>2, <3>3
        <4>2. DOMAIN bufs = Open(g) /\ \A j \in Open(g) : bufs[j] = h[j].pieces /\ g[j] = h[j]
          BY <2>4, <3>1, <4>1
        <4> HIDE DEF bufs
        <4> QED BY <2>5, <4>2 DEF Shows
      <3>4. CASE line.kind # "toolCall"
        <4>1. Open(g) = Open(h) /\ bufs = w.buffers /\ i \notin Open(h)
          BY <2>1, <2>4, <3>2, <3>4
        <4>2. \A j \in Open(h) : g[j] = h[j]
          BY <2>4, <4>1
        <4> HIDE DEF bufs
        <4> QED BY <2>5, <3>1, <4>1, <4>2 DEF Shows
      <3> QED BY <3>3, <3>4
    <2> HIDE DEF bufs, e, b
    <2> QED BY <1>6, <2>2, <2>3, <2>6 DEF Streams!Proxy!Work
  <1> QED BY <1>3, <1>4, <1>5, <1>6 DEF WireLine, v

\* Processed, as its recursion builds it.
Unread == Streams!Proxy!Work(output, buffers, <<>>, TRUE)
ReadSoFar(f, m) ==
  f = [n \in 0..m |-> IF n = 0 THEN Unread ELSE Streams!Proxy!ProcessProxyEvent(f[n - 1], wire[n])]

\* Processed, as its recursion builds it, exists for each number of lines.
LEMMA ReadSoFarExists == \A m \in Nat : \E f : ReadSoFar(f, m)
  <1> DEFINE P == {m \in Nat : \E f : ReadSoFar(f, m)}
  <1>1. 0 \in P
    <2> DEFINE f == [n \in 0..0 |-> Unread]
    <2>1. ReadSoFar(f, 0)
      BY DEF ReadSoFar
    <2> QED BY <2>1
  <1>2. ASSUME NEW m \in Nat, m \in P PROVE m + 1 \in P
    <2>1. PICK f : ReadSoFar(f, m)
      BY <1>2
    <2> DEFINE g == [n \in 0..(m + 1) |->
                       IF n <= m THEN f[n] ELSE Streams!Proxy!ProcessProxyEvent(f[n - 1], wire[n])]
               h == [n \in 0..(m + 1) |->
                       IF n = 0 THEN Unread ELSE Streams!Proxy!ProcessProxyEvent(g[n - 1], wire[n])]
    <2>2. ASSUME NEW n \in 0..(m + 1) PROVE g[n] = h[n]
      <3>1. CASE n = 0
        <4>1. 0 \in 0..m /\ f[0] = Unread
          BY <2>1 DEF ReadSoFar
        <4> QED BY <3>1, <4>1
      <3>2. CASE n # 0
        <4>1. n - 1 \in 0..m /\ g[n - 1] = f[n - 1]
          BY <3>2
        <4>2. h[n] = Streams!Proxy!ProcessProxyEvent(f[n - 1], wire[n])
          BY <3>2, <4>1
        <4>3. CASE n <= m
          <5>1. n \in 0..m /\ g[n] = f[n]
            BY <4>3
          <5>2. f[n] = Streams!Proxy!ProcessProxyEvent(f[n - 1], wire[n])
            BY <2>1, <3>2, <5>1 DEF ReadSoFar
          <5> QED BY <4>2, <5>1, <5>2
        <4>4. CASE ~(n <= m)
          BY <3>2, <4>2, <4>4
        <4> QED BY <4>3, <4>4
      <3> QED BY <3>1, <3>2
    <2>3. g = h
      BY <2>2
    <2>4. ReadSoFar(g, m + 1)
      BY <2>3 DEF ReadSoFar
    <2> QED BY <2>4
  <1> HIDE DEF P
  <1>3. Nat \subseteq P
    BY <1>1, <1>2, SetInduction
  <1> QED BY <1>3 DEF P

\* The lines under way lead from the client's message to the server's.
Leading(h) ==
  /\ h[0] \in Seq(ServerBlock) /\ Shows(output, buffers, h[0])
  /\ h[Len(wire)] = sent
  /\ \A n \in 1..Len(wire) : h[n] \in Seq(ServerBlock) /\ Leads(wire[n], h[n - 1], h[n])

\* What ends the message is the server's last line.
LastCloses == \A n \in 1..Len(wire) : wire[n].type \in Closing => n = Len(wire) /\ finished

\* What has been made of the first n lines.
Reading(w, n, blocks) ==
  /\ Shows(w.output, w.buffers, blocks)
  /\ n < Len(wire) => w.ok
  /\ \E S : /\ w.events \in Seq(S)
            /\ \A e \in S : e.type = "done" =>
                 w.ok /\ finished /\ n = Len(wire) /\ e.message = w.output

\* After a chunk the client shows all that the server has sent.
LEMMA ChunkShown ==
  ASSUME NEW h, Leading(h), LastCloses, wire \in Seq(WireLine)
  PROVE  Reading(Streams!Proxy!Processed, Len(wire), sent)
  <1> DEFINE z == Len(wire)  f == CHOOSE g : ReadSoFar(g, z)
  <1>1. z \in Nat /\ \A n \in 1..z : wire[n] \in WireLine
    BY Elements
  <1>2. Streams!Proxy!Processed = f[z]
    BY DEF Streams!Proxy!Processed, ReadSoFar, Unread
  <1>3. ReadSoFar(f, z)
    <2>1. \E g : ReadSoFar(g, z)
      BY <1>1, ReadSoFarExists
    <2> QED BY <2>1
  <1> HIDE DEF f
  <1> DEFINE P == {n \in Nat : n <= z => h[n] \in Seq(ServerBlock) /\ Reading(f[n], n, h[n])}
  <1>4. 0 \in P
    <2>1. f[0] = Unread
      <3>1. 0 \in 0..z
        BY <1>1
      <3> QED BY <1>3, <3>1 DEF ReadSoFar
    <2>2. Unread.output = output /\ Unread.buffers = buffers /\ Unread.events = <<>> /\ Unread.ok
      BY DEF Unread, Streams!Proxy!Work
    <2>3. \E S : /\ Unread.events \in Seq(S)
                 /\ \A e \in S : e.type = "done" =>
                      Unread.ok /\ finished /\ 0 = z /\ e.message = Unread.output
      <3> DEFINE S == {}
      <3>1. Unread.events \in Seq(S) /\ \A e \in S : e.type # "done"
        BY <2>2
      <3> HIDE DEF S
      <3> QED BY <3>1
    <2>4. Reading(Unread, 0, h[0]) /\ h[0] \in Seq(ServerBlock)
      BY <2>2, <2>3 DEF Leading, Reading
    <2> QED BY <2>1, <2>4
  <1>5. ASSUME NEW n \in Nat, n \in P PROVE n + 1 \in P
    <2> SUFFICES ASSUME n + 1 <= z
                 PROVE  h[n + 1] \in Seq(ServerBlock) /\ Reading(f[n + 1], n + 1, h[n + 1])
      OBVIOUS
    <2>1. n + 1 \in 1..z /\ n + 1 \in 0..z /\ n + 1 # 0 /\ (n + 1) - 1 = n /\ n <= z /\ n < z
      BY <1>1
    <2>2. Reading(f[n], n, h[n]) /\ h[n] \in Seq(ServerBlock)
      BY <1>5, <2>1
    <2> DEFINE line == wire[n + 1]  w == f[n]  v == f[n + 1]
    <2>3. line \in WireLine /\ h[n + 1] \in Seq(ServerBlock) /\ Leads(line, h[n], h[n + 1])
      BY <1>1, <2>1 DEF Leading
    <2>4. v = Streams!Proxy!ProcessProxyEvent(w, line)
      BY <1>3, <2>1 DEF ReadSoFar
    <2>5. w.ok /\ Shows(w.output, w.buffers, h[n])
      BY <2>1, <2>2 DEF Reading
    <2>6. PICK S : w.events \in Seq(S) /\ \A e \in S : e.type # "done"
      <3>1. n # Len(wire)
        BY <1>1, <2>1
      <3>2. \E S : /\ w.events \in Seq(S)
                   /\ \A e \in S : e.type = "done" => n = Len(wire)
        BY <2>2 DEF Reading
      <3> HIDE DEF w
      <3> QED BY <3>1, <3>2
    <2> HIDE DEF P, w, v, line
    <2>7. /\ Shows(v.output, v.buffers, h[n + 1])
          /\ v.ok <=> line.type # "garbage"
          /\ \E e : /\ v.events = Append(w.events, e)
                    /\ e.type = "done" => line.type = "done" /\ e.message = v.output
      BY <2>2, <2>3, <2>4, <2>5, LineShown
    <2>8. line.type \in Closing => n + 1 = z /\ finished
      BY <2>1 DEF LastCloses, line
    <2>9. n + 1 < z => v.ok
      BY <1>1, <2>7, <2>8 DEF Closing
    <2>a. \E T : /\ v.events \in Seq(T)
                 /\ \A e \in T : e.type = "done" => v.ok /\ finished /\ n + 1 = z /\ e.message = v.output
      <3>1. PICK e : /\ v.events = Append(w.events, e)
                     /\ e.type = "done" => line.type = "done" /\ e.message = v.output
        BY <2>7
      <3>2. e.type = "done" => v.ok /\ finished /\ n + 1 = z /\ e.message = v.output
        BY <2>7, <2>8, <3>1 DEF Closing
      <3>3. w.events \in Seq(S \cup {e}) /\ Append(w.events, e) \in Seq(S \cup {e})
        BY <2>6
      <3>4. \A x \in S \cup {e} : x.type = "done" => v.ok /\ finished /\ n + 1 = z /\ x.message = v.output
        BY <2>6, <3>2
      <3> QED BY <3>1, <3>3, <3>4
    <2>b. Reading(v, n + 1, h[n + 1])
      BY <2>7, <2>9, <2>a DEF Reading
    <2> QED BY <2>3, <2>b DEF v
  <1> HIDE DEF P
  <1>6. Nat \subseteq P
    BY <1>4, <1>5, SetInduction
  <1>7. Reading(f[z], z, h[z])
    <2>1. z \in P /\ z <= z
      BY <1>1, <1>6
    <2> QED BY <2>1 DEF P
  <1> QED BY <1>2, <1>7 DEF Leading

\* The client shows what the server had when its last chunk was read, and the
\* lines since lead from there to what the server has.
ProxyCopy ==
  /\ sent \in Seq(ServerBlock) /\ pieces \in Nat /\ wire \in Seq(WireLine)
  /\ finished \in BOOLEAN
  /\ phase # "closed" => (\E h : Leading(h)) /\ LastCloses
  /\ NoDone(emitted) \/ finished
  /\ Streams!Proxy!PartialFollowsServer
  /\ Streams!Proxy!MessageComplete

LEMMA PrefixGrows ==
  ASSUME NEW a \in Seq(Nat), NEW b \in Seq(Nat), Streams!Proxy!IsPrefix(a, b), NEW p \in Nat
  PROVE  Streams!Proxy!IsPrefix(a, Append(b, p))
  <1>1. /\ Len(a) \in Nat /\ Len(b) \in Nat /\ Len(Append(b, p)) = Len(b) + 1
        /\ Append(b, p) \in Seq(Nat) /\ \A k \in 1..Len(b) : Append(b, p)[k] = b[k]
    OBVIOUS
  <1>2. Len(a) <= Len(b) /\ SubSeq(a, 1, Len(a)) = SubSeq(b, 1, Len(a))
    BY DEF Streams!Proxy!IsPrefix
  <1>3. SubSeq(Append(b, p), 1, Len(a)) = SubSeq(b, 1, Len(a))
    BY <1>1, <1>2
  <1> QED BY <1>1, <1>2, <1>3 DEF Streams!Proxy!IsPrefix

LEMMA PrefixOfItself ==
  ASSUME NEW a \in Seq(Nat) PROVE Streams!Proxy!IsPrefix(a, a)
  BY DEF Streams!Proxy!IsPrefix

\* The server goes on: a block more, or something more of one.
GoesOn(s, t) ==
  /\ Len(s) <= Len(t) /\ DOMAIN s \subseteq DOMAIN t
  /\ \A k \in DOMAIN s : /\ t[k].kind = s[k].kind
                         /\ \/ t[k].pieces = s[k].pieces
                            \/ \E p \in Nat : t[k].pieces = Append(s[k].pieces, p)

Follows(out, s) ==
  /\ Len(out) <= Len(s)
  /\ \A k \in DOMAIN out : /\ out[k].kind = s[k].kind
                           /\ Streams!Proxy!IsPrefix(out[k].pieces, s[k].pieces)

\* The parts of a message rebuilt.
LEMMA RebuiltParts ==
  ASSUME NEW s \in Seq(ServerBlock)
  PROVE  /\ Len(Rebuilt(s)) = Len(s) /\ DOMAIN Rebuilt(s) = DOMAIN s
         /\ \A k \in DOMAIN s : /\ Rebuilt(s)[k].kind = s[k].kind
                                /\ Rebuilt(s)[k].pieces = s[k].pieces
                                /\ s[k].pieces \in Seq(Nat)
  <1>1. DOMAIN s = 1..Len(s) /\ Len(s) \in Nat /\ \A k \in DOMAIN s : s[k] \in ServerBlock
    BY Elements
  <1>2. \A b \in ServerBlock : b.pieces \in Seq(Nat)
    BY DEF ServerBlock
  <1>3. Rebuilt(s) = [k \in 1..Len(s) |-> [kind |-> s[k].kind, pieces |-> s[k].pieces]]
    BY <1>1 DEF Rebuilt
  <1>4. Len(Rebuilt(s)) = Len(s)
    BY <1>1, <1>3
  <1> QED BY <1>1, <1>2, <1>3, <1>4

\* A message follows the blocks it was rebuilt from, and what comes of them.
LEMMA FollowsItself ==
  ASSUME NEW s \in Seq(ServerBlock) PROVE Follows(Rebuilt(s), s)
  <1>1. \A k \in DOMAIN s : Streams!Proxy!IsPrefix(s[k].pieces, s[k].pieces)
    BY RebuiltParts, PrefixOfItself
  <1>2. \A k \in DOMAIN s : Rebuilt(s)[k].kind = s[k].kind /\ Rebuilt(s)[k].pieces = s[k].pieces
    BY RebuiltParts
  <1>3. Len(Rebuilt(s)) <= Len(s) /\ DOMAIN Rebuilt(s) = DOMAIN s
    BY RebuiltParts, Elements
  <1> QED BY <1>1, <1>2, <1>3 DEF Follows

\* The client is at an earlier message of the server.
LEMMA FollowsOn ==
  ASSUME NEW h \in Seq(ServerBlock), NEW s \in Seq(ServerBlock), NEW t \in Seq(ServerBlock),
         Follows(Rebuilt(h), s), GoesOn(s, t)
  PROVE  Follows(Rebuilt(h), t)
  <1> DEFINE out == Rebuilt(h)
  <1>1. /\ Len(out) = Len(h) /\ DOMAIN out = DOMAIN h
        /\ \A k \in DOMAIN out : out[k].pieces \in Seq(Nat)
    BY RebuiltParts
  <1>2. Len(h) \in Nat /\ Len(s) \in Nat /\ Len(t) \in Nat /\ DOMAIN h = 1..Len(h) /\ DOMAIN s = 1..Len(s)
    BY Elements
  <1>3. Len(out) <= Len(t)
    BY <1>1, <1>2 DEF Follows, GoesOn
  <1>4. ASSUME NEW k \in DOMAIN out
        PROVE  out[k].kind = t[k].kind /\ Streams!Proxy!IsPrefix(out[k].pieces, t[k].pieces)
    <2>1. out[k].kind = s[k].kind /\ Streams!Proxy!IsPrefix(out[k].pieces, s[k].pieces) /\ k \in DOMAIN s
      BY <1>1, <1>2, <1>4 DEF Follows
    <2>2. s[k].pieces \in Seq(Nat) /\ out[k].pieces \in Seq(Nat)
      BY <1>1, <2>1, RebuiltParts
    <2>3. /\ t[k].kind = s[k].kind
          /\ \/ t[k].pieces = s[k].pieces
             \/ \E p \in Nat : t[k].pieces = Append(s[k].pieces, p)
      BY <2>1 DEF GoesOn
    <2> HIDE DEF out
    <2> QED BY <2>1, <2>2, <2>3, PrefixGrows
  <1> QED BY <1>3, <1>4 DEF Follows

\* A line sent is a line further.
LEMMA ProxySends ==
  ASSUME ProxyCopy, phase = "body", NEW line \in WireLine, Streams!Proxy!Sends(line),
         sent' \in Seq(ServerBlock), Leads(line, sent, sent'), GoesOn(sent, sent'),
         pieces' \in Nat, finished' = (line.type \in Closing)
  PROVE  ProxyCopy'
  <1> DEFINE z == Len(wire)
  <1>1. /\ ~finished /\ wire' = Append(wire, line)
        /\ UNCHANGED <<output, buffers, phase, cancelled, terminals, emitted>>
    BY DEF Streams!Proxy!Sends, Streams!Proxy!client
  <1>2. wire \in Seq(WireLine) /\ sent \in Seq(ServerBlock) /\ finished \in BOOLEAN
    BY DEF ProxyCopy
  <1>3. /\ wire' \in Seq(WireLine) /\ Len(wire') = z + 1 /\ z \in Nat /\ wire'[z + 1] = line
        /\ \A k \in 1..z : wire'[k] = wire[k]
    BY <1>1, <1>2, AppendParts
  <1>4. PICK h : Leading(h)
    BY DEF ProxyCopy
  <1>5. /\ h[0] \in Seq(ServerBlock) /\ Shows(output, buffers, h[0]) /\ h[z] = sent
        /\ \A n \in 1..z : h[n] \in Seq(ServerBlock) /\ Leads(wire[n], h[n - 1], h[n])
    BY <1>4 DEF Leading
  <1> HIDE DEF z
  <1>g. PICK g : g = [n \in 0..(z + 1) |-> IF n = z + 1 THEN sent' ELSE h[n]]
    OBVIOUS
  <1>6. g[0] = h[0] /\ g[z] = h[z] /\ g[z + 1] = sent' /\ \A n \in 1..z : g[n] = h[n] /\ g[n - 1] = h[n - 1]
    BY <1>3, <1>g
  <1>7. \A n \in 1..(z + 1) : g[n] \in Seq(ServerBlock) /\ Leads(wire'[n], g[n - 1], g[n])
    <2>1. g[z + 1] \in Seq(ServerBlock) /\ Leads(wire'[z + 1], g[(z + 1) - 1], g[z + 1])
      <3>1. (z + 1) - 1 = z
        BY <1>3
      <3> QED BY <1>3, <1>5, <1>6, <3>1
    <2>2. \A n \in 1..z : g[n] \in Seq(ServerBlock) /\ Leads(wire'[n], g[n - 1], g[n])
      BY <1>3, <1>5, <1>6
    <2>3. \A n \in 1..(z + 1) : n = z + 1 \/ n \in 1..z
      BY <1>3
    <2> QED BY <2>1, <2>2, <2>3
  <1>8. Leading(g)'
    <2>1. Shows(output', buffers', g[0]) /\ g[0] \in Seq(ServerBlock)
      BY <1>1, <1>5, <1>6
    <2>2. g[Len(wire')] = sent'
      BY <1>3, <1>6
    <2>3. \A n \in 1..Len(wire') : g[n] \in Seq(ServerBlock) /\ Leads(wire'[n], g[n - 1], g[n])
      BY <1>3, <1>7
    <2> QED BY <2>1, <2>2, <2>3 DEF Leading
  <1>9. LastCloses'
    <2>1. \A n \in 1..z : wire[n].type \notin Closing
      BY <1>1 DEF ProxyCopy, LastCloses, z
    <2>2. \A n \in 1..(z + 1) : n = z + 1 \/ n \in 1..z
      BY <1>3
    <2> QED BY <1>3, <2>1, <2>2 DEF LastCloses
  <1>a. NoDone(emitted)
    BY <1>1 DEF ProxyCopy
  <1>b. Streams!Proxy!MessageComplete'
    BY <1>1, <1>a DEF Streams!Proxy!MessageComplete, NoDone
  <1>c. Streams!Proxy!PartialFollowsServer'
    <2> DEFINE out == output
    <2>1. Streams!Proxy!PartialFollowsServer
      BY DEF ProxyCopy
    <2>2. Follows(output, sent)
      BY <2>1 DEF Streams!Proxy!PartialFollowsServer, Follows
    <2>3. output = Rebuilt(h[0])
      BY <1>5 DEF Shows
    <2>4. Follows(output, sent')
      BY <1>2, <1>5, <2>2, <2>3, FollowsOn
    <2>5. output' = output
      BY <1>1
    <2> QED BY <2>4, <2>5 DEF Streams!Proxy!PartialFollowsServer, Follows, Streams!Proxy!IsPrefix
  <1>d. NoDone(emitted')
    BY <1>1, <1>a
  <1> QED BY <1>3, <1>8, <1>9, <1>b, <1>c, <1>d DEF ProxyCopy, NoDone

\* Each line of the server is such a line.
LEMMA ProxyServes ==
  ASSUME ProxyCopy, phase = "body",
         \/ Streams!Proxy!SendStart \/ Streams!Proxy!SendGarbage
         \/ \E kind \in Kinds : Streams!Proxy!SendBlockStart(kind)
         \/ \E index \in DOMAIN sent : \/ Streams!Proxy!SendDelta(index)
                                       \/ Streams!Proxy!SendBlockEnd(index)
         \/ \E type \in {"done", "error"} : Streams!Proxy!SendTerminal(type)
  PROVE  ProxyCopy'
  <1>1. /\ sent \in Seq(ServerBlock) /\ pieces \in Nat /\ DOMAIN sent = 1..Len(sent) /\ Len(sent) \in Nat
        /\ \A k \in DOMAIN sent : sent[k] \in ServerBlock
    BY Elements DEF ProxyCopy
  <1>2. ASSUME NEW type \in {"start"} \cup Closing, UNCHANGED sent, pieces' \in Nat,
               Streams!Proxy!Sends(Streams!Proxy!Line(type, "none", 0, 0)),
               finished' = (type \in Closing)
        PROVE  ProxyCopy'
    <2> DEFINE line == Streams!Proxy!Line(type, "none", 0, 0)
    <2>1. line \in WireLine /\ line.type = type
      BY DEF Streams!Proxy!Line, WireLine
    <2> HIDE DEF line
    <2>2. Leads(line, sent, sent')
      BY <1>2, <2>1 DEF Leads
    <2>3. GoesOn(sent, sent')
      <3>1. GoesOn(sent, sent)
        BY <1>1 DEF GoesOn
      <3> QED BY <1>2, <3>1
    <2> QED BY <1>1, <1>2, <2>1, <2>2, <2>3, ProxySends DEF line
  <1>3. CASE Streams!Proxy!SendStart
    <2>1. ~finished
      BY <1>3 DEF Streams!Proxy!SendStart, Streams!Proxy!Sends
    <2> QED BY <1>2, <1>3, <2>1 DEF Streams!Proxy!SendStart, Closing, ProxyCopy
  <1>4. CASE Streams!Proxy!SendGarbage
    BY <1>1, <1>2, <1>4 DEF Streams!Proxy!SendGarbage, Closing
  <1>5. CASE \E type \in {"done", "error"} : Streams!Proxy!SendTerminal(type)
    BY <1>1, <1>2, <1>5 DEF Streams!Proxy!SendTerminal, Closing
  <1>6. ASSUME NEW kind \in Kinds, Streams!Proxy!SendBlockStart(kind) PROVE ProxyCopy'
    <2> DEFINE line == Streams!Proxy!Line("block_start", kind, Len(sent) + 1, 0)
               b    == [kind |-> kind, pieces |-> <<>>, open |-> TRUE]
    <2>1. sent' = Append(sent, b) /\ Streams!Proxy!Sends(line) /\ UNCHANGED <<pieces, finished>>
      BY <1>6 DEF Streams!Proxy!SendBlockStart
    <2>2. ~finished
      BY <2>1 DEF Streams!Proxy!Sends
    <2>3. /\ line \in WireLine /\ line.type = "block_start" /\ line.kind = kind
          /\ line.index = Len(sent) + 1
      BY <1>1 DEF Streams!Proxy!Line, WireLine
    <2>4. b \in ServerBlock
      BY DEF ServerBlock
    <2>5. Leads(line, sent, sent')
      BY <2>1, <2>3 DEF Leads
    <2> HIDE DEF line, b
    <2>6. /\ sent' \in Seq(ServerBlock) /\ Len(sent') = Len(sent) + 1
          /\ DOMAIN sent' = 1..(Len(sent) + 1) /\ \A k \in 1..Len(sent) : sent'[k] = sent[k]
      BY <1>1, <2>1, <2>4, AppendParts
    <2>7. GoesOn(sent, sent')
      BY <1>1, <2>6 DEF GoesOn
    <2> QED BY <1>1, <2>1, <2>2, <2>3, <2>5, <2>6, <2>7, ProxySends DEF Closing, ProxyCopy
  <1>7. ASSUME NEW i \in DOMAIN sent, Streams!Proxy!SendDelta(i) PROVE ProxyCopy'
    <2> DEFINE line == Streams!Proxy!Line("delta", sent[i].kind, i, pieces)
               ps   == Append(sent[i].pieces, pieces)
               b    == [kind |-> sent[i].kind, pieces |-> ps, open |-> TRUE]
    <2>1. sent[i].open /\ Streams!Proxy!Sends(line) /\ finished' = finished /\ pieces' = pieces + 1
      BY <1>7 DEF Streams!Proxy!SendDelta
    <2>2. sent' = [sent EXCEPT ![i] = b]
      <3>1. sent' = [sent EXCEPT ![i].pieces = Append(@, pieces)]
        BY <1>7 DEF Streams!Proxy!SendDelta
      <3>2. sent' = [sent EXCEPT ![i] = [sent[i] EXCEPT !.pieces = Append(@, pieces)]]
        BY <3>1
      <3>3. [sent[i] EXCEPT !.pieces = Append(@, pieces)] = [sent[i] EXCEPT !.pieces = ps]
        BY Zenon
      <3>4. \A r : [sent[i] EXCEPT !.pieces = r] = [kind |-> sent[i].kind, pieces |-> r, open |-> sent[i].open]
        <4>1. sent[i] \in ServerBlock
          BY <1>1
        <4> QED BY <4>1, FilledServerBlock
      <3>5. sent[i].open = TRUE
        BY <1>1, <2>1 DEF ServerBlock
      <3> HIDE DEF ps
      <3>6. [sent[i] EXCEPT !.pieces = Append(@, pieces)] = b
        BY <3>3, <3>4, <3>5
      <3> HIDE DEF b
      <3> QED BY <3>2, <3>6
    <2>3. ~finished
      BY <2>1 DEF Streams!Proxy!Sends
    <2>4. sent[i] \in ServerBlock
      BY <1>1
    <2>5. /\ line \in WireLine /\ line.type = "delta" /\ line.kind = sent[i].kind
          /\ line.index = i /\ line.piece = pieces
      BY <1>1, <2>4 DEF Streams!Proxy!Line, WireLine, ServerBlock
    <2>6. b \in ServerBlock
      BY <1>1, <2>4 DEF ServerBlock
    <2>7. Leads(line, sent, sent')
      <3> HIDE DEF line
      <3> QED BY <2>1, <2>2, <2>5 DEF Leads
    <2>8. b.kind = sent[i].kind /\ b.pieces = ps
      OBVIOUS
    <2> HIDE DEF line, b
    <2>9. /\ sent' \in Seq(ServerBlock) /\ Len(sent') = Len(sent) /\ DOMAIN sent' = DOMAIN sent
          /\ sent'[i] = b /\ \A k \in DOMAIN sent : k # i => sent'[k] = sent[k]
      BY <1>1, <2>2, <2>6, ExceptParts
    <2>a. GoesOn(sent, sent')
      <3>1. sent'[i].kind = sent[i].kind /\ \E p \in Nat : sent'[i].pieces = Append(sent[i].pieces, p)
        BY <1>1, <2>8, <2>9
      <3> HIDE DEF ps
      <3> QED BY <1>1, <2>9, <3>1 DEF GoesOn
    <2> QED BY <1>1, <2>1, <2>3, <2>5, <2>7, <2>9, <2>a, ProxySends DEF Closing, ProxyCopy
  <1>8. ASSUME NEW i \in DOMAIN sent, Streams!Proxy!SendBlockEnd(i) PROVE ProxyCopy'
    <2> DEFINE line == Streams!Proxy!Line("block_end", sent[i].kind, i, 0)
               b    == [kind |-> sent[i].kind, pieces |-> sent[i].pieces, open |-> FALSE]
    <2>1. sent[i].open /\ Streams!Proxy!Sends(line) /\ UNCHANGED <<pieces, finished>>
      BY <1>8 DEF Streams!Proxy!SendBlockEnd
    <2>2. sent' = [sent EXCEPT ![i] = b]
      <3>1. sent' = [sent EXCEPT ![i].open = FALSE]
        BY <1>8 DEF Streams!Proxy!SendBlockEnd
      <3>2. [sent[i] EXCEPT !.open = FALSE] = b
        <4>1. sent[i] \in ServerBlock
          BY <1>1
        <4> QED BY <4>1, FilledServerBlock
      <3> HIDE DEF b
      <3> QED BY <3>1, <3>2
    <2>3. ~finished
      BY <2>1 DEF Streams!Proxy!Sends
    <2>4. sent[i] \in ServerBlock
      BY <1>1
    <2>5. /\ line \in WireLine /\ line.type = "block_end" /\ line.kind = sent[i].kind
          /\ line.index = i
      BY <1>1, <2>4 DEF Streams!Proxy!Line, WireLine, ServerBlock
    <2>6. b \in ServerBlock
      BY <2>4 DEF ServerBlock
    <2>7. Leads(line, sent, sent')
      <3> HIDE DEF line
      <3> QED BY <2>1, <2>2, <2>5 DEF Leads
    <2>8. b.kind = sent[i].kind /\ b.pieces = sent[i].pieces
      OBVIOUS
    <2> HIDE DEF line, b
    <2>9. /\ sent' \in Seq(ServerBlock) /\ Len(sent') = Len(sent) /\ DOMAIN sent' = DOMAIN sent
          /\ sent'[i] = b /\ \A k \in DOMAIN sent : k # i => sent'[k] = sent[k]
      BY <1>1, <2>2, <2>6, ExceptParts
    <2>a. GoesOn(sent, sent')
      BY <1>1, <2>8, <2>9 DEF GoesOn
    <2> QED BY <1>1, <2>1, <2>3, <2>5, <2>7, <2>9, <2>a, ProxySends DEF Closing, ProxyCopy
  <1> QED BY <1>3, <1>4, <1>5, <1>6, <1>7, <1>8

\* Every step keeps the copy: a chunk read, lines unsent, an error, an end.
LEMMA ProxySteps ==
  ASSUME ProxyCopy, Streams!Proxy!Next
  PROVE  ProxyCopy'
  <1>1. CASE /\ phase = "body"
             /\ \/ Streams!Proxy!SendStart \/ Streams!Proxy!SendGarbage
                \/ \E kind \in Streams!Proxy!Kinds : Streams!Proxy!SendBlockStart(kind)
                \/ \E index \in DOMAIN sent : \/ Streams!Proxy!SendDelta(index)
                                              \/ Streams!Proxy!SendBlockEnd(index)
                \/ \E type \in {"done", "error"} : Streams!Proxy!SendTerminal(type)
    BY <1>1, ProxyServes DEF Streams!Proxy!Kinds, Kinds
  <1>2. CASE Streams!Proxy!ReadChunk
    <2> DEFINE w == Streams!Proxy!Processed
    <2>1. /\ phase = "body" /\ output' = w.output /\ buffers' = w.buffers /\ emitted' = w.events
          /\ phase' = (IF w.ok THEN "body" ELSE "closed") /\ wire' = <<>>
          /\ UNCHANGED <<sent, pieces, finished>>
      BY <1>2 DEF Streams!Proxy!ReadChunk, Streams!Proxy!Yield, Streams!Proxy!server
    <2>2. PICK h : Leading(h)
      BY <2>1 DEF ProxyCopy
    <2>3. Reading(w, Len(wire), sent) /\ sent \in Seq(ServerBlock)
      BY <2>1, <2>2, ChunkShown DEF ProxyCopy
    <2> HIDE DEF w
    <2>4. w.output = Rebuilt(sent) /\ Shows(output', buffers', sent')
      <3>1. Shows(w.output, w.buffers, sent)
        BY <2>3 DEF Reading
      <3> QED BY <2>1, <3>1 DEF Shows
    <2>5. wire' \in Seq(WireLine) /\ Len(wire') = 0
      BY <2>1
    <2>6. \E g : Leading(g)'
      <3>1. PICK g : g = [n \in {0} |-> sent]
        OBVIOUS
      <3>2. g[0] = sent
        BY <3>1
      <3>3. Leading(g)'
        BY <2>1, <2>3, <2>4, <2>5, <3>2 DEF Leading
      <3> QED BY <3>3
    <2>7. LastCloses'
      BY <2>5 DEF LastCloses
    <2>8. PICK S : w.events \in Seq(S) /\ \A e \in S : e.type = "done" => finished /\ e.message = w.output
      BY <2>3 DEF Reading
    <2>9. \A k \in DOMAIN emitted' : emitted'[k].type = "done" => finished /\ emitted'[k].message = w.output
      BY <2>1, <2>8, Elements
    <2>a. NoDone(emitted') \/ finished'
      BY <2>1, <2>9 DEF NoDone
    <2>b. Streams!Proxy!MessageComplete'
      <3>1. w.output = [j \in DOMAIN sent |-> Streams!Proxy!Block(sent[j].kind, sent[j].pieces)]
        BY <2>4 DEF Rebuilt, Streams!Proxy!Block
      <3> QED BY <2>1, <2>9, <3>1 DEF Streams!Proxy!MessageComplete, Streams!Proxy!Block
    <2>c. Streams!Proxy!PartialFollowsServer'
      <3>1. Follows(w.output, sent)
        BY <2>3, <2>4, FollowsItself
      <3> QED BY <2>1, <3>1 DEF Streams!Proxy!PartialFollowsServer, Follows, Streams!Proxy!IsPrefix
    <2> QED BY <2>1, <2>3, <2>5, <2>6, <2>7, <2>a, <2>b, <2>c DEF ProxyCopy, NoDone
  <1>3. ASSUME UNCHANGED <<sent, pieces, wire, finished, output, buffers>>, NoDone(emitted'),
               phase = "closed" => phase' = "closed"
        PROVE  ProxyCopy'
    <2>1. Streams!Proxy!MessageComplete'
      BY <1>3 DEF Streams!Proxy!MessageComplete, NoDone
    <2>2. Streams!Proxy!PartialFollowsServer'
      BY <1>3 DEF ProxyCopy, Streams!Proxy!PartialFollowsServer, Streams!Proxy!IsPrefix
    <2>3. phase' # "closed" => \E h : Leading(h)'
      <3> SUFFICES ASSUME phase' # "closed" PROVE \E h : Leading(h)'
        OBVIOUS
      <3>1. PICK h : Leading(h)
        BY <1>3 DEF ProxyCopy
      <3>2. Leading(h)'
        BY <1>3, <3>1 DEF Leading
      <3> QED BY <3>2
    <2>4. phase' # "closed" => LastCloses'
      BY <1>3 DEF ProxyCopy, LastCloses
    <2> QED BY <1>3, <2>1, <2>2, <2>3, <2>4 DEF ProxyCopy, NoDone
  <1>4. CASE Streams!Proxy!RequestFails \/ Streams!Proxy!EndOfBody \/ Streams!Proxy!Aborted
               \/ Streams!Proxy!Answered \/ Streams!Proxy!Cancel
    <2>1. /\ UNCHANGED <<sent, pieces, wire, finished, output, buffers>>
          /\ phase = "closed" => phase' = "closed"
      BY <1>4 DEF Streams!Proxy!RequestFails, Streams!Proxy!EndOfBody, Streams!Proxy!Aborted,
                  Streams!Proxy!Answered, Streams!Proxy!Cancel, Streams!Proxy!server
    <2>2. \E reason : emitted' = <<>> \/ emitted' = <<Streams!Proxy!Error(reason, output)>>
      BY <1>4 DEF Streams!Proxy!RequestFails, Streams!Proxy!EndOfBody, Streams!Proxy!Aborted,
                  Streams!Proxy!Answered, Streams!Proxy!Cancel, Streams!Proxy!Yield
    <2>3. NoDone(emitted')
      BY <2>2 DEF NoDone, Streams!Proxy!Error
    <2> QED BY <1>3, <2>1, <2>3
  <1> QED BY <1>1, <1>2, <1>4 DEF Streams!Proxy!Next

LEMMA ProxyInit == Streams!Proxy!Init => ProxyCopy
  <1> SUFFICES ASSUME Streams!Proxy!Init PROVE ProxyCopy
    OBVIOUS
  <1>1. /\ sent = <<>> /\ pieces = 0 /\ wire = <<>> /\ finished = FALSE /\ output = <<>>
        /\ buffers = <<>> /\ emitted = <<>>
    BY DEF Streams!Proxy!Init
  <1>2. /\ sent \in Seq(ServerBlock) /\ pieces \in Nat /\ wire \in Seq(WireLine)
        /\ Len(wire) = 0 /\ DOMAIN sent = {} /\ DOMAIN output = {} /\ DOMAIN buffers = {}
        /\ DOMAIN emitted = {} /\ Len(output) = 0 /\ Len(sent) = 0
    BY <1>1
  <1>3. \E h : Leading(h)
    <2>1. PICK h : h = [n \in {0} |-> <<>>]
      OBVIOUS
    <2>2. h[0] = <<>>
      BY <2>1
    <2>3. Shows(output, buffers, <<>>)
      BY <1>1, <1>2 DEF Shows, Rebuilt
    <2>4. h[0] \in Seq(ServerBlock) /\ Shows(output, buffers, h[0]) /\ h[Len(wire)] = sent
      BY <1>1, <1>2, <2>2, <2>3
    <2>5. 1..Len(wire) = {}
      BY <1>2
    <2>6. Leading(h)
      BY <2>4, <2>5 DEF Leading
    <2> QED BY <2>6
  <1>4. LastCloses /\ NoDone(emitted) /\ Streams!Proxy!MessageComplete
    BY <1>2 DEF LastCloses, NoDone, Streams!Proxy!MessageComplete
  <1>5. Streams!Proxy!PartialFollowsServer
    BY <1>2 DEF Streams!Proxy!PartialFollowsServer
  <1> QED BY <1>1, <1>2, <1>3, <1>4, <1>5 DEF ProxyCopy

-----------------------------------------------------------------------------
(* MessageComplete: the provider call and its retries. *)

token       == slot7
caller      == slot8
wrapper     == slot9
attempt     == slot10
inner       == slot4
event       == slot6
transcript  == slot3
brackets    == slot5
USE DEF token, caller, wrapper, attempt, inner, event, transcript, brackets

MessageStates == {"partial", "done", "error", "aborted"}
Finals == {"done", "error", "aborted", "nothing"}

\* While the response goes on, each message begun has had its MessageStart and
\* none its MessageEnd; before the first retry there is one at most, begun by
\* the provider's Start.
ModelCopy ==
  /\ transcript \in Seq(MessageStates) /\ brackets \in [start : Nat, end : Nat]
  /\ attempt \in Nat
  /\ event \in {"none", "start", "update", "taken"} \cup Finals
  /\ wrapper \in {"reading", "draining", "backoff"} => event \in {"none", "start", "update"}
  /\ wrapper \in {"draining", "backoff"} => attempt > 0 /\ event = "none"
  /\ wrapper \in {"reading", "draining", "backoff"} \/ (wrapper = "ended" /\ event \in Finals \cup {"taken"})
  /\ brackets.start = Len(transcript)
  /\ event # "taken" => brackets.end = 0
  /\ event = "start" => inner = "started"
  /\ event # "taken" /\ attempt = 0 =>
       /\ Len(transcript) <= 1
       /\ inner = "new" \/ event = "start" => Len(transcript) = 0
  /\ Streams!Model!ClosedOnce

\* What the agent makes of an event.
LEMMA ModelTakes ==
  ASSUME ModelCopy, Streams!Model!Take
  PROVE  ModelCopy'
  <1> DEFINE n == Len(transcript)
  <1>1. /\ transcript \in Seq(MessageStates) /\ brackets \in [start : Nat, end : Nat]
        /\ attempt \in Nat /\ brackets.start = n /\ n \in Nat /\ DOMAIN transcript = 1..n
    BY Elements DEF ModelCopy
  <1>2. UNCHANGED <<token, caller, wrapper, attempt, inner>>
    BY DEF Streams!Model!Take, Streams!Model!calls
  <1>3. event' = IF wrapper = "ended" THEN "taken" ELSE "none"
    BY DEF Streams!Model!Take
  <1>4. CASE Streams!Model!TakeStart
    <2>1. event = "start" /\ brackets.end = 0 /\ wrapper = "reading" /\ event' = "none"
      BY <1>3, <1>4 DEF Streams!Model!TakeStart, ModelCopy, Finals
    <2>2. /\ transcript' \in Seq(MessageStates) /\ Len(transcript') = n + 1
          /\ brackets' = [start |-> n + 1, end |-> 0]
      <3>1. transcript' = Append(transcript, "partial")
        BY <1>4 DEF Streams!Model!TakeStart
      <3>2. brackets' = [brackets EXCEPT !.start = n + 1]
        BY <1>1, <1>4 DEF Streams!Model!TakeStart
      <3> QED BY <1>1, <2>1, <3>1, <3>2, AppendParts DEF MessageStates
    <2>3. brackets' \in [start : Nat, end : Nat] /\ brackets'.start = n + 1 /\ brackets'.end = 0
      BY <1>1, <2>2
    <2>4. inner = "started" /\ (attempt = 0 => n = 0)
      BY <2>1 DEF ModelCopy
    <2>5. Streams!Model!ClosedOnce'
      BY <2>1 DEF Streams!Model!ClosedOnce, Streams!Model!Settled
    <2> QED BY <1>1, <1>2, <2>1, <2>2, <2>3, <2>4, <2>5 DEF ModelCopy
  <1>5. CASE Streams!Model!TakeUpdate
    <2>1. event = "update" /\ brackets.end = 0 /\ wrapper = "reading" /\ event' = "none"
          /\ brackets' = brackets
      BY <1>3, <1>5 DEF Streams!Model!TakeUpdate, ModelCopy, Finals
    <2>2. transcript' \in Seq(MessageStates) /\ Len(transcript') = n
      <3>1. CASE n > 0
        <4>1. transcript' = [transcript EXCEPT ![n] = "partial"]
          BY <1>1, <1>5, <3>1 DEF Streams!Model!TakeUpdate, Streams!Model!Put, Streams!Model!EmittedStart
        <4> QED BY <1>1, <3>1, <4>1, ExceptParts DEF MessageStates
      <3>2. CASE ~(n > 0)
        BY <1>1, <1>5, <3>2 DEF Streams!Model!TakeUpdate, Streams!Model!EmittedStart
      <3> QED BY <3>1, <3>2
    <2>3. Streams!Model!ClosedOnce'
      BY <2>1 DEF Streams!Model!ClosedOnce, Streams!Model!Settled
    <2>4. attempt = 0 => n <= 1 /\ (inner = "new" => n = 0)
      BY <2>1 DEF ModelCopy
    <2> QED BY <1>1, <1>2, <2>1, <2>2, <2>3, <2>4 DEF ModelCopy
  <1>6. CASE Streams!Model!TakeTerminal
    <2>1. /\ event \in Finals /\ brackets.end = 0 /\ wrapper = "ended" /\ event' = "taken"
          /\ attempt = 0 => n <= 1
      BY <1>3, <1>6 DEF Streams!Model!TakeTerminal, ModelCopy, Finals
    <2> DEFINE state == IF event = "nothing" THEN "error" ELSE event
               m     == IF n > 0 THEN n ELSE 1
    <2>2. state \in MessageStates \ {"partial"}
      BY <2>1 DEF Finals, MessageStates
    <2>3. Streams!Model!Put(state)
      BY <1>6 DEF Streams!Model!TakeTerminal
    <2>4. transcript' \in Seq(MessageStates) /\ Len(transcript') = m /\ transcript'[m] = state
      <3> HIDE DEF state
      <3>1. CASE n > 0
        <4>1. transcript' = [transcript EXCEPT ![n] = state]
          BY <1>1, <2>3, <3>1 DEF Streams!Model!Put, Streams!Model!EmittedStart
        <4> QED BY <1>1, <2>2, <3>1, <4>1, ExceptParts
      <3>2. CASE ~(n > 0)
        <4>1. transcript' = Append(transcript, state)
          BY <1>1, <2>3, <3>2 DEF Streams!Model!Put, Streams!Model!EmittedStart
        <4> QED BY <1>1, <2>2, <3>2, <4>1, AppendParts
      <3> QED BY <3>1, <3>2
    <2>5. brackets' = [start |-> m, end |-> 1]
      BY <1>1, <1>6, <2>1 DEF Streams!Model!TakeTerminal, Streams!Model!EmittedStart
    <2> HIDE DEF state
    <2>6. /\ m \in Nat /\ (attempt = 0 => m = 1)
          /\ brackets' \in [start : Nat, end : Nat] /\ brackets'.start = m /\ brackets'.end = 1
      BY <1>1, <2>1, <2>5
    <2> HIDE DEF m
    <2>7. Streams!Model!ClosedOnce'
      BY <1>2, <2>2, <2>4, <2>6 DEF Streams!Model!ClosedOnce, Streams!Model!Settled
    <2> QED BY <1>1, <1>2, <2>1, <2>4, <2>6, <2>7 DEF ModelCopy
  <1> QED BY <1>4, <1>5, <1>6 DEF Streams!Model!Take

\* Every step of the response and of its retries keeps the brackets.
LEMMA ModelSteps == ModelCopy /\ Streams!Model!Next => ModelCopy'
  <1> SUFFICES ASSUME ModelCopy, Streams!Model!Next PROVE ModelCopy'
    OBVIOUS
  <1> USE DEF ModelCopy, Streams!Model!ClosedOnce, Streams!Model!Settled, Streams!Model!consumer,
              Streams!Model!calls, Finals
  <1>1. ASSUME NEW cause \in {"abort", "timeout"}, Streams!Model!Signal(cause) PROVE ModelCopy'
    BY <1>1 DEF Streams!Model!Signal
  <1>2. CASE Streams!Model!PassOn
    BY <1>2 DEF Streams!Model!PassOn, Streams!Model!Gate, Streams!Model!Reading
  <1>3. CASE Streams!Model!PassTerminal
    BY <1>3 DEF Streams!Model!PassTerminal, Streams!Model!Gate, Streams!Model!Reading,
                Streams!Model!Finish
  <1>4. CASE Streams!Model!RetriableError
    BY <1>4 DEF Streams!Model!RetriableError, Streams!Model!Gate, Streams!Model!Reading,
                Streams!Model!Finish
  <1>5. CASE Streams!Model!ProviderEnds
    BY <1>5 DEF Streams!Model!ProviderEnds, Streams!Model!Finish
  <1>6. CASE Streams!Model!CancelCombined
    BY <1>6 DEF Streams!Model!CancelCombined
  <1>7. CASE Streams!Model!Retry
    BY <1>7 DEF Streams!Model!Retry
  <1>8. CASE Streams!Model!Cancelled
    BY <1>8 DEF Streams!Model!Cancelled, Streams!Model!Reading, Streams!Model!Finish
  <1>9. CASE Streams!Model!Take
    BY <1>9, ModelTakes
  <1> QED BY <1>1, <1>2, <1>3, <1>4, <1>5, <1>6, <1>7, <1>8, <1>9
          DEF Streams!Model!Next, Streams!Model!Wrapper

LEMMA ModelInit == Streams!Model!Init => ModelCopy
  BY DEF Streams!Model!Init, ModelCopy, Streams!Model!ClosedOnce, Streams!Model!Settled, Finals

-----------------------------------------------------------------------------
(* MessageComplete: what the subject of a behaviour keeps, it keeps always. *)

CopyInv ==
  subject = "streams" =>
    /\ slot11 = "anthropic" => AnthropicCopy
    /\ slot11 = "openai"    => OpenAiCopy
    /\ slot11 = "responses" => ResponsesCopy
    /\ slot11 = "google"    => GoogleCopy
    /\ slot11 = "proxy"     => ProxyCopy
    /\ slot11 = "model"     => ModelCopy

LEMMA CopyStarts == MCInit => CopyInv
  <1> SUFFICES ASSUME MCInit, subject = "streams" PROVE CopyInv
    BY DEF CopyInv
  <1>1. Streams!Init
    BY DEF MCInit
  <1>2. /\ slot11 = "anthropic" => Streams!Anthropic!Init
        /\ slot11 = "openai"    => Streams!OpenAi!Init
        /\ slot11 = "responses" => Streams!Responses!Init
        /\ slot11 = "google"    => Streams!Google!Init
        /\ slot11 = "proxy"     => Streams!Proxy!Init
        /\ slot11 = "model"     => Streams!Model!Init
    BY <1>1 DEF Streams!Init
  <1> QED BY <1>2, AnthropicInit, OpenAiInit, ResponsesInit, GoogleInit, ProxyInit, ModelInit
          DEF CopyInv

LEMMA CopyStep ==
  ASSUME CopyInv, [MCNext]_<<subject, vars, slots>>
  PROVE  CopyInv'
  <1>1. CASE StreamsStep
    <2>1. subject = "streams" /\ subject' = "streams" /\ Streams!Next
      BY <1>1 DEF StreamsStep
    <2>2. CASE Streams!AnthropicStep
      <3>1. slot11 = "anthropic" /\ slot11' = slot11 /\ Streams!Anthropic!Next
        BY <2>2 DEF Streams!AnthropicStep
      <3> QED BY <2>1, <3>1, AnthropicSteps DEF CopyInv
    <2>3. CASE Streams!OpenAiStep
      <3>1. slot11 = "openai" /\ slot11' = slot11 /\ Streams!OpenAi!Next
        BY <2>3 DEF Streams!OpenAiStep
      <3> QED BY <2>1, <3>1, OpenAiSteps DEF CopyInv
    <2>4. CASE Streams!ResponsesStep
      <3>1. slot11 = "responses" /\ slot11' = slot11 /\ Streams!Responses!Next
        BY <2>4 DEF Streams!ResponsesStep
      <3> QED BY <2>1, <3>1, ResponsesCopySteps DEF CopyInv
    <2>5. CASE Streams!GoogleStep
      <3>1. slot11 = "google" /\ slot11' = slot11 /\ Streams!Google!Next
        BY <2>5 DEF Streams!GoogleStep
      <3> QED BY <2>1, <3>1, GoogleSteps DEF CopyInv
    <2>6. CASE Streams!ProxyStep
      <3>1. slot11 = "proxy" /\ slot11' = slot11 /\ Streams!Proxy!Next
        BY <2>6 DEF Streams!ProxyStep
      <3> QED BY <2>1, <3>1, ProxySteps DEF CopyInv
    <2>7. CASE Streams!ModelStep
      <3>1. slot11 = "model" /\ slot11' = slot11 /\ Streams!Model!Next
        BY <2>7 DEF Streams!ModelStep
      <3> QED BY <2>1, <3>1, ModelSteps DEF CopyInv
    <2>8. CASE Streams!RequestsStep
      BY <2>1, <2>8 DEF Streams!RequestsStep, CopyInv
    <2> QED BY <2>1, <2>2, <2>3, <2>4, <2>5, <2>6, <2>7, <2>8 DEF Streams!Next
  <1>2. CASE UNCHANGED <<subject, vars, slots>>
    <2>1. /\ UNCHANGED <<subject, slot1, slot2, slot3, slot4, slot5, slot6>>
          /\ UNCHANGED <<slot7, slot8, slot9, slot10, slot11>>
      BY <1>2 DEF slots, slots1_4, slots5_7, slots8_9, slots10_11
    <2>2. AnthropicCopy => AnthropicCopy'
      BY <2>1 DEF AnthropicCopy, AllKnown, Streams!Anthropic!MessageComplete,
                  Streams!Anthropic!Finished, Streams!Anthropic!Whole
    <2>3. OpenAiCopy => OpenAiCopy'
      BY <2>1 DEF OpenAiCopy, Streams!OpenAi!MessageComplete
    <2>4. ResponsesCopy => ResponsesCopy'
      BY <2>1 DEF ResponsesCopy, ItemOpen, ItemsDone, TextHeld, Streams!Responses!OneText,
                  Streams!Responses!MessageComplete
    <2>5. GoogleCopy => GoogleCopy'
      BY <2>1 DEF GoogleCopy, GoogleBody, Streams!Google!MessageComplete
    <2>6. ProxyCopy => ProxyCopy'
      <3>1. /\ Streams!Proxy!MessageComplete => Streams!Proxy!MessageComplete'
            /\ Streams!Proxy!PartialFollowsServer => Streams!Proxy!PartialFollowsServer'
        BY <2>1 DEF Streams!Proxy!MessageComplete, Streams!Proxy!PartialFollowsServer
      <3>2. (\E h : Leading(h)) => (\E h : Leading(h))'
        BY <2>1 DEF Leading, Shows
      <3>3. (LastCloses => LastCloses') /\ (NoDone(emitted) => NoDone(emitted'))
        BY <2>1 DEF LastCloses
      <3> QED BY <2>1, <3>1, <3>2, <3>3 DEF ProxyCopy
    <2>7. ModelCopy => ModelCopy'
      BY <2>1 DEF ModelCopy, Streams!Model!ClosedOnce, Streams!Model!Settled
    <2> QED BY <2>1, <2>2, <2>3, <2>4, <2>5, <2>6, <2>7 DEF CopyInv
  <1>3. CASE SubprocessStep \/ ChainStep \/ FilesStep \/ BashStep
    BY <1>3 DEF SubprocessStep, ChainStep, FilesStep, BashStep, CopyInv
  <1> QED BY <1>1, <1>2, <1>3 DEF MCNext

LEMMA CopyIsComplete == CopyInv => MessageComplete
  <1> SUFFICES ASSUME CopyInv, subject = "streams" PROVE Streams!MessageComplete
    BY DEF MessageComplete
  <1>1. /\ slot11 = "anthropic" => Streams!Anthropic!MessageComplete
        /\ slot11 = "openai"    => Streams!OpenAi!MessageComplete
        /\ slot11 = "responses" => Streams!Responses!MessageComplete
        /\ slot11 = "google"    => Streams!Google!MessageComplete
        /\ slot11 = "proxy"     => Streams!Proxy!MessageComplete /\ Streams!Proxy!PartialFollowsServer
        /\ slot11 = "model"     => Streams!Model!ClosedOnce
    BY DEF CopyInv, AnthropicCopy, OpenAiCopy, ResponsesCopy, GoogleCopy, ProxyCopy, ModelCopy
  <1> QED BY <1>1 DEF Streams!MessageComplete

\* A Done carries what the server sent, for each of the four adapters and the
\* proxy, whatever the server sends and however it is cut into events and
\* chunks; the proxy's message is a prefix of the server's at every moment;
\* and each message of a response that is over was closed, once.
THEOREM MessagesAreComplete == MCSpec => []MessageComplete
  <1>1. CopyInv /\ [MCNext]_<<subject, vars, slots>> => CopyInv'
    BY CopyStep
  <1> QED BY <1>1, CopyStarts, CopyIsComplete, PTL DEF MCSpec

-----------------------------------------------------------------------------
(* The edit and write tools on one file. *)

disk   == slot1
jobs   == slot2
locks  == slot3
former == slot4
USE DEF disk, jobs, locks, former

Paths   == Spellings \cup {"own"}
AtFile  == {"read", "filling"}
AtLock  == {"queued"} \cup AtFile
NoLock  == {"new", "done", "failed"}

\* The file is named in one way: it was there, and has one canonical path, or it
\* is only named by that.
OneName == former.there \/ Spellings \subseteq {"own"}

\* A call has the fields of its place.
JobSound(j) ==
  /\ j.at \in AtLock \cup NoLock
  /\ j.at \in AtLock => j.key \in Paths
  /\ j.at \in AtFile => j = [at |-> j.at, op |-> j.op, key |-> j.key, read |-> j.read,
                             file |-> j.file, made |-> j.made]

\* A call is in the queue of its lock while it has or awaits it, and works on the
\* file only as the first of it; the file is then as the call left it.
FilesInv ==
  /\ former.there => disk.there
  /\ disk = Files!Missing \/ disk.there
  /\ jobs = [c \in Tasks |-> jobs[c]] /\ \A c \in Tasks : JobSound(jobs[c])
  /\ locks \in [Paths -> Seq(Tasks)]
  /\ \A c \in Tasks, k \in Paths :
       c \in ToSet(locks[k]) <=> jobs[c].at \in AtLock /\ jobs[c].key = k
  /\ \A c \in Tasks : jobs[c].at \in AtFile => Head(locks[jobs[c].key]) = c
  /\ OneName => \A c \in Tasks : /\ jobs[c].at \in AtLock => jobs[c].key = "own"
                                 /\ jobs[c].at \in AtFile => disk = jobs[c].file

LEMMA FilesStart == Files!Init => FilesInv
  <1> SUFFICES ASSUME Files!Init PROVE FilesInv
    OBVIOUS
  <1>1. /\ former \in {Files!Missing} \cup {Files!Text(t) : t \in Starts} /\ disk = former
        /\ jobs = [c \in Tasks |-> Files!New]
        /\ locks = [k \in Paths |-> <<>>]
    BY DEF Files!Init, Paths
  <1>2. disk = Files!Missing \/ disk.there
    BY <1>1 DEF Files!Text
  <1>3. \A c \in Tasks : jobs[c].at = "new"
    BY <1>1 DEF Files!New
  <1>4. \A k \in Paths : ToSet(locks[k]) = {} /\ locks[k] \in Seq(Tasks)
    BY <1>1 DEF ToSet
  <1>5. locks \in [Paths -> Seq(Tasks)]
    BY <1>1, <1>4
  <1>6. \A c \in Tasks : JobSound(jobs[c])
    BY <1>3 DEF JobSound, AtLock, AtFile, NoLock
  <1> QED BY <1>1, <1>2, <1>3, <1>4, <1>5, <1>6 DEF FilesInv, AtLock, AtFile

\* One that has a lock is the only one at work: the others' lock is the same.
LEMMA OneWorks ==
  ASSUME FilesInv, OneName, NEW c \in Tasks, jobs[c].at \in AtLock,
         Head(locks[jobs[c].key]) = c, NEW d \in Tasks, jobs[d].at \in AtFile
  PROVE  d = c
  <1>1. jobs[c].key = "own" /\ jobs[d].key = "own"
    BY DEF FilesInv, AtLock
  <1>2. Head(locks["own"]) = d
    BY <1>1 DEF FilesInv
  <1> QED BY <1>1, <1>2

\* A call gives its lock back, or no longer waits for it.
LEMMA FilesLeave ==
  ASSUME FilesInv, NEW c \in Tasks, jobs[c].at \in AtLock,
         NEW outcome, outcome.at \in {"done", "failed"}, Files!Leave(c, outcome),
         former' = former,
         former.there => disk'.there, disk' = Files!Missing \/ disk'.there,
         disk' = disk \/ Head(locks[jobs[c].key]) = c
  PROVE  FilesInv'
  <1> DEFINE T == Tasks \ {c}  l == jobs[c].key
  <1>1. jobs' = [jobs EXCEPT ![c] = outcome] /\ locks' = [locks EXCEPT ![l] = Files!Keep(@, T)]
    BY DEF Files!Leave
  <1>2. l \in Paths /\ locks \in [Paths -> Seq(Tasks)] /\ jobs = [d \in Tasks |-> jobs[d]]
    BY DEF FilesInv, JobSound
  <1>3. /\ jobs' = [d \in Tasks |-> jobs'[d]]
        /\ jobs'[c] = outcome /\ \A d \in Tasks : d # c => jobs'[d] = jobs[d]
    <2>1. jobs' = [d \in Tasks |-> IF d = c THEN outcome ELSE jobs[d]]
      BY <1>1, <1>2
    <2> QED BY <2>1
  <1>4. \A s : Files!Keep(s, T) = Keep(s, T)
    BY DEF Files!Keep, Keep
  <1> HIDE DEF T
  <1>5. /\ locks'[l] = Keep(locks[l], T) /\ \A k \in Paths : k # l => locks'[k] = locks[k]
        /\ DOMAIN locks' = Paths
    BY <1>1, <1>2, <1>4
  <1> HIDE DEF l
  <1>6. /\ locks[l] \in Seq(Tasks) /\ locks'[l] \in Seq(Tasks)
        /\ ToSet(locks'[l]) = ToSet(locks[l]) \cap T
    BY <1>2, <1>5, KeepInSeq, KeepElements
  <1>7. locks' \in [Paths -> Seq(Tasks)]
    <2>1. locks' = [k \in Paths |-> locks'[k]]
      BY <1>1, <1>2
    <2>2. \A k \in Paths : locks'[k] \in Seq(Tasks)
      BY <1>2, <1>5, <1>6
    <2> QED BY <2>1, <2>2
  <1>8. \A d \in Tasks, k \in Paths :
          d \in ToSet(locks'[k]) <=> jobs'[d].at \in AtLock /\ jobs'[d].key = k
    <2> SUFFICES ASSUME NEW d \in Tasks, NEW k \in Paths
                 PROVE  d \in ToSet(locks'[k]) <=> jobs'[d].at \in AtLock /\ jobs'[d].key = k
      OBVIOUS
    <2>1. d \in ToSet(locks[k]) <=> jobs[d].at \in AtLock /\ jobs[d].key = k
      BY DEF FilesInv
    <2>2. CASE d = c
      <3>1. jobs'[d].at \notin AtLock
        BY <1>3, <2>2 DEF AtLock, AtFile
      <3>2. k = l => d \notin ToSet(locks'[k])
        BY <1>6, <2>2 DEF T
      <3>3. k # l => d \notin ToSet(locks'[k])
        BY <1>5, <2>1, <2>2 DEF l
      <3> QED BY <3>1, <3>2, <3>3
    <2>3. CASE d # c
      <3>1. jobs'[d] = jobs[d]
        BY <1>3, <2>3
      <3>2. d \in ToSet(locks'[k]) <=> d \in ToSet(locks[k])
        BY <1>5, <1>6, <2>3 DEF T
      <3> QED BY <2>1, <3>1, <3>2
    <2> QED BY <2>2, <2>3
  <1>9. ASSUME NEW d \in Tasks, jobs'[d].at \in AtFile
        PROVE  d # c /\ jobs'[d] = jobs[d] /\ Head(locks'[jobs'[d].key]) = d
    <2>1. d # c /\ jobs'[d] = jobs[d]
      BY <1>3, <1>9 DEF AtFile
    <2>2. /\ jobs[d].key \in Paths /\ Head(locks[jobs[d].key]) = d
          /\ d \in ToSet(locks[jobs[d].key])
      BY <1>9, <2>1 DEF FilesInv, JobSound, AtLock
    <2>3. CASE jobs[d].key = l
      <3>1. locks[l] # <<>>
        BY <2>2, <2>3 DEF ToSet
      <3>2. Head(locks[l]) \in T
        BY <2>1, <2>2, <2>3 DEF T
      <3>3. Head(Keep(locks[l], T)) = Head(locks[l])
        BY <1>6, <3>1, <3>2, KeepHead
      <3> QED BY <1>5, <2>1, <2>2, <2>3, <3>3
    <2>4. CASE jobs[d].key # l
      BY <1>5, <2>1, <2>2, <2>4
    <2> QED BY <2>1, <2>3, <2>4
  <1>10. \A d \in Tasks : JobSound(jobs'[d])
    <2>1. JobSound(outcome)
      BY DEF JobSound, AtLock, AtFile, NoLock
    <2> QED BY <1>3, <2>1 DEF FilesInv
  <1>11. ASSUME OneName'
         PROVE  \A d \in Tasks : /\ jobs'[d].at \in AtLock => jobs'[d].key = "own"
                                 /\ jobs'[d].at \in AtFile => disk' = jobs'[d].file
    <2>1. OneName
      BY <1>11 DEF OneName
    <2> SUFFICES ASSUME NEW d \in Tasks
                 PROVE  /\ jobs'[d].at \in AtLock => jobs'[d].key = "own"
                        /\ jobs'[d].at \in AtFile => disk' = jobs'[d].file
      OBVIOUS
    <2>2. jobs'[d].at \in AtLock => jobs'[d] = jobs[d]
      BY <1>3 DEF AtLock, AtFile
    <2>3. jobs'[d].at \in AtLock => jobs'[d].key = "own"
      BY <2>1, <2>2 DEF FilesInv
    <2>4. ASSUME jobs'[d].at \in AtFile PROVE disk' = jobs'[d].file
      <3>1. d # c /\ jobs'[d] = jobs[d]
        BY <1>9, <2>4
      <3>2. disk' = disk
        BY <2>1, <2>4, <3>1, OneWorks
      <3> QED BY <2>1, <2>4, <3>1, <3>2 DEF FilesInv
    <2> QED BY <2>3, <2>4
  <1> QED BY <1>3, <1>7, <1>8, <1>9, <1>10, <1>11 DEF FilesInv

\* A call with its lock goes on, and may have written.
LEMMA FilesGoOn ==
  ASSUME FilesInv, NEW c \in Tasks, jobs[c].at \in AtLock, Head(locks[jobs[c].key]) = c,
         NEW job, jobs' = [jobs EXCEPT ![c] = job],
         job.at \in AtFile, job.key = jobs[c].key, JobSound(job), job.file = disk',
         former' = former, locks' = locks,
         former.there => disk'.there, disk' = Files!Missing \/ disk'.there
  PROVE  FilesInv'
  <1>1. jobs = [d \in Tasks |-> jobs[d]]
    BY DEF FilesInv
  <1>2. /\ jobs' = [d \in Tasks |-> jobs'[d]]
        /\ jobs'[c] = job /\ \A d \in Tasks : d # c => jobs'[d] = jobs[d]
    <2>1. jobs' = [d \in Tasks |-> IF d = c THEN job ELSE jobs[d]]
      BY <1>1
    <2> QED BY <2>1
  <1>3. \A d \in Tasks : /\ jobs'[d].at \in AtLock <=> jobs[d].at \in AtLock
                         /\ jobs'[d].at \in AtLock => jobs'[d].key = jobs[d].key
    BY <1>2 DEF AtLock
  <1>4. \A d \in Tasks : JobSound(jobs'[d])
    BY <1>2 DEF FilesInv
  <1>5. \A d \in Tasks : jobs'[d].at \in AtFile => Head(locks'[jobs'[d].key]) = d
    BY <1>2 DEF FilesInv
  <1>6. \A d \in Tasks, k \in Paths :
          d \in ToSet(locks'[k]) <=> jobs'[d].at \in AtLock /\ jobs'[d].key = k
    BY <1>3 DEF FilesInv
  <1>7. ASSUME OneName'
        PROVE  \A d \in Tasks : /\ jobs'[d].at \in AtLock => jobs'[d].key = "own"
                                /\ jobs'[d].at \in AtFile => disk' = jobs'[d].file
    <2>1. OneName
      BY <1>7 DEF OneName
    <2>2. \A d \in Tasks : jobs'[d].at \in AtLock => jobs'[d].key = "own"
      BY <1>3, <2>1 DEF FilesInv
    <2>3. ASSUME NEW d \in Tasks, jobs'[d].at \in AtFile PROVE d = c
      BY <1>2, <2>1, <2>3, OneWorks
    <2> QED BY <1>2, <2>2, <2>3
  <1> QED BY <1>2, <1>4, <1>5, <1>6, <1>7 DEF FilesInv

\* A call takes its place behind those that hold or await its lock.
LEMMA FilesCall ==
  ASSUME FilesInv, NEW c \in Tasks, NEW op, NEW path \in Spellings, Files!Call(c, op, path)
  PROVE  FilesInv'
  <1> DEFINE l == Files!Key(path)  job == [at |-> "queued", op |-> op, key |-> l]
  <1>1. /\ jobs[c].at = "new" /\ disk' = disk /\ former' = former
        /\ jobs' = [jobs EXCEPT ![c] = job]
        /\ locks' = [locks EXCEPT ![l] = Append(@, c)]
    BY DEF Files!Call, Files!New
  <1>2. l \in Paths /\ locks \in [Paths -> Seq(Tasks)] /\ jobs = [d \in Tasks |-> jobs[d]]
    BY DEF FilesInv, Files!Key, Paths
  <1>3. OneName => l = "own"
    <2>1. OneName => disk.there \/ path = "own"
      BY DEF OneName, FilesInv
    <2> QED BY <2>1 DEF Files!Key, Files!Missing
  <1>4. job.at = "queued" /\ job.key = l /\ JobSound(job)
    BY <1>2 DEF JobSound, AtLock, AtFile
  <1> HIDE DEF l, job
  <1>5. /\ jobs' = [d \in Tasks |-> jobs'[d]]
        /\ jobs'[c] = job /\ \A d \in Tasks : d # c => jobs'[d] = jobs[d]
    <2>1. jobs' = [d \in Tasks |-> IF d = c THEN job ELSE jobs[d]]
      BY <1>1, <1>2
    <2> QED BY <2>1
  <1>6. locks[l] \in Seq(Tasks) /\ locks'[l] = Append(locks[l], c)
        /\ \A k \in Paths : k # l => locks'[k] = locks[k]
    BY <1>1, <1>2
  <1>7. /\ locks'[l] \in Seq(Tasks) /\ ToSet(locks'[l]) = ToSet(locks[l]) \cup {c}
        /\ (locks[l] # <<>> => Head(locks'[l]) = Head(locks[l]))
    <2>1. ToSet(Append(locks[l], c)) = ToSet(locks[l]) \cup {c}
      BY <1>6, DistinctAppend
    <2> QED BY <1>6, <2>1
  <1>8. locks' \in [Paths -> Seq(Tasks)]
    <2>1. locks' = [k \in Paths |-> locks'[k]]
      BY <1>1, <1>2
    <2>2. \A k \in Paths : locks'[k] \in Seq(Tasks)
      BY <1>2, <1>6, <1>7
    <2> QED BY <2>1, <2>2
  <1>9. \A d \in Tasks, k \in Paths :
          d \in ToSet(locks'[k]) <=> jobs'[d].at \in AtLock /\ jobs'[d].key = k
    <2> SUFFICES ASSUME NEW d \in Tasks, NEW k \in Paths
                 PROVE  d \in ToSet(locks'[k]) <=> jobs'[d].at \in AtLock /\ jobs'[d].key = k
      OBVIOUS
    <2>1. d \in ToSet(locks[k]) <=> jobs[d].at \in AtLock /\ jobs[d].key = k
      BY DEF FilesInv
    <2>2. CASE d = c
      <3>1. d \notin ToSet(locks[k])
        BY <1>1, <2>1, <2>2 DEF AtLock, AtFile
      <3>2. jobs'[d].at \in AtLock /\ jobs'[d].key = l
        BY <1>4, <1>5, <2>2 DEF AtLock
      <3> QED BY <1>6, <1>7, <2>2, <3>1, <3>2
    <2>3. CASE d # c
      <3>1. d \in ToSet(locks'[k]) <=> d \in ToSet(locks[k])
        BY <1>6, <1>7, <2>3
      <3> QED BY <1>5, <2>1, <2>3, <3>1
    <2> QED BY <2>2, <2>3
  <1>10. ASSUME NEW d \in Tasks, jobs'[d].at \in AtFile
         PROVE  jobs'[d] = jobs[d] /\ Head(locks'[jobs'[d].key]) = d
    <2>1. jobs'[d] = jobs[d]
      BY <1>4, <1>5, <1>10 DEF AtFile
    <2>2. /\ jobs[d].key \in Paths /\ Head(locks[jobs[d].key]) = d
          /\ d \in ToSet(locks[jobs[d].key])
      BY <1>10, <2>1 DEF FilesInv, JobSound, AtLock
    <2>3. locks[jobs[d].key] # <<>>
      BY <2>2 DEF ToSet
    <2> QED BY <1>6, <1>7, <2>1, <2>2, <2>3
  <1>11. \A d \in Tasks : JobSound(jobs'[d])
    BY <1>4, <1>5 DEF FilesInv
  <1>12. ASSUME OneName'
         PROVE  \A d \in Tasks : /\ jobs'[d].at \in AtLock => jobs'[d].key = "own"
                                 /\ jobs'[d].at \in AtFile => disk' = jobs'[d].file
    <2>1. OneName
      BY <1>1, <1>12 DEF OneName
    <2>2. \A d \in Tasks : jobs'[d].at \in AtLock => jobs'[d].key = "own"
      BY <1>3, <1>4, <1>5, <2>1 DEF FilesInv
    <2>3. \A d \in Tasks : jobs'[d].at \in AtFile => disk' = jobs'[d].file
      BY <1>1, <1>10, <2>1 DEF FilesInv
    <2> QED BY <2>2, <2>3
  <1>13. (former'.there => disk'.there) /\ (disk' = Files!Missing \/ disk'.there)
    BY <1>1 DEF FilesInv
  <1> QED BY <1>5, <1>8, <1>9, <1>10, <1>11, <1>12, <1>13 DEF FilesInv

LEMMA FilesRead ==
  ASSUME FilesInv, NEW c \in Tasks, Files!Read(c)
  PROVE  FilesInv'
  <1> DEFINE outcome == Files!Apply(jobs[c].op, disk)
             job == [at |-> "read", op |-> jobs[c].op, key |-> jobs[c].key, read |-> disk,
                     file |-> disk, made |-> outcome]
  <1>1. /\ jobs[c].at = "queued" /\ Head(locks[jobs[c].key]) = c
        /\ disk' = disk /\ former' = former
        /\ \/ Files!Leave(c, Files!Done(c, disk, outcome))
           \/ jobs' = [jobs EXCEPT ![c] = job] /\ locks' = locks
    BY DEF Files!Read, Files!HasTurn
  <1>2. jobs[c].at \in AtLock /\ (former.there => disk'.there)
        /\ (disk' = Files!Missing \/ disk'.there)
    BY <1>1 DEF FilesInv, AtLock
  <1>3. CASE Files!Leave(c, Files!Done(c, disk, outcome))
    <2>1. Files!Done(c, disk, outcome).at \in {"done", "failed"}
      BY DEF Files!Done
    <2> HIDE DEF outcome
    <2> QED BY <1>1, <1>2, <1>3, <2>1, FilesLeave
  <1>4. CASE jobs' = [jobs EXCEPT ![c] = job] /\ locks' = locks
    <2>1. jobs[c].key \in Paths
      BY <1>2 DEF FilesInv, JobSound
    <2> HIDE DEF outcome
    <2>2. job.at \in AtFile /\ job.key = jobs[c].key /\ job.file = disk' /\ JobSound(job)
      BY <1>1, <2>1 DEF JobSound, AtFile, AtLock
    <2> HIDE DEF job
    <2> QED BY <1>1, <1>2, <1>4, <2>2, FilesGoOn
  <1> QED BY <1>1, <1>3, <1>4

LEMMA FilesTruncate ==
  ASSUME FilesInv, NEW c \in Tasks, Files!Truncate(c)
  PROVE  FilesInv'
  <1> DEFINE j == jobs[c]
             job == [at |-> "filling", op |-> j.op, key |-> j.key, read |-> j.read,
                     file |-> Files!Text(<<>>), made |-> j.made]
  <1>1. /\ j.at = "read" /\ disk' = Files!Text(<<>>) /\ former' = former /\ locks' = locks
        /\ jobs' = [jobs EXCEPT ![c] = [[j EXCEPT !.at = "filling"] EXCEPT !.file = Files!Text(<<>>)]]
    BY DEF Files!Truncate
  <1>2. /\ j = [at |-> j.at, op |-> j.op, key |-> j.key, read |-> j.read, file |-> j.file,
                made |-> j.made]
        /\ j.key \in Paths /\ Head(locks[j.key]) = c /\ j.at \in AtLock
    BY <1>1 DEF FilesInv, JobSound, AtFile, AtLock
  <1>3. disk'.there
    BY <1>1 DEF Files!Text
  <1>4. [[j EXCEPT !.at = "filling"] EXCEPT !.file = Files!Text(<<>>)] = job
    <2> DEFINE g == Files!Text(<<>>)
               y == [at |-> "filling", op |-> j.op, key |-> j.key, read |-> j.read,
                     file |-> j.file, made |-> j.made]
    <2> HIDE DEF j, g
    <2>1. [j EXCEPT !.at = "filling"] = y
      BY <1>2
    <2>2. [y EXCEPT !.file = g] = [at |-> "filling", op |-> j.op, key |-> j.key, read |-> j.read,
                                   file |-> g, made |-> j.made]
      OBVIOUS
    <2> HIDE DEF y
    <2> QED BY <2>1, <2>2 DEF g
  <1>5. job.at \in AtFile /\ job.key = j.key /\ job.file = disk' /\ JobSound(job)
    BY <1>1, <1>2 DEF JobSound, AtFile, AtLock
  <1> HIDE DEF job
  <1>6. jobs' = [jobs EXCEPT ![c] = job]
    BY <1>1, <1>4
  <1> QED BY <1>1, <1>2, <1>3, <1>5, <1>6, FilesGoOn

LEMMA FilesEnd ==
  ASSUME FilesInv, NEW c \in Tasks, Files!Fill(c) \/ Files!WriteFails(c) \/ Files!Drop(c)
  PROVE  FilesInv'
  <1>1. CASE Files!Fill(c)
    <2> DEFINE outcome == Files!Done(c, jobs[c].read, jobs[c].made)
    <2>1. /\ jobs[c].at = "filling" /\ disk' = Files!Text(jobs[c].made.text)
          /\ Files!Leave(c, outcome) /\ former' = former
      BY <1>1 DEF Files!Fill
    <2>2. outcome.at \in {"done", "failed"} /\ disk'.there
      BY <2>1 DEF Files!Done, Files!Text
    <2>3. jobs[c].at \in AtLock /\ Head(locks[jobs[c].key]) = c
      BY <2>1 DEF FilesInv, AtLock, AtFile
    <2> HIDE DEF outcome
    <2> QED BY <2>1, <2>2, <2>3, FilesLeave
  <1>2. CASE Files!WriteFails(c) \/ Files!Drop(c)
    <2> DEFINE outcome == [at |-> "failed"]
    <2>1. /\ jobs[c].at \in AtLock /\ disk' = disk /\ former' = former
          /\ Files!Leave(c, outcome)
      BY <1>2 DEF Files!WriteFails, Files!Drop, AtLock, AtFile
    <2>2. outcome.at \in {"done", "failed"}
      OBVIOUS
    <2>3. (former.there => disk'.there) /\ (disk' = Files!Missing \/ disk'.there)
      BY <2>1 DEF FilesInv
    <2> HIDE DEF outcome
    <2> QED BY <2>1, <2>2, <2>3, FilesLeave
  <1> QED BY <1>1, <1>2

FilesHold == subject = "files" => FilesInv

\* No call of the edit and write tools writes over what it has not read, so that no
\* edit made at the same time is lost, if the file was there or is only named by its
\* own path: for any number of calls, whatever they ask for, abort or fail at
\* (FileTools).
THEOREM EditsAreNotLost == MCSpec => [](subject = "files" => Files!NoEditLost)
  <1>1. MCInit => FilesHold
    BY FilesStart DEF MCInit, FilesHold
  <1>2. ASSUME FilesHold, [MCNext]_<<subject, vars, slots>> PROVE FilesHold'
    <2>1. CASE FilesStep
      <3> SUFFICES ASSUME FilesInv, Files!Next PROVE FilesInv'
        BY <1>2, <2>1 DEF FilesStep, FilesHold
      <3> QED BY FilesCall, FilesRead, FilesTruncate, FilesEnd DEF Files!Next
    <2>2. CASE SubprocessStep \/ ChainStep \/ BashStep \/ StreamsStep
      BY <2>2 DEF SubprocessStep, ChainStep, BashStep, StreamsStep, FilesHold
    <2>3. CASE UNCHANGED <<subject, vars, slots>>
      BY <1>2, <2>3 DEF slots, slots1_4, FilesHold, FilesInv, OneName
    <2> QED BY <1>2, <2>1, <2>2, <2>3 DEF MCNext
  <1>3. FilesHold => (subject = "files" => Files!NoEditLost)
    BY DEF FilesHold, FilesInv, OneName, AtFile, Files!NoEditLost
  <1> QED BY <1>1, <1>2, <1>3, PTL DEF MCSpec

=============================================================================
