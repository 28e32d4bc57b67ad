---------------------------- MODULE FrontEndsProofs ----------------------------
(***************************************************************************)
(* Proofs about what drives a session from outside (MCFrontEnds): the RPC  *)
(* server, whose dispatcher takes commands in the order of the wire and    *)
(* answers each frame once, the interactive driver, and the web UI's       *)
(* requests and page, for every value of the constants that RpcAssumption  *)
(* and FrontEndsAssumption allow.                                          *)
(***************************************************************************)
EXTENDS MCFrontEnds, SequenceLemmas

----------------------------------------------------------------------------
(* The RPC server: the order of commands. *)

\* Frames read off the wire so far.
Taken == sent - Len(wire)

\* The wire holds the frames that follow, in order.  What was deferred is newer
\* than anything the main loop has taken, the newest in front, so the back of
\* the vector is always the next command.
OrderInv ==
  /\ Len(wire) <= sent
  /\ \A k \in DOMAIN wire : wire[k].n = Taken + k
  /\ \A k \in DOMAIN deferred : deferred[k].n <= Taken
  /\ \A j, k \in DOMAIN deferred : j < k => deferred[k].n < deferred[j].n
  /\ \A k \in DOMAIN handled : k <= handled[k] /\ handled[k] <= Taken
  /\ \A j, k \in DOMAIN handled : j < k => handled[j] < handled[k]
  /\ \A j \in DOMAIN handled, k \in DOMAIN deferred : handled[j] < deferred[k].n

LEMMA OrderInit == Init => OrderInv
  BY DEF Init, OrderInv, Taken

\* The main loop takes a command that is newer than all it has taken before.
LEMMA Handles ==
  ASSUME TypeOK, OrderInv, NEW n \in 1..MaxFrames,
         \A k \in DOMAIN handled : handled[k] < n
  PROVE  /\ Append(handled, n) \in Seq(1..MaxFrames)
         /\ \A k \in DOMAIN Append(handled, n) : k <= Append(handled, n)[k]
         /\ \A j, k \in DOMAIN Append(handled, n) :
              j < k => Append(handled, n)[j] < Append(handled, n)[k]
         /\ \A k \in DOMAIN Append(handled, n) :
              Append(handled, n)[k] = n \/ \E j \in DOMAIN handled :
                                             Append(handled, n)[k] = handled[j]
  <1> DEFINE h == Append(handled, n)  z == Len(handled)
  <1>0. handled \in Seq(1..MaxFrames)
    BY DEF TypeOK
  <1>1. /\ h \in Seq(1..MaxFrames) /\ DOMAIN h = 1..(z + 1)
        /\ DOMAIN handled = 1..z /\ z \in Nat /\ h[z + 1] = n
        /\ \A k \in 1..z : h[k] = handled[k]
    BY <1>0
  <1>2. z + 1 <= n
    <2>1. CASE z = 0
      BY <2>1
    <2>2. CASE z # 0
      <3>1. z \in DOMAIN handled /\ handled[z] \in 1..MaxFrames
        <4>1. \A k \in DOMAIN handled : handled[k] \in 1..MaxFrames
          BY <1>0, Elements
        <4>2. z \in DOMAIN handled
          BY <1>1, <2>2
        <4> QED BY <4>1, <4>2
      <3> HIDE DEF z
      <3>2. z <= handled[z] /\ handled[z] < n
        BY <3>1 DEF OrderInv
      <3>3. n \in Nat /\ handled[z] \in Nat
        BY <3>1, RpcAssumption
      <3> QED BY <1>1, <3>2, <3>3
    <2> QED BY <2>1, <2>2
  <1> HIDE DEF h, z
  <1>3. \A k \in DOMAIN h : k <= h[k]
    BY <1>1, <1>2 DEF OrderInv
  <1>4. \A j, k \in DOMAIN h : j < k => h[j] < h[k]
    BY <1>1 DEF OrderInv
  <1>5. \A k \in DOMAIN h : h[k] = n \/ \E j \in DOMAIN handled : h[k] = handled[j]
    BY <1>1
  <1> QED BY <1>1, <1>3, <1>4, <1>5 DEF h

\* One step of the invariant, from what becomes of its variables.
LEMMA OrderKeeps ==
  ASSUME Len(wire') <= sent',
         \A k \in DOMAIN wire' : wire'[k].n = Taken' + k,
         \A k \in DOMAIN deferred' : deferred'[k].n <= Taken',
         \A j, k \in DOMAIN deferred' : j < k => deferred'[k].n < deferred'[j].n,
         \A k \in DOMAIN handled' : k <= handled'[k] /\ handled'[k] <= Taken',
         \A j, k \in DOMAIN handled' : j < k => handled'[j] < handled'[k],
         \A j \in DOMAIN handled', k \in DOMAIN deferred' :
           handled'[j] < deferred'[k].n
  PROVE  OrderInv'
  BY DEF OrderInv

\* The frame at the head of the wire is read: it is the next in order.
LEMMA ReadsHead ==
  ASSUME TypeOK, OrderInv, wire # <<>>, wire' = Tail(wire), sent' = sent
  PROVE  /\ Len(wire') <= sent' /\ Taken' = Taken + 1
         /\ Head(wire).n = Taken + 1 /\ Head(wire) \in Frame
         /\ \A k \in DOMAIN wire' : wire'[k].n = Taken' + k
  <1>0. wire \in Seq(Frame) /\ sent \in Nat
    BY RpcAssumption DEF TypeOK
  <1>1. /\ DOMAIN wire = 1..Len(wire) /\ DOMAIN wire' = 1..(Len(wire) - 1)
        /\ Len(wire') = Len(wire) - 1 /\ Len(wire) \in Nat \ {0}
        /\ Head(wire) = wire[1] /\ Head(wire) \in Frame
        /\ \A k \in 1..(Len(wire) - 1) : wire'[k] = wire[k + 1]
    BY <1>0
  <1>t. Taken \in Nat
    BY <1>0, <1>1 DEF OrderInv, Taken
  <1>2. Taken' = Taken + 1 /\ Len(wire') <= sent'
    BY <1>0, <1>1 DEF Taken, OrderInv
  <1>3. Head(wire).n = Taken + 1
    BY <1>1 DEF OrderInv
  <1>4. ASSUME NEW k \in DOMAIN wire' PROVE wire'[k].n = Taken' + k
    <2>1. k + 1 \in DOMAIN wire /\ wire'[k] = wire[k + 1]
      BY <1>1
    <2> QED BY <1>t, <1>1, <1>2, <2>1 DEF OrderInv
  <1> QED BY <1>1, <1>2, <1>3, <1>4

LEMMA OrderStep == TypeOK /\ OrderInv /\ [Next]_vars => OrderInv'
  <1> SUFFICES ASSUME TypeOK, OrderInv, [Next]_vars PROVE OrderInv'
    OBVIOUS
  <1>0. /\ wire \in Seq(Frame) /\ deferred \in Seq(Frame) /\ sent \in Nat
        /\ handled \in Seq(1..MaxFrames) /\ MaxFrames \in Nat
        /\ \A k \in DOMAIN handled : handled[k] \in Nat
        /\ \A k \in DOMAIN deferred : deferred[k].n \in Nat
    <2>1. /\ wire \in Seq(Frame) /\ deferred \in Seq(Frame) /\ sent \in Nat
          /\ handled \in Seq(1..MaxFrames) /\ MaxFrames \in Nat
      BY RpcAssumption DEF TypeOK
    <2>2. \A k \in DOMAIN handled : handled[k] \in 1..MaxFrames
      BY <2>1, Elements
    <2>3. \A k \in DOMAIN deferred : deferred[k] \in Frame
      BY <2>1, Elements
    <2> QED BY <2>1, <2>2, <2>3 DEF Frame
  <1>t. Len(wire) \in Nat /\ Taken \in Nat
    BY <1>0 DEF OrderInv, Taken
  \* Steps that neither send, read nor take a command.
  <1>1. CASE UNCHANGED <<sent, wire, deferred, handled>>
    BY <1>1 DEF OrderInv, Taken
  <1>2. ASSUME NEW kind \in Kinds, ClientSends(kind) PROVE OrderInv'
    <2> DEFINE f == [n |-> sent + 1, kind |-> kind]
    <2>1. /\ sent' = sent + 1 /\ wire' = Append(wire, f)
          /\ deferred' = deferred /\ handled' = handled
      BY <1>2 DEF ClientSends
    <2>2. Taken' = Taken /\ Len(wire') = Len(wire) + 1
      BY <1>0, <2>1 DEF Taken
    <2>3. \A k \in DOMAIN wire' : wire'[k].n = Taken' + k
      <3>1. /\ DOMAIN wire' = 1..(Len(wire) + 1) /\ wire'[Len(wire) + 1] = f
            /\ \A k \in 1..Len(wire) : k \in DOMAIN wire /\ wire'[k] = wire[k]
        BY <1>0, <2>1
      <3>2. f.n = Taken + (Len(wire) + 1)
        BY <1>0 DEF Taken
      <3> HIDE DEF f
      <3> QED BY <1>0, <2>2, <3>1, <3>2 DEF OrderInv
    <2> HIDE DEF f
    <2> QED BY <1>0, <2>1, <2>2, <2>3, OrderKeeps DEF OrderInv
  <1>3. ASSUME wire # <<>>, wire' = Tail(wire), sent' = sent
        PROVE  /\ Len(wire') <= sent' /\ Taken' = Taken + 1
               /\ Head(wire).n = Taken + 1 /\ Head(wire) \in Frame
               /\ \A k \in DOMAIN wire' : wire'[k].n = Taken' + k
    BY <1>3, ReadsHead
  <1>4. CASE TakeDeferred
    <2>1. /\ deferred # <<>> /\ deferred' = Front(deferred) /\ wire' = wire
          /\ sent' = sent /\ handled' = Append(handled, Last(deferred).n)
      BY <1>4 DEF TakeDeferred, Dispatch
    <2> DEFINE n == Last(deferred).n  z == Len(deferred)
    <2>2. /\ z \in Nat \ {0} /\ DOMAIN deferred = 1..z /\ n = deferred[z].n
          /\ DOMAIN deferred' = 1..(z - 1)
          /\ \A k \in 1..(z - 1) : deferred'[k] = deferred[k]
          /\ n \in 1..MaxFrames
      <3>1. /\ Last(deferred) \in Frame /\ Len(deferred) \in Nat \ {0}
            /\ Front(deferred) \in Seq(Frame)
            /\ Len(Front(deferred)) = Len(deferred) - 1
            /\ \A k \in 1..(Len(deferred) - 1) : Front(deferred)[k] = deferred[k]
        BY <1>0, <2>1, FrontParts
      <3>2. n = deferred[z].n /\ n \in 1..MaxFrames
        BY <3>1 DEF Last, Frame
      <3>3. DOMAIN deferred = 1..z /\ DOMAIN Front(deferred) = 1..(z - 1)
        BY <1>0, <3>1, Elements
      <3> QED BY <2>1, <3>1, <3>2, <3>3
    <2> HIDE DEF n, z
    <2>3. z \in DOMAIN deferred /\ n <= Taken
      BY <2>2 DEF OrderInv
    <2>4. \A k \in DOMAIN handled : handled[k] < n
      BY <2>2, <2>3 DEF OrderInv
    <2>5. handled' = Append(handled, n)
      BY <2>1 DEF n
    <2>6. /\ \A k \in DOMAIN handled' : k <= handled'[k]
          /\ \A j, k \in DOMAIN handled' : j < k => handled'[j] < handled'[k]
          /\ \A k \in DOMAIN handled' :
               handled'[k] = n \/ \E j \in DOMAIN handled : handled'[k] = handled[j]
      BY <2>2, <2>4, <2>5, Handles
    <2>7. Taken' = Taken
      BY <2>1 DEF Taken
    <2>8. \A k \in DOMAIN handled' : handled'[k] <= Taken'
      BY <2>3, <2>6, <2>7 DEF OrderInv
    <2>9. \A k \in DOMAIN deferred' : n < deferred'[k].n
      BY <2>2, <2>3 DEF OrderInv
    <2>10. \A j \in DOMAIN handled', k \in DOMAIN deferred' :
             handled'[j] < deferred'[k].n
      BY <2>2, <2>6, <2>9 DEF OrderInv
    <2>11. /\ \A k \in DOMAIN deferred' : deferred'[k].n <= Taken'
           /\ \A j, k \in DOMAIN deferred' : j < k => deferred'[k].n < deferred'[j].n
      BY <2>2, <2>7 DEF OrderInv
    <2>12. Len(wire') <= sent' /\ \A k \in DOMAIN wire' : wire'[k].n = Taken' + k
      BY <2>1, <2>7 DEF OrderInv
    <2> QED BY <2>6, <2>8, <2>10, <2>11, <2>12, OrderKeeps
  <1>5. CASE TakeFrame
    <2>1. /\ deferred = <<>> /\ deferred' = deferred /\ wire # <<>>
          /\ wire' = Tail(wire) /\ sent' = sent
          /\ handled' = Append(handled, Head(wire).n)
      BY <1>5 DEF TakeFrame, Dispatch
    <2> DEFINE n == Head(wire).n
    <2>2. /\ Len(wire') <= sent' /\ Taken' = Taken + 1 /\ n = Taken + 1
          /\ n \in 1..MaxFrames
          /\ \A k \in DOMAIN wire' : wire'[k].n = Taken' + k
      BY <1>3, <2>1 DEF Frame
    <2>3. \A k \in DOMAIN handled : handled[k] < n
      BY <1>0, <1>t, <2>2 DEF OrderInv
    <2> HIDE DEF n
    <2>4. handled' = Append(handled, n)
      BY <2>1 DEF n
    <2>5. /\ \A k \in DOMAIN handled' : k <= handled'[k]
          /\ \A j, k \in DOMAIN handled' : j < k => handled'[j] < handled'[k]
          /\ \A k \in DOMAIN handled' :
               handled'[k] = n \/ \E j \in DOMAIN handled : handled'[k] = handled[j]
      BY <2>2, <2>3, <2>4, Handles
    <2>6. \A k \in DOMAIN handled' : handled'[k] <= Taken'
      <3>1. n = Taken' /\ n \in Int /\ \A j \in DOMAIN handled : handled[j] \in Int
        BY <1>0, <2>2
      <3>2. \A j \in DOMAIN handled : handled[j] <= n
        BY <2>3, <3>1
      <3> QED BY <2>5, <3>1, <3>2
    <2> QED BY <2>1, <2>2, <2>5, <2>6, OrderKeeps
  <1>6. CASE ReadInline
    <2>1. /\ deferred' = deferred /\ wire # <<>> /\ wire' = Tail(wire)
          /\ sent' = sent /\ handled' = handled
      BY <1>6 DEF ReadInline
    <2>2. /\ \A k \in DOMAIN deferred : deferred[k].n <= Taken + 1
          /\ \A k \in DOMAIN handled : handled[k] <= Taken + 1
      BY <1>0, <1>t DEF OrderInv
    <2> QED BY <1>3, <2>1, <2>2, OrderKeeps DEF OrderInv
  <1>7. CASE ReadDeferred
    <2> DEFINE f == Head(wire)  z == Len(deferred)
    <2>1. /\ deferred' = <<f>> \o deferred /\ wire # <<>> /\ wire' = Tail(wire)
          /\ sent' = sent /\ handled' = handled
      BY <1>7 DEF ReadDeferred
    <2>2. /\ Len(wire') <= sent' /\ Taken' = Taken + 1 /\ f.n = Taken + 1
          /\ f \in Frame
          /\ \A k \in DOMAIN wire' : wire'[k].n = Taken' + k
      BY <1>3, <2>1
    <2> HIDE DEF f
    <2>3. /\ DOMAIN deferred' = 1..(z + 1) /\ DOMAIN deferred = 1..z /\ z \in Nat
          /\ deferred'[1] = f
          /\ \A k \in 2..(z + 1) : k - 1 \in 1..z /\ deferred'[k] = deferred[k - 1]
      BY <1>0, <2>1, <2>2
    <2> HIDE DEF z
    <2>4. \A k \in DOMAIN deferred' : k = 1 \/ k \in 2..(z + 1)
      BY <2>3
    <2>5. ASSUME NEW k \in DOMAIN deferred' PROVE deferred'[k].n <= Taken'
      <3>1. CASE k = 1
        BY <1>t, <2>2, <2>3, <3>1
      <3>2. CASE k \in 2..(z + 1)
        <4>1. k - 1 \in DOMAIN deferred /\ deferred'[k] = deferred[k - 1]
          BY <2>3, <3>2
        <4>2. deferred[k - 1].n <= Taken /\ deferred[k - 1].n \in Nat
          BY <1>0, <4>1 DEF OrderInv
        <4> QED BY <1>t, <2>2, <4>1, <4>2
      <3> QED BY <2>4, <3>1, <3>2
    <2>6. ASSUME NEW j \in DOMAIN deferred', NEW k \in DOMAIN deferred', j < k
          PROVE  deferred'[k].n < deferred'[j].n
      <3>1. k - 1 \in DOMAIN deferred /\ deferred'[k] = deferred[k - 1]
        BY <2>3, <2>6
      <3>2. CASE j = 1
        BY <1>0, <1>t, <2>2, <2>3, <3>1, <3>2 DEF OrderInv
      <3>3. CASE j \in 2..(z + 1)
        <4>1. /\ j - 1 \in DOMAIN deferred /\ deferred'[j] = deferred[j - 1]
              /\ j - 1 < k - 1
          BY <2>3, <2>6, <3>3
        <4> QED BY <3>1, <4>1 DEF OrderInv
      <3> QED BY <2>4, <3>2, <3>3
    <2>7. \A k \in DOMAIN handled' : k <= handled'[k] /\ handled'[k] <= Taken'
      BY <1>0, <1>t, <2>1, <2>2 DEF OrderInv
    <2>8. \A j \in DOMAIN handled', k \in DOMAIN deferred' :
            handled'[j] < deferred'[k].n
      <3> SUFFICES ASSUME NEW j \in DOMAIN handled, NEW k \in DOMAIN deferred'
                   PROVE  handled[j] < deferred'[k].n
        BY <2>1
      <3>1. CASE k = 1
        <4>1. handled[j] <= Taken /\ handled[j] \in Nat
          BY <1>0 DEF OrderInv
        <4>2. deferred'[k].n = Taken + 1
          BY <2>2, <2>3, <3>1
        <4> QED BY <1>t, <4>1, <4>2
      <3>2. CASE k \in 2..(z + 1)
        <4>1. k - 1 \in DOMAIN deferred /\ deferred'[k] = deferred[k - 1]
          BY <2>3, <3>2
        <4> QED BY <4>1 DEF OrderInv
      <3> QED BY <2>4, <3>1, <3>2
    <2>9. \A j, k \in DOMAIN handled' : j < k => handled'[j] < handled'[k]
      BY <2>1 DEF OrderInv
    <2> QED BY <2>2, <2>5, <2>6, <2>7, <2>8, <2>9, OrderKeeps
  <1>8. CASE Closes \/ ReadEnd \/ StreamEnds \/ Exit \/ Writing
    BY <1>1, <1>8 DEF Closes, ClientEnds, ReadEnd, StreamEnds, Exit, Writing,
                      WriteOne, WriterDone, client
  <1>9. CASE PromptEnds \/ BashEnds \/ BashAborted
    BY <1>1, <1>9 DEF PromptEnds, BashEnds, BashAborted, Complete, client
  <1>10. CASE UNCHANGED vars
    BY <1>1, <1>10 DEF vars, client
  <1> QED
    BY <1>2, <1>4, <1>5, <1>6, <1>7, <1>8, <1>9, <1>10
       DEF Next, Client, Race, Main

----------------------------------------------------------------------------
(* Types. *)

LEMMA TypeInit == Init => TypeOK
  <1> SUFFICES ASSUME Init PROVE TypeOK
    OBVIOUS
  <1>1. sent \in 0..MaxFrames /\ Len(handled) <= sent
    BY RpcAssumption DEF Init
  <1>2. /\ wire \in Seq(Frame) /\ deferred \in Seq(Frame)
        /\ handled \in Seq(1..MaxFrames) /\ out \in Seq(1..MaxFrames)
        /\ written \in Seq(1..MaxFrames)
    BY DEF Init
  <1>3. busy \in Frame \union {None} /\ {racing, ioFatal, bashCancelled} \subseteq BOOLEAN
    BY DEF Init
  <1> QED BY <1>1, <1>2, <1>3 DEF Init, TypeOK

LEMMA BusyFrame ==
  TypeOK /\ (racing \/ busy.kind \in {"prompt", "bash"}) =>
    busy \in Frame /\ busy # None
  BY DEF TypeOK, None, Frame

\* tx.send: a response more, unless the writer is gone.
LEMMA Answers ==
  ASSUME TypeOK, NEW n \in 1..MaxFrames, Answer(n)
  PROVE  /\ out' \in Seq(1..MaxFrames) /\ written' = written /\ writer' = writer
         /\ writer = "failed" => Responses' = Responses
         /\ writer # "failed" => Responses' = Append(Responses, n)
  <1>1. out \in Seq(1..MaxFrames) /\ written \in Seq(1..MaxFrames)
    BY DEF TypeOK
  <1>2. written \o Append(out, n) = Append(written \o out, n)
    BY <1>1
  <1>3. /\ written' = written /\ writer' = writer
        /\ writer = "failed" => out' = out
        /\ writer # "failed" => out' = Append(out, n)
    BY DEF Answer
  <1>4. out' \in Seq(1..MaxFrames)
    <2>1. Append(out, n) \in Seq(1..MaxFrames)
      BY <1>1
    <2> QED BY <1>1, <1>3, <2>1
  <1>5. writer = "failed" => Responses' = Responses
    BY <1>3 DEF Responses
  <1>6. writer # "failed" => Responses' = Append(Responses, n)
    BY <1>2, <1>3 DEF Responses
  <1> QED BY <1>3, <1>4, <1>5, <1>6

LEMMA LengthBound ==
  ASSUME NEW h \in Seq(1..MaxFrames), MaxFrames \in Nat, NEW t \in Int,
         t >= 0, \A k \in DOMAIN h : k <= h[k] /\ h[k] <= t
  PROVE  Len(h) <= t
  <1> DEFINE z == Len(h)
  <1>1. CASE z = 0
    BY <1>1
  <1>2. CASE z # 0
    <2>1. \A k \in DOMAIN h : h[k] \in 1..MaxFrames
      BY Elements
    <2>2. z \in DOMAIN h /\ z \in Nat
      BY <1>2
    <2> HIDE DEF z
    <2>3. z <= h[z] /\ h[z] <= t /\ h[z] \in Nat
      BY <2>1, <2>2
    <2> QED BY <2>2, <2>3 DEF z
  <1> QED BY <1>1, <1>2

LEMMA TypeStep == TypeOK /\ OrderInv /\ OrderInv' /\ [Next]_vars => TypeOK'
  <1> SUFFICES ASSUME TypeOK, OrderInv', [Next]_vars PROVE TypeOK'
    OBVIOUS
  <1>0. /\ wire \in Seq(Frame) /\ deferred \in Seq(Frame) /\ sent \in 0..MaxFrames
        /\ handled \in Seq(1..MaxFrames) /\ MaxFrames \in Nat /\ sent \in Nat
        /\ out \in Seq(1..MaxFrames) /\ written \in Seq(1..MaxFrames)
        /\ \A f \in Frame : f.n \in 1..MaxFrames /\ f.kind \in Kinds
    BY RpcAssumption DEF TypeOK, Frame
  \* The types that need an argument; the rest follow the definitions.
  <1>1. ASSUME sent' \in 0..MaxFrames, wire' \in Seq(Frame),
               deferred' \in Seq(Frame), handled' \in Seq(1..MaxFrames),
               out' \in Seq(1..MaxFrames), written' \in Seq(1..MaxFrames),
               input' \in {"open", "eof", "io"}, busy' \in Frame \union {None},
               {racing', ioFatal', bashCancelled'} \subseteq BOOLEAN,
               racing' => busy'.kind \in {"prompt", "bash"},
               senders' \in {senders, {}}, writer' \in {"run", "failed", "done"},
               exit' \in {exit, "closing", "ok", "err"}
        PROVE  TypeOK'
    <2>1. /\ Len(wire') \in Nat /\ Taken' <= sent' /\ Taken' \in Int
          /\ Taken' >= 0
      BY <1>0, <1>1 DEF Taken, OrderInv
    <2>2. Len(handled') <= Taken'
      BY <1>0, <1>1, <2>1, LengthBound DEF OrderInv
    <2>3. Len(handled') <= sent'
      BY <1>0, <1>1, <2>1, <2>2
    <2> QED BY <1>1, <2>3 DEF TypeOK
  <1>2. ASSUME NEW kind \in Kinds, ClientSends(kind) PROVE TypeOK'
    <2>1. [n |-> sent + 1, kind |-> kind] \in Frame /\ sent + 1 \in 0..MaxFrames
      BY <1>0, <1>2 DEF Frame, ClientSends
    <2>2. wire' \in Seq(Frame)
      BY <1>0, <1>2, <2>1 DEF ClientSends
    <2> QED BY <1>1, <1>2, <2>1, <2>2
            DEF ClientSends, outbound, ending, TypeOK
  <1>3. CASE Closes
    BY <1>3 DEF Closes, ClientEnds, outbound, ending, TypeOK
  <1>4. CASE WriteOne
    <2>1. /\ Tail(out) \in Seq(1..MaxFrames)
          /\ Append(written, Head(out)) \in Seq(1..MaxFrames)
      BY <1>0, <1>4 DEF WriteOne
    <2> QED BY <1>1, <1>4, <2>1 DEF WriteOne, client, ending, TypeOK
  <1>5. CASE WriterDone
    BY <1>5 DEF WriterDone, client, ending, TypeOK
  <1>6. ASSUME NEW f \in Frame, Dispatch(f), wire' \in Seq(Frame),
               deferred' \in Seq(Frame)
        PROVE  TypeOK'
    <2>1. handled' \in Seq(1..MaxFrames) /\ f.n \in 1..MaxFrames
      BY <1>0, <1>6 DEF Dispatch
    <2>2. CASE f.kind \in {"prompt", "bash"}
      BY <1>1, <1>6, <2>1, <2>2
         DEF Dispatch, Start, Stay, outbound, ending, TypeOK
    <2>3. CASE f.kind \notin {"prompt", "bash"}
      <3>1. /\ Answer(f.n) /\ LeaveIfGone /\ UNCHANGED <<busy, racing, bashCancelled>>
            /\ UNCHANGED <<sent, input, ioFatal>>
        BY <1>6, <2>3 DEF Dispatch, Handle
      <3>2. /\ out' \in Seq(1..MaxFrames) /\ written' = written /\ writer' = writer
        BY <2>1, <3>1, Answers
      <3> QED BY <1>1, <1>6, <2>1, <3>1, <3>2
              DEF LeaveIfGone, Leave, Stay, TypeOK
    <2> QED BY <2>2, <2>3
  <1>7. CASE TakeDeferred
    <2>1. /\ deferred # <<>> /\ deferred' = Front(deferred) /\ wire' = wire
          /\ Dispatch(Last(deferred))
      BY <1>7 DEF TakeDeferred
    <2>2. Last(deferred) \in Frame /\ deferred' \in Seq(Frame)
      BY <1>0, <2>1, FrontParts
    <2> QED BY <1>0, <1>6, <2>1, <2>2
  <1>8. CASE TakeFrame
    <2>1. /\ wire # <<>> /\ wire' = Tail(wire) /\ deferred' = deferred
          /\ Dispatch(Head(wire))
      BY <1>8 DEF TakeFrame
    <2>2. Head(wire) \in Frame /\ wire' \in Seq(Frame)
      BY <1>0, <2>1
    <2> QED BY <1>0, <1>6, <2>1, <2>2
  <1>9. CASE StreamEnds \/ Exit
    BY <1>1, <1>9 DEF StreamEnds, Exit, Leave, client, outbound, TypeOK
  <1>10. CASE ReadInline
    <2>1. /\ wire # <<>> /\ wire' = Tail(wire) /\ Answer(Head(wire).n)
          /\ racing' \in BOOLEAN /\ bashCancelled' \in BOOLEAN /\ racing
          /\ UNCHANGED <<sent, input, deferred, busy, handled, ending>>
      BY <1>10 DEF ReadInline, TypeOK
    <2>2. Head(wire).n \in 1..MaxFrames /\ wire' \in Seq(Frame)
      BY <1>0, <2>1
    <2>3. out' \in Seq(1..MaxFrames) /\ written' = written /\ writer' = writer
      BY <2>1, <2>2, Answers
    <2> QED BY <1>1, <2>1, <2>2, <2>3 DEF ending, TypeOK
  <1>11. CASE ReadDeferred
    <2>1. wire' \in Seq(Frame) /\ deferred' \in Seq(Frame)
      BY <1>0, <1>11 DEF ReadDeferred
    <2> QED BY <1>1, <1>11, <2>1 DEF ReadDeferred, outbound, ending, TypeOK
  <1>12. CASE ReadEnd
    BY <1>1, <1>12 DEF ReadEnd, client, outbound, TypeOK
  <1>13. CASE busy.kind \in {"prompt", "bash"} /\ Complete
    <2>1. busy.n \in 1..MaxFrames
      BY <1>0, <1>13, BusyFrame
    <2>2. out' \in Seq(1..MaxFrames) /\ written' = written /\ writer' = writer
      BY <1>13, <2>1, Answers DEF Complete, outbound, TypeOK
    <2> QED BY <1>1, <1>13, <2>2
            DEF Complete, LeaveIfGone, Leave, Stay, client, TypeOK, None
  <1>14. CASE UNCHANGED vars
    BY <1>1, <1>14 DEF vars, client, outbound, ending, TypeOK
  <1> QED
    BY <1>2, <1>3, <1>4, <1>5, <1>7, <1>8, <1>9, <1>10, <1>11, <1>12, <1>13,
       <1>14 DEF Next, Client, Race, Main, Writing, PromptEnds, BashEnds,
                 BashAborted

LEMMA OrderHolds == Spec => [](TypeOK /\ OrderInv)
  BY TypeInit, OrderInit, OrderStep, TypeStep, PTL DEF Spec

\* The dispatcher's state keeps its types, for any number of frames.
THEOREM RpcTypeCorrect == Spec => []TypeOK
  BY OrderHolds, PTL

\* The main loop takes commands in the order in which they came, however many
\* were deferred behind prompts and bashes that were themselves deferred.
THEOREM CommandsTakenInOrder == Spec => []CommandsInOrder
  <1>1. OrderInv => CommandsInOrder
    BY DEF OrderInv, CommandsInOrder
  <1> QED BY <1>1, OrderHolds, PTL

----------------------------------------------------------------------------
(* Each frame is answered once. *)

Answered == ToSet(Responses)
Waiting  == {deferred[k].n : k \in DOMAIN deferred}
Working  == IF busy = None THEN {} ELSE {busy.n}

\* A frame that was read is answered, deferred or in flight, never two of
\* these; and while the writer lives and the input did not break, none is
\* forgotten.
AccountInv ==
  /\ Distinct(Responses)
  /\ Answered \cap Waiting = {}
  /\ Answered \cap Working = {}
  /\ Waiting \cap Working = {}
  /\ UNION {Answered, Waiting, Working} \subseteq 1..Taken
  /\ writer # "failed" /\ ~ioFatal =>
       1..Taken \subseteq UNION {Answered, Waiting, Working}

\* How the server ends: it leaves the loop with nothing in flight, and with
\* nothing unread unless the writer or the input failed; then its senders are
\* gone, and a writer that was not failed is done when the channel is empty.
EndInv ==
  /\ ioFatal => input = "io"
  /\ senders = {} => exit # "run"
  /\ exit # "run" =>
       /\ busy = None
       /\ \/ writer = "failed" \/ ioFatal
          \/ wire = <<>> /\ deferred = <<>> /\ input # "open"
  /\ writer = "done" => senders = {} /\ out = <<>>
  /\ exit = "ok" => writer = "done" /\ ~ioFatal

LEMMA EndInit == Init => EndInv
  BY DEF Init, EndInv

LEMMA EndStep == TypeOK /\ EndInv /\ [Next]_vars => EndInv'
  <1> SUFFICES ASSUME TypeOK, EndInv, [Next]_vars PROVE EndInv'
    OBVIOUS
  <1> USE DEF EndInv
  <1>1. ASSUME NEW kind \in Kinds, ClientSends(kind) PROVE EndInv'
    BY <1>1 DEF ClientSends, outbound, ending
  <1>2. CASE Closes
    BY <1>2 DEF Closes, ClientEnds, outbound, ending
  <1>3. CASE WriteOne
    BY <1>3 DEF WriteOne, client, ending
  <1>4. CASE WriterDone
    BY <1>4 DEF WriterDone, client, ending
  <1>5. ASSUME NEW f, Ready, Dispatch(f) PROVE EndInv'
    BY <1>5 DEF Ready, Dispatch, Start, Stay, Handle, Answer, LeaveIfGone,
                Leave, outbound, ending
  <1>6. CASE TakeDeferred \/ TakeFrame
    BY <1>5, <1>6 DEF TakeDeferred, TakeFrame
  <1>7. CASE StreamEnds
    BY <1>7 DEF StreamEnds, Ready, Leave, client, outbound
  <1>8. CASE Exit
    BY <1>8 DEF Exit, client, outbound, TypeOK
  <1>9. CASE ReadInline
    BY <1>9 DEF ReadInline, Answer, ending
  <1>10. CASE ReadDeferred
    BY <1>10 DEF ReadDeferred, outbound, ending
  <1>11. CASE ReadEnd
    BY <1>11 DEF ReadEnd, client, outbound
  <1>12. CASE busy.kind \in {"prompt", "bash"} /\ Complete
    <2>1. busy # None
      BY <1>12, BusyFrame
    <2> QED BY <1>12, <2>1 DEF Complete, Answer, LeaveIfGone, Leave, Stay,
                               client, outbound
  <1>13. CASE UNCHANGED vars
    BY <1>13 DEF vars, client, outbound, ending
  <1> QED
    BY <1>1, <1>2, <1>3, <1>4, <1>6, <1>7, <1>8, <1>9, <1>10, <1>11, <1>12,
       <1>13 DEF Next, Client, Race, Main, Writing, PromptEnds, BashEnds,
                 BashAborted

LEMMA AccountInit == Init => AccountInv
  <1> SUFFICES ASSUME Init PROVE AccountInv
    OBVIOUS
  <1>0. /\ written = <<>> /\ out = <<>> /\ wire = <<>> /\ deferred = <<>>
        /\ sent = 0 /\ busy = None
    BY DEF Init
  <1>1. Responses = <<>> /\ Taken = 0
    <2>1. <<>> \o <<>> = <<>> /\ Len(<<>>) = 0
      OBVIOUS
    <2>2. Responses = <<>> \o <<>>
      BY <1>0 DEF Responses
    <2>3. sent = 0 /\ Len(wire) = 0
      BY <1>0, <2>1
    <2>4. Taken = 0
      BY <2>3 DEF Taken
    <2> QED BY <2>1, <2>2, <2>4
  <1>2. Answered = {} /\ Waiting = {} /\ Working = {}
    BY <1>0, <1>1 DEF Answered, Waiting, Working, ToSet
  <1> QED BY <1>1, <1>2 DEF AccountInv, Distinct

\* A step that answers at most n, from where the frame n comes.
LEMMA AccountAnswer ==
  ASSUME TypeOK, NEW n \in 1..MaxFrames, Answer(n), Distinct(Responses),
         n \notin Answered
  PROVE  /\ Distinct(Responses')
         /\ Answered' \subseteq Answered \cup {n} /\ Answered \subseteq Answered'
         /\ writer' # "failed" => Answered' = Answered \cup {n}
         /\ writer' = writer
  <1>1. Responses \in Seq(1..MaxFrames)
    BY DEF TypeOK, Responses
  <1>2. CASE writer = "failed"
    BY <1>2, Answers DEF Answered
  <1>3. CASE writer # "failed"
    <2>1. Responses' = Append(Responses, n)
      BY <1>3, Answers
    <2>2. /\ ToSet(Append(Responses, n)) = ToSet(Responses) \cup {n}
          /\ Distinct(Append(Responses, n))
      <3>1. n \notin ToSet(Responses)
        BY DEF Answered
      <3> DEFINE r == Responses
      <3>2. r \in Seq(1..MaxFrames) /\ n \in 1..MaxFrames /\ Distinct(r) /\ n \notin ToSet(r)
        BY <1>1, <3>1
      <3> HIDE DEF r
      <3>3. /\ ToSet(Append(r, n)) = ToSet(r) \cup {n}
            /\ Distinct(r) /\ n \notin ToSet(r) => Distinct(Append(r, n))
        BY <3>2, DistinctAppend, Zenon
      <3> QED BY <3>2, <3>3 DEF r
    <2> QED BY <2>1, <2>2, Answers DEF Answered
  <1> QED BY <1>2, <1>3

LEMMA AccountKeeps ==
  ASSUME Distinct(Responses'), Answered' \cap Waiting' = {},
         Answered' \cap Working' = {}, Waiting' \cap Working' = {},
         UNION {Answered', Waiting', Working'} \subseteq 1..Taken',
         writer' # "failed" /\ ~ioFatal' =>
           1..Taken' \subseteq UNION {Answered', Waiting', Working'}
  PROVE  AccountInv'
  BY DEF AccountInv

LEMMA AccountStep ==
  TypeOK /\ OrderInv /\ EndInv /\ EndInv' /\ AccountInv /\ [Next]_vars
    => AccountInv'
  <1> SUFFICES ASSUME TypeOK, OrderInv, EndInv, EndInv', AccountInv, [Next]_vars
               PROVE AccountInv'
    OBVIOUS
  <1>0. /\ wire \in Seq(Frame) /\ deferred \in Seq(Frame) /\ sent \in Nat
        /\ out \in Seq(1..MaxFrames) /\ written \in Seq(1..MaxFrames)
        /\ Len(wire) \in Nat /\ Taken \in Nat
        /\ \A k \in DOMAIN deferred : deferred[k] \in Frame
        /\ \A f \in Frame : f.n \in 1..MaxFrames /\ f.n \in Nat /\ f # None
    <2>1. /\ wire \in Seq(Frame) /\ deferred \in Seq(Frame) /\ sent \in Nat
          /\ out \in Seq(1..MaxFrames) /\ written \in Seq(1..MaxFrames)
      BY RpcAssumption DEF TypeOK
    <2>2. Len(wire) \in Nat /\ Len(wire) <= sent
      BY <2>1 DEF OrderInv
    <2>3. \A f \in Frame : f.n \in 1..MaxFrames /\ f.n \in Nat /\ f # None
      BY RpcAssumption DEF Frame, None
    <2> QED BY <2>1, <2>2, <2>3, Elements DEF Taken
  <1>a. /\ Distinct(Responses)
        /\ Answered \cap Waiting = {} /\ Answered \cap Working = {}
        /\ Waiting \cap Working = {}
        /\ UNION {Answered, Waiting, Working} \subseteq 1..Taken
        /\ writer # "failed" /\ ~ioFatal =>
             1..Taken \subseteq UNION {Answered, Waiting, Working}
    BY DEF AccountInv
  <1>n. 1..(Taken + 1) = (1..Taken) \cup {Taken + 1} /\ Taken + 1 \notin 1..Taken
    BY <1>0
  \* Steps that leave the frames where they are.
  <1>1. ASSUME Responses' = Responses, deferred' = deferred, busy' = busy,
               Taken' = Taken, writer' # "failed" => writer # "failed",
               ~ioFatal' => ~ioFatal
        PROVE  AccountInv'
    BY <1>1 DEF AccountInv, Answered, Waiting, Working
  <1>2. ASSUME NEW kind \in Kinds, ClientSends(kind) PROVE AccountInv'
    <2>1. Taken' = Taken
      BY <1>0, <1>2 DEF ClientSends, Taken
    <2> QED BY <1>1, <1>2, <2>1 DEF ClientSends, outbound, ending, Responses
  <1>3. CASE Closes
    BY <1>1, <1>3 DEF Closes, ClientEnds, outbound, ending, Responses, Taken
  <1>4. CASE WriteOne
    <2>1. /\ out # <<>> /\ out' = Tail(out) /\ Taken' = Taken
          /\ UNCHANGED <<deferred, busy, ioFatal>> /\ writer = "run"
      BY <1>4 DEF WriteOne, client, ending, Taken
    <2>2. /\ Distinct(written \o Tail(out))
          /\ ToSet(written \o Tail(out)) \subseteq ToSet(written \o out)
          /\ Append(written, Head(out)) \o Tail(out) = written \o out
      <3>1. Distinct(written \o out)
        BY <1>a, Zenon DEF Responses
      <3>2. \A s, t \in Seq(1..MaxFrames) : t # <<>> /\ Distinct(s \o t) =>
              /\ Distinct(s \o Tail(t))
              /\ ToSet(s \o Tail(t)) \subseteq ToSet(s \o t)
              /\ Append(s, Head(t)) \o Tail(t) = s \o t
        BY DistinctWithout
      <3> QED BY <1>0, <2>1, <3>1, <3>2, Zenon
    <2>3. CASE written' = Append(written, Head(out)) /\ writer' = writer
      BY <1>1, <2>1, <2>2, <2>3 DEF Responses
    <2>4. CASE writer' = "failed" /\ written' = written
      <3>1. /\ Distinct(Responses') /\ Answered' \subseteq Answered
            /\ Waiting' = Waiting /\ Working' = Working
        BY <2>1, <2>2, <2>4 DEF Responses, Answered, Waiting, Working
      <3> QED BY <1>a, <2>1, <2>4, <3>1, AccountKeeps
    <2> QED BY <1>4, <2>3, <2>4 DEF WriteOne
  <1>5. CASE WriterDone
    BY <1>1, <1>5 DEF WriterDone, client, ending, Responses, Taken
  <1>6. CASE StreamEnds \/ Exit \/ ReadEnd
    <2>1. ~ioFatal' => ~ioFatal
      BY <1>6 DEF StreamEnds, Exit, ReadEnd, EndInv
    <2> QED BY <1>1, <1>6, <2>1
            DEF StreamEnds, Exit, ReadEnd, client, outbound, Responses, Taken
  \* The main loop takes the frame f, which nobody has answered.
  <1>7. ASSUME NEW f \in Frame, Ready, Dispatch(f), f.n \notin Answered,
               f.n \notin Waiting', Answered \cap Waiting' = {},
               UNION {Answered, Waiting', {f.n}} \subseteq 1..Taken',
               writer # "failed" /\ ~ioFatal =>
                 1..Taken' \subseteq UNION {Answered, Waiting', {f.n}}
        PROVE  AccountInv'
    <2>1. busy = None /\ ioFatal' = ioFatal /\ f.n \in 1..MaxFrames /\ f # None
      BY <1>0, <1>7 DEF Ready, Dispatch
    <2>2. CASE f.kind \in {"prompt", "bash"}
      <3>1. busy' = f /\ UNCHANGED <<out, written, writer>>
        BY <1>7, <2>2 DEF Dispatch, Start, outbound
      <3>2. Working' = {f.n} /\ Responses' = Responses /\ Answered' = Answered
        BY <2>1, <3>1 DEF Working, Responses, Answered
      <3> QED BY <1>a, <1>7, <2>1, <3>1, <3>2, AccountKeeps
    <2>3. CASE f.kind \notin {"prompt", "bash"}
      <3>1. Answer(f.n) /\ busy' = busy
        BY <1>7, <2>3 DEF Dispatch, Handle
      <3>2. Working' = {}
        BY <2>1, <3>1 DEF Working
      <3>3. /\ Distinct(Responses') /\ Answered' \subseteq Answered \cup {f.n}
            /\ Answered \subseteq Answered'
            /\ writer' # "failed" => Answered' = Answered \cup {f.n}
            /\ writer' = writer
        BY <1>a, <1>7, <2>1, <3>1, AccountAnswer
      <3> QED BY <1>7, <2>1, <3>2, <3>3, AccountKeeps
    <2> QED BY <2>2, <2>3
  <1>8. CASE TakeDeferred
    <2> DEFINE f == Last(deferred)  z == Len(deferred)
    <2>1. /\ Ready /\ deferred # <<>> /\ deferred' = Front(deferred)
          /\ Dispatch(f) /\ wire' = wire /\ sent' = sent
      BY <1>8 DEF TakeDeferred, Dispatch
    <2>2. /\ f \in Frame /\ Front(deferred) \in Seq(Frame)
          /\ Len(Front(deferred)) = z - 1 /\ z \in Nat \ {0}
          /\ \A k \in 1..(z - 1) : Front(deferred)[k] = deferred[k]
      BY <1>0, <2>1, FrontParts
    <2>3. /\ DOMAIN deferred = 1..z /\ f = deferred[z]
          /\ DOMAIN deferred' = 1..(z - 1)
          /\ \A k \in 1..(z - 1) : deferred'[k] = deferred[k]
      <3>1. DOMAIN deferred = 1..z /\ DOMAIN Front(deferred) = 1..(z - 1)
        BY <1>0, <2>2, Elements
      <3>2. f = deferred[z]
        BY DEF Last
      <3> QED BY <2>1, <2>2, <3>1, <3>2
    <2> HIDE DEF f, z
    <2>4. 1..z = 1..(z - 1) \cup {z} /\ z \notin 1..(z - 1)
      BY <2>2
    <2>5. Waiting = Waiting' \cup {f.n}
      BY <2>3, <2>4 DEF Waiting
    <2>6. f.n \notin Waiting'
      <3> SUFFICES ASSUME NEW k \in 1..(z - 1) PROVE deferred[k].n # f.n
        BY <2>3 DEF Waiting
      <3>1. k \in DOMAIN deferred /\ z \in DOMAIN deferred /\ k < z
        BY <2>2, <2>3
      <3>2. deferred[z].n < deferred[k].n
        BY <3>1 DEF OrderInv
      <3>3. deferred[z].n \in Nat /\ deferred[k].n \in Nat
        BY <1>0, <3>1
      <3> QED BY <2>3, <3>2, <3>3
    <2>7. Taken' = Taken /\ Working = {}
      BY <2>1 DEF Taken, Working, Ready
    <2>8. f.n \notin Answered /\ Answered \cap Waiting' = {}
      BY <1>a, <2>5
    <2>9. /\ UNION {Answered, Waiting', {f.n}} \subseteq 1..Taken'
          /\ writer # "failed" /\ ~ioFatal =>
               1..Taken' \subseteq UNION {Answered, Waiting', {f.n}}
      BY <1>a, <2>5, <2>7
    <2> QED BY <1>7, <2>1, <2>2, <2>6, <2>8, <2>9
  <1>9. CASE TakeFrame
    <2> DEFINE f == Head(wire)
    <2>1. /\ Ready /\ deferred = <<>> /\ deferred' = <<>> /\ wire # <<>>
          /\ wire' = Tail(wire) /\ sent' = sent /\ Dispatch(f)
      BY <1>9 DEF TakeFrame, Dispatch
    <2>2. f \in Frame /\ f.n = Taken + 1 /\ Taken' = Taken + 1
      BY <2>1, ReadsHead
    <2> HIDE DEF f
    <2>3. Waiting = {} /\ Waiting' = {} /\ Working = {}
      BY <2>1 DEF Waiting, Working, Ready
    <2>4. f.n \notin Answered /\ f.n \notin Waiting'
      BY <1>a, <1>n, <2>2, <2>3
    <2>5. /\ UNION {Answered, Waiting', {f.n}} \subseteq 1..Taken'
          /\ writer # "failed" /\ ~ioFatal =>
               1..Taken' \subseteq UNION {Answered, Waiting', {f.n}}
      BY <1>a, <1>n, <2>2, <2>3
    <2> QED BY <1>7, <2>1, <2>2, <2>3, <2>4, <2>5
  <1>10. CASE ReadInline
    <2> DEFINE n == Head(wire).n
    <2>1. /\ Answer(n) /\ UNCHANGED <<deferred, busy, ioFatal>>
          /\ wire # <<>> /\ wire' = Tail(wire) /\ sent' = sent
      BY <1>10 DEF ReadInline, ending
    <2>2. n = Taken + 1 /\ n \in 1..MaxFrames /\ Taken' = Taken + 1
      BY <1>0, <2>1, ReadsHead
    <2> HIDE DEF n
    <2>3. n \notin Answered /\ n \notin Waiting /\ n \notin Working
      BY <1>a, <1>n, <2>2
    <2>4. /\ Distinct(Responses') /\ Answered' \subseteq Answered \cup {n}
          /\ Answered \subseteq Answered'
          /\ writer' # "failed" => Answered' = Answered \cup {n}
          /\ writer' = writer
      BY <1>a, <2>1, <2>2, <2>3, AccountAnswer
    <2>5. Waiting' = Waiting /\ Working' = Working
      BY <2>1 DEF Waiting, Working
    <2> QED BY <1>a, <1>n, <2>1, <2>2, <2>3, <2>4, <2>5, AccountKeeps
  <1>11. CASE ReadDeferred
    <2> DEFINE f == Head(wire)
    <2>1. /\ deferred' = <<f>> \o deferred /\ UNCHANGED <<busy, ioFatal, writer>>
          /\ wire # <<>> /\ wire' = Tail(wire) /\ sent' = sent
          /\ Responses' = Responses
      BY <1>11 DEF ReadDeferred, ending, outbound, Responses
    <2>2. f \in Frame /\ f.n = Taken + 1 /\ Taken' = Taken + 1
      BY <1>0, <2>1, ReadsHead
    <2> HIDE DEF f
    <2>3. Waiting' = Waiting \cup {f.n}
      <3> DEFINE d == <<f>> \o deferred  z == Len(deferred)
      <3>1. /\ DOMAIN deferred = 1..z /\ DOMAIN d = 1..(z + 1) /\ z \in Nat
            /\ d[1] = f /\ \A k \in 1..z : d[k + 1] = deferred[k]
        BY <1>0, <2>2
      <3> HIDE DEF d, z
      <3>2. \A k \in DOMAIN d : k = 1 \/ (k - 1 \in 1..z /\ k = (k - 1) + 1)
        BY <3>1
      <3>3. {d[k].n : k \in DOMAIN d} \subseteq Waiting \cup {f.n}
        BY <3>1, <3>2 DEF Waiting
      <3>4. Waiting \cup {f.n} \subseteq {d[k].n : k \in DOMAIN d}
        <4>1. 1 \in DOMAIN d /\ \A k \in 1..z : k + 1 \in DOMAIN d
          BY <3>1
        <4> QED BY <3>1, <4>1 DEF Waiting
      <3>5. deferred' = d
        BY <2>1 DEF d
      <3> QED BY <3>3, <3>4, <3>5 DEF Waiting
    <2>4. Answered' = Answered /\ Working' = Working
      BY <2>1 DEF Answered, Working
    <2> QED BY <1>a, <1>n, <2>1, <2>2, <2>3, <2>4, AccountKeeps
  <1>12. CASE busy.kind \in {"prompt", "bash"} /\ Complete
    <2>1. busy \in Frame /\ busy # None /\ busy.n \in 1..MaxFrames
      BY <1>0, <1>12, BusyFrame
    <2>2. /\ Working = {busy.n} /\ Working' = {} /\ Waiting' = Waiting
          /\ Taken' = Taken /\ ioFatal' = ioFatal
      BY <1>12, <2>1 DEF Complete, Working, Waiting, Taken, client
    <2>3. CASE ioFatal
      <3>1. Responses' = Responses /\ Answered' = Answered
        BY <1>12, <2>3 DEF Complete, outbound, Responses, Answered
      <3> QED BY <1>a, <2>2, <2>3, <3>1, AccountKeeps
    <2>4. CASE ~ioFatal
      <3>1. Answer(busy.n) /\ busy.n \notin Answered
        BY <1>12, <1>a, <2>2, <2>4 DEF Complete
      <3>2. /\ Distinct(Responses') /\ Answered' \subseteq Answered \cup {busy.n}
            /\ Answered \subseteq Answered'
            /\ writer' # "failed" => Answered' = Answered \cup {busy.n}
            /\ writer' = writer
        BY <1>a, <2>1, <3>1, AccountAnswer
      <3> QED BY <1>a, <2>2, <3>2, AccountKeeps
    <2> QED BY <2>3, <2>4
  <1>13. CASE UNCHANGED vars
    BY <1>1, <1>13 DEF vars, client, outbound, ending, Responses, Taken
  <1> QED
    BY <1>2, <1>3, <1>4, <1>5, <1>6, <1>8, <1>9, <1>10, <1>11, <1>12, <1>13
       DEF Next, Client, Race, Main, Writing, PromptEnds, BashEnds, BashAborted

LEMMA RpcHolds == Spec => [](TypeOK /\ OrderInv /\ EndInv /\ AccountInv)
  BY OrderHolds, EndInit, EndStep, AccountInit, AccountStep, PTL DEF Spec

\* No frame is answered twice, and a server that exits cleanly has written an
\* answer to every frame it was sent.
THEOREM EachAnsweredOnce == Spec => []AnsweredOnce
  <1>1. TypeOK /\ OrderInv /\ EndInv /\ AccountInv => AnsweredOnce
    <2> SUFFICES ASSUME TypeOK, OrderInv, EndInv, AccountInv PROVE AnsweredOnce
      OBVIOUS
    <2>1. /\ Responses \in Seq(1..MaxFrames) /\ Distinct(Responses)
          /\ written \in Seq(1..MaxFrames) /\ sent \in Nat
      BY RpcAssumption DEF TypeOK, Responses, AccountInv
    <2>2. Cardinality(ToSet(Responses)) = Len(Responses)
      BY <2>1, DistinctCardinality
    <2>3. ASSUME exit = "ok" PROVE ToSet(written) = 1..sent
      <3>1. /\ out = <<>> /\ wire = <<>> /\ deferred = <<>> /\ busy = None
            /\ writer # "failed" /\ ~ioFatal
        BY <2>3 DEF EndInv
      <3>2. Waiting = {} /\ Working = {} /\ Taken = sent
        BY <2>1, <3>1 DEF Waiting, Working, Taken
      <3>3. Responses = written
        BY <2>1, <3>1 DEF Responses
      <3>4. Answered = ToSet(Responses) /\ Answered = 1..Taken
        <4>1. UNION {Answered, Waiting, Working} = Answered
          BY <3>2
        <4>2. 1..Taken \subseteq Answered /\ Answered \subseteq 1..Taken
          BY <3>1, <4>1, Zenon DEF AccountInv
        <4> QED BY <4>2 DEF Answered
      <3> QED BY <3>2, <3>3, <3>4
    <2> QED BY <2>2, <2>3 DEF AnsweredOnce
  <1> QED BY <1>1, RpcHolds, PTL

----------------------------------------------------------------------------
(* The interactive driver. *)

submits  == slot1
runner   == slot2
send     == slot3
token    == slot4
events   == slot5
state    == slot6
keyboard == slot7
overlay  == slot8
done     == slot9
answer   == slot10
ended    == slot11
pressed  == slot12

USE DEF submits, runner, send, token, events, state, keyboard, overlay, done, answer,
        ended, pressed

EventKinds == {"update", "end", "endError", "latched", "toolStart", "toolEnd"}

\* What Emit adds: an event of each kind, of the turn in flight.
LEMMA Emitted ==
  ASSUME Driver!TypeOK, NEW kinds, kinds \in Seq(EventKinds), Driver!Emit(kinds)
  PROVE  /\ events' \in Seq(Driver!Event)
         /\ DOMAIN events' = 1..(Len(events) + Len(kinds))
         /\ \A i \in DOMAIN events : i \in DOMAIN events' /\ events'[i] = events[i]
         /\ \A k \in 1..Len(kinds) :
              /\ Len(events) + k \in DOMAIN events'
              /\ events'[Len(events) + k] = [kind |-> kinds[k], turn |-> runner.turn]
  <1> DEFINE new == [k \in DOMAIN kinds |-> [kind |-> kinds[k], turn |-> runner.turn]]
  <1>1. events \in Seq(Driver!Event) /\ runner.turn \in Nat
    BY DEF Driver!TypeOK, Driver!Runners
  <1>2. \A k \in DOMAIN kinds : kinds[k] \in EventKinds
    OBVIOUS
  <1>3. DOMAIN kinds = 1..Len(kinds) /\ Len(kinds) \in Nat
    OBVIOUS
  <1>4. \A k \in DOMAIN kinds : new[k] \in Driver!Event
    BY <1>1, <1>2 DEF Driver!Event, EventKinds
  <1>5. new \in Seq(Driver!Event) /\ Len(new) = Len(kinds)
    BY <1>3, <1>4
  <1>6. \A k \in 1..Len(kinds) : new[k] = [kind |-> kinds[k], turn |-> runner.turn]
    BY <1>3
  <1>7. events' = events \o new
    BY DEF Driver!Emit
  <1> HIDE DEF new
  <1>8. events' \in Seq(Driver!Event)
    BY <1>1, <1>5, <1>7
  <1>9. /\ Len(events \o new) = Len(events) + Len(new)
        /\ \A i \in 1..Len(events) : (events \o new)[i] = events[i]
        /\ \A k \in 1..Len(new) : (events \o new)[Len(events) + k] = new[k]
    BY <1>1, <1>5
  <1>10. /\ DOMAIN events' = 1..(Len(events) + Len(kinds)) /\ DOMAIN events = 1..Len(events)
         /\ Len(events) \in Nat
    BY <1>1, <1>5, <1>7, <1>8, <1>9
  <1>11. /\ \A i \in 1..Len(events) : i \in 1..(Len(events) + Len(kinds))
         /\ \A k \in 1..Len(kinds) : Len(events) + k \in 1..(Len(events) + Len(kinds))
    BY <1>3, <1>10
  <1> QED BY <1>5, <1>6, <1>7, <1>8, <1>9, <1>10, <1>11

LEMMA EmittedOne ==
  ASSUME Driver!TypeOK, NEW kind, kind \in EventKinds, Driver!Emit(<<kind>>)
  PROVE  \E z \in Nat :
           /\ z > 0 /\ DOMAIN events' = DOMAIN events \cup {z}
           /\ \A i \in DOMAIN events : i \in Nat /\ i < z /\ events'[i] = events[i]
           /\ events'[z] = [kind |-> kind, turn |-> runner.turn]
  <1>1. <<kind>> \in Seq(EventKinds) /\ Len(<<kind>>) = 1 /\ <<kind>>[1] = kind
    OBVIOUS
  <1>2. Len(events) \in Nat /\ DOMAIN events = 1..Len(events)
    BY DEF Driver!TypeOK
  <1>3. /\ DOMAIN events' = 1..(Len(events) + 1)
        /\ \A i \in DOMAIN events : events'[i] = events[i]
        /\ \A k \in 1..1 : events'[Len(events) + k] = [kind |-> <<kind>>[k], turn |-> runner.turn]
    BY <1>1, Emitted
  <1> DEFINE z == Len(events) + 1
  <1>4. /\ z \in Nat /\ z > 0 /\ 1..z = 1..Len(events) \cup {z}
        /\ \A i \in 1..Len(events) : i \in Nat /\ i < z
    BY <1>2
  <1>5. events'[z] = [kind |-> kind, turn |-> runner.turn]
    BY <1>1, <1>3
  <1> HIDE DEF z
  <1> QED BY <1>2, <1>3, <1>4, <1>5 DEF z

LEMMA EmittedTwo ==
  ASSUME Driver!TypeOK, Driver!Emit(<<"end", "toolStart">>)
  PROVE  \E z \in Nat :
           /\ z > 0 /\ DOMAIN events' = DOMAIN events \cup {z, z + 1}
           /\ \A i \in DOMAIN events : i \in Nat /\ i < z /\ events'[i] = events[i]
           /\ events'[z] = [kind |-> "end", turn |-> runner.turn]
           /\ events'[z + 1] = [kind |-> "toolStart", turn |-> runner.turn]
  <1>1. /\ <<"end", "toolStart">> \in Seq(EventKinds) /\ Len(<<"end", "toolStart">>) = 2
        /\ <<"end", "toolStart">>[1] = "end" /\ <<"end", "toolStart">>[2] = "toolStart"
    BY DEF EventKinds
  <1>2. Len(events) \in Nat /\ DOMAIN events = 1..Len(events)
    BY DEF Driver!TypeOK
  <1>3. /\ DOMAIN events' = 1..(Len(events) + 2)
        /\ \A i \in DOMAIN events : events'[i] = events[i]
        /\ \A k \in 1..2 :
             events'[Len(events) + k] = [kind |-> <<"end", "toolStart">>[k], turn |-> runner.turn]
    BY <1>1, Emitted
  <1> DEFINE z == Len(events) + 1
  <1>4. /\ z \in Nat /\ z > 0 /\ 1..(Len(events) + 2) = 1..Len(events) \cup {z, z + 1}
        /\ \A i \in 1..Len(events) : i \in Nat /\ i < z
        /\ z + 1 = Len(events) + 2
    BY <1>2
  <1>5. /\ events'[z] = [kind |-> "end", turn |-> runner.turn]
        /\ events'[z + 1] = [kind |-> "toolStart", turn |-> runner.turn]
    BY <1>1, <1>3, <1>4
  <1> HIDE DEF z
  <1> QED BY <1>2, <1>3, <1>4, <1>5

\* Where the runner goes from the submits, and to its dialogs and back.
LEMMA Takes ==
  ASSUME Driver!TypeOK, Driver!Take
  PROVE  /\ runner.at = "recv" /\ Head(submits) \in Driver!Work
         /\ runner' = [runner EXCEPT !.at = Head(submits), !.work = Head(submits)]
  BY DEF Driver!TypeOK, Driver!Take, Driver!At

LEMMA OpensFirst ==
  ASSUME Driver!OpenFirst
  PROVE  runner.at \in {"model", "login", "settings"}
  BY DEF Driver!OpenFirst, Driver!First

LEMMA DialogMoves ==
  ASSUME Driver!TypeOK,
         \/ Driver!OpenFirst \/ Driver!TakeAnswer
         \/ Driver!DialogDropped \/ Driver!LoginReturns
  PROVE  runner'.turn = runner.turn /\ runner'.work = runner.work
  <1>1. runner \in Driver!Runners
    BY DEF Driver!TypeOK
  <1>2. CASE Driver!OpenFirst
    BY <1>1, <1>2 DEF Driver!OpenFirst, Driver!Opens, Driver!Runners
  <1>3. CASE Driver!TakeAnswer
    BY <1>1, <1>3 DEF Driver!TakeAnswer, Driver!Opens, Driver!Closed, Driver!Runners
  <1>4. CASE Driver!DialogDropped
    BY <1>1, <1>4 DEF Driver!DialogDropped, Driver!Opens, Driver!Closed, Driver!Runners
  <1>5. CASE Driver!LoginReturns
    BY <1>1, <1>5 DEF Driver!LoginReturns, Driver!Closed, Driver!Runners
  <1> QED BY <1>2, <1>3, <1>4, <1>5

\* What Apply leaves: the first event has gone, or has its latch set.
LEMMA Applied ==
  ASSUME Driver!TypeOK, Driver!Apply
  PROVE  /\ events' \in Seq(Driver!Event) /\ 1 \in DOMAIN events
         /\ events[1].kind = "endError" =>
              /\ DOMAIN events' = DOMAIN events
              /\ events'[1] = [events[1] EXCEPT !.kind = "latched"]
              /\ \A i \in DOMAIN events : i # 1 => events'[i] = events[i]
         /\ events[1].kind # "endError" =>
              /\ \A i \in DOMAIN events : i # 1 => i - 1 \in DOMAIN events'
              /\ \A i \in DOMAIN events' : i + 1 \in DOMAIN events /\ events'[i] = events[i + 1]
  <1> DEFINE head == events[1]  tail == Tail(events)
             latched == [head EXCEPT !.kind = "latched"]  n == Len(events) - 1
  <1>1. events \in Seq(Driver!Event) /\ events # <<>>
    BY DEF Driver!TypeOK, Driver!Apply
  <1>2. /\ tail \in Seq(Driver!Event) /\ head \in Driver!Event /\ Head(events) = head
        /\ Len(tail) = n /\ n \in Nat /\ Len(events) = n + 1
        /\ \A k \in 1..n : tail[k] = events[k + 1]
    BY <1>1, TailParts
  <1>3. latched \in Driver!Event
    BY <1>2 DEF Driver!Event
  <1>4. /\ DOMAIN events = 1..(n + 1) /\ DOMAIN tail = 1..n
        /\ 1 \in 1..(n + 1)
        /\ \A i \in 1..(n + 1) : i # 1 => i - 1 \in 1..n
        /\ \A i \in 1..n : i + 1 \in 1..(n + 1)
    BY <1>1, <1>2
  <1>5. events' = IF head.kind = "endError" THEN <<latched>> \o tail ELSE tail
    BY <1>2 DEF Driver!Apply
  <1> HIDE DEF latched, tail, n, head
  <1>6. ASSUME NEW l, l \in Driver!Event
        PROVE  /\ <<l>> \o tail \in Seq(Driver!Event)
               /\ DOMAIN (<<l>> \o tail) = 1..(n + 1)
               /\ (<<l>> \o tail)[1] = l
               /\ \A i \in 1..(n + 1) : i # 1 => (<<l>> \o tail)[i] = events[i]
    <2>1. /\ <<l>> \o tail \in Seq(Driver!Event) /\ Len(<<l>> \o tail) = 1 + n
          /\ (<<l>> \o tail)[1] = l
          /\ \A i \in 1..n : (<<l>> \o tail)[1 + i] = tail[i]
      BY <1>2, <1>6
    <2>2. ASSUME NEW i \in 1..(n + 1), i # 1 PROVE (<<l>> \o tail)[i] = events[i]
      <3>1. i - 1 \in 1..n /\ 1 + (i - 1) = i /\ (i - 1) + 1 = i
        BY <1>2, <2>2
      <3> QED BY <1>2, <2>1, <3>1
    <2> QED BY <1>2, <2>1, <2>2
  <1>7. CASE head.kind = "endError"
    BY <1>3, <1>4, <1>5, <1>6, <1>7 DEF head, latched
  <1>8. CASE head.kind # "endError"
    BY <1>2, <1>4, <1>5, <1>8 DEF head
  <1> QED BY <1>7, <1>8

\* And what it does to the state.
LEMMA AppliedState ==
  ASSUME Driver!TypeOK, Driver!Apply
  PROVE  /\ UNCHANGED <<runner, send, ended, submits, keyboard, pressed>>
         /\ UNCHANGED <<overlay, done, answer>> /\ events[1] \in Driver!Event
         /\ state'.streaming = state.streaming /\ state'.cancelRequested = state.cancelRequested
         /\ state'.preview = IF events[1].kind = "update" THEN events[1].turn
                             ELSE IF events[1].kind \in {"end", "latched"} THEN 0 ELSE state.preview
         /\ state'.turnError = IF events[1].kind = "endError" THEN TRUE ELSE state.turnError
         /\ state'.progress = IF events[1].kind = "latched" THEN "error" ELSE state.progress
         /\ state'.pendingTools =
              IF events[1].kind = "toolStart" THEN state.pendingTools \cup {events[1].turn}
              ELSE IF events[1].kind = "toolEnd" THEN state.pendingTools \ {events[1].turn}
              ELSE state.pendingTools
  <1>1. events \in Seq(Driver!Event) /\ events # <<>> /\ state \in Driver!States
    BY DEF Driver!TypeOK, Driver!Apply
  <1>2. Head(events) = events[1] /\ events[1] \in Driver!Event
    BY <1>1
  <1>3. /\ UNCHANGED <<runner, send, ended, submits, keyboard, pressed>>
        /\ UNCHANGED <<overlay, done, answer>>
        /\ state' =
              CASE events[1].kind = "update"    -> [state EXCEPT !.preview = events[1].turn]
                [] events[1].kind = "end"       -> [state EXCEPT !.preview = 0]
                [] events[1].kind = "endError"  -> [state EXCEPT !.turnError = TRUE]
                [] events[1].kind = "latched"   ->
                     [state EXCEPT !.progress = "error", !.preview = 0]
                [] events[1].kind = "toolStart" ->
                     [state EXCEPT !.pendingTools = @ \cup {events[1].turn}]
                [] events[1].kind = "toolEnd"   ->
                     [state EXCEPT !.pendingTools = @ \ {events[1].turn}]
    BY <1>2 DEF Driver!Apply, Driver!history, Driver!uiVars
  <1>4. events[1].kind \in EventKinds
    BY <1>2 DEF Driver!Event, EventKinds
  <1> QED BY <1>1, <1>2, <1>3, <1>4 DEF Driver!States, EventKinds

\* What is behind an event before, is after; behind all, unless it is the first.
LEMMA AppliedBehind ==
  ASSUME Driver!TypeOK, Driver!Apply, NEW i \in Nat, NEW K, Driver!Behind(i, K)
  PROVE  /\ events[1].kind = "endError" /\ ("endError" \in K => "latched" \in K) =>
              Driver!Behind(i, K)'
         /\ events[1].kind # "endError" /\ i # 0 => Driver!Behind(i - 1, K)'
         /\ events[1].kind # "endError" /\ i = 0 /\ events[1].kind \notin K => Driver!Behind(0, K)'
  <1>1. PICK j \in DOMAIN events : j > i /\ events[j].kind \in K
    BY DEF Driver!Behind
  <1>2. events \in Seq(Driver!Event) /\ j \in Nat /\ events[1] \in Driver!Event
    BY <1>1, AppliedState DEF Driver!TypeOK
  <1>3. ASSUME events[1].kind = "endError", "endError" \in K => "latched" \in K
        PROVE  Driver!Behind(i, K)'
    <2>1. j \in DOMAIN events' /\ events'[j].kind \in K
      BY <1>1, <1>2, <1>3, Applied DEF Driver!Event
    <2> QED BY <1>1, <2>1 DEF Driver!Behind
  <1>4. ASSUME events[1].kind # "endError", j # 1
        PROVE  j - 1 \in DOMAIN events' /\ events'[j - 1].kind \in K
    <2>1. j - 1 \in DOMAIN events' /\ events'[j - 1] = events[(j - 1) + 1] /\ (j - 1) + 1 = j
      BY <1>1, <1>2, <1>4, Applied
    <2> QED BY <1>1, <2>1
  <1>5. ASSUME events[1].kind # "endError", i # 0 PROVE Driver!Behind(i - 1, K)'
    <2>1. j # 1 /\ j - 1 > i - 1
      BY <1>1, <1>2, <1>5
    <2> QED BY <1>4, <1>5, <2>1 DEF Driver!Behind
  <1>6. ASSUME events[1].kind # "endError", i = 0, events[1].kind \notin K
        PROVE  Driver!Behind(0, K)'
    <2>1. j # 1 /\ j - 1 > 0
      BY <1>1, <1>2, <1>6
    <2> QED BY <1>4, <1>6, <2>1 DEF Driver!Behind
  <1> QED BY <1>3, <1>5, <1>6

LEMMA AppliedEndBehind ==
  ASSUME Driver!TypeOK, Driver!Apply, NEW i \in Nat, NEW n, Driver!EndBehind(i, n)
  PROVE  /\ events[1].kind = "endError" => Driver!EndBehind(i, n)'
         /\ events[1].kind # "endError" /\ i # 0 => Driver!EndBehind(i - 1, n)'
         /\ events[1].kind \notin {"endError", "toolEnd"} \/ events[1].turn # n =>
              Driver!EndBehind(0, n)'
  <1>1. PICK j \in DOMAIN events : j > i /\ events[j].kind = "toolEnd" /\ events[j].turn = n
    BY DEF Driver!EndBehind
  <1>2. events \in Seq(Driver!Event) /\ j \in Nat /\ j > 0 /\ events[1] \in Driver!Event
    BY <1>1, AppliedState DEF Driver!TypeOK
  <1>3. ASSUME events[1].kind = "endError"
        PROVE  Driver!EndBehind(i, n)' /\ Driver!EndBehind(0, n)'
    <2>1. j \in DOMAIN events' /\ events'[j].kind = "toolEnd" /\ events'[j].turn = n
      BY <1>1, <1>2, <1>3, Applied DEF Driver!Event
    <2> QED BY <1>1, <1>2, <2>1 DEF Driver!EndBehind
  <1>4. ASSUME events[1].kind # "endError", j # 1
        PROVE  /\ j - 1 \in DOMAIN events'
               /\ events'[j - 1].kind = "toolEnd" /\ events'[j - 1].turn = n
    <2>1. j - 1 \in DOMAIN events' /\ events'[j - 1] = events[(j - 1) + 1] /\ (j - 1) + 1 = j
      BY <1>1, <1>2, <1>4, Applied
    <2> QED BY <1>1, <2>1
  <1>5. ASSUME events[1].kind # "endError", i # 0 PROVE Driver!EndBehind(i - 1, n)'
    <2>1. j # 1 /\ j - 1 > i - 1
      BY <1>1, <1>2, <1>5
    <2> QED BY <1>4, <1>5, <2>1 DEF Driver!EndBehind
  <1>6. ASSUME events[1].kind # "endError", events[1].kind # "toolEnd" \/ events[1].turn # n
        PROVE  Driver!EndBehind(0, n)'
    <2>1. j # 1 /\ j - 1 > 0
      BY <1>1, <1>2, <1>6
    <2> QED BY <1>4, <1>6, <2>1 DEF Driver!EndBehind
  <1> QED BY <1>3, <1>5, <1>6

LEMMA DriverTypes ==
  ASSUME Driver!TypeOK, Driver!Next
  PROVE  Driver!TypeOK'
  <1> USE DEF Driver!TypeOK, Driver!turnVars, Driver!uiVars, Driver!history, Driver!At,
              Driver!Goto, Driver!Free
  <1>1. ASSUME NEW work \in SubmitKinds, Driver!Submit(work) PROVE Driver!TypeOK'
    <2>1. Driver!InputOK'
      BY <1>1, FrontEndsAssumption DEF Driver!Submit, Driver!InputOK
    <2>2. state' \in Driver!States
      BY <1>1, FrontEndsAssumption DEF Driver!Submit, Driver!States
    <2> QED BY <1>1, <2>1, <2>2 DEF Driver!Submit
  <1>2. CASE Driver!SendSubmit
    <2>1. submits' \in Seq(Driver!Work)
      BY <1>2 DEF Driver!SendSubmit, Driver!InputOK
    <2>2. Driver!InputOK'
      BY <1>2 DEF Driver!SendSubmit, Driver!InputOK
    <2> QED BY <1>2, <2>1, <2>2 DEF Driver!SendSubmit
  <1>3. CASE Driver!CopyLastMessage
    <2>1. submits' \in Seq(Driver!Work)
      BY <1>3 DEF Driver!CopyLastMessage, Driver!Work
    <2>2. Driver!InputOK'
      BY <1>3 DEF Driver!CopyLastMessage, Driver!InputOK
    <2> QED BY <1>3, <2>1, <2>2 DEF Driver!CopyLastMessage
  <1>4. CASE Driver!MarkCancelled
    <2>1. state' \in Driver!States
      BY <1>4 DEF Driver!MarkCancelled, Driver!States
    <2>2. Driver!InputOK'
      BY <1>4 DEF Driver!MarkCancelled, Driver!InputOK
    <2>3. pressed' \subseteq Nat
      BY <1>4 DEF Driver!MarkCancelled, Driver!InFlight, Driver!Runners
    <2> QED BY <1>4, <2>1, <2>2, <2>3 DEF Driver!MarkCancelled
  <1>5. CASE Driver!CancelToken
    <2>1. token' \in BOOLEAN
      BY <1>5 DEF Driver!CancelToken
    <2>2. Driver!InputOK'
      BY <1>5 DEF Driver!CancelToken, Driver!InputOK
    <2> QED BY <1>5, <2>1, <2>2 DEF Driver!CancelToken
  <1>6. ASSUME NEW a \in Driver!Outcomes, Driver!Answer(a) PROVE Driver!TypeOK'
    <2>1. Driver!InputOK'
      BY <1>6 DEF Driver!Answer, Driver!InputOK
    <2>2. answer' \in Driver!Outcomes \cup {"none"}
      BY <1>6 DEF Driver!Answer, Driver!Outcomes
    <2> QED BY <1>6, <2>1, <2>2 DEF Driver!Answer
  <1>7. CASE Driver!RaiseDone
    <2>1. done' \in BOOLEAN
      BY <1>7 DEF Driver!RaiseDone
    <2>2. Driver!InputOK'
      BY <1>7 DEF Driver!RaiseDone, Driver!InputOK
    <2> QED BY <1>7, <2>1, <2>2 DEF Driver!RaiseDone
  <1>8. CASE Driver!CheckDone
    <2>1. overlay' \in Nat
      BY <1>8 DEF Driver!CheckDone
    <2>2. Driver!InputOK'
      BY <1>8 DEF Driver!CheckDone, Driver!InputOK
    <2> QED BY <1>8, <2>1, <2>2 DEF Driver!CheckDone
  <1>9. CASE Driver!OtherKey
    <2>1. overlay' \in Nat
      BY <1>9 DEF Driver!OtherKey
    <2> QED BY <1>9, <2>1 DEF Driver!OtherKey, Driver!InputOK
  <1>10. CASE Driver!Quit
    <2>1. submits' \in Seq(Driver!Work)
      BY <1>10, EmptySeq DEF Driver!Quit
    <2>2. runner' \in Driver!Runners
      BY <1>10 DEF Driver!Quit, Driver!Nowhere, Driver!Runners, Driver!Places,
         Driver!Dialogs, Driver!Work
    <2>3. send' \in {"none", "hooks", "run", "partial", "tool", "written", "erred"}
      BY <1>10 DEF Driver!Quit
    <2>4. token' \in BOOLEAN
      BY <1>10 DEF Driver!Quit
    <2>5. events' \in Seq(Driver!Event)
      BY <1>10, EmptySeq DEF Driver!Quit
    <2>6. state' \in Driver!States
      BY <1>10 DEF Driver!Quit, Driver!Fresh, Driver!States
    <2>7. Driver!InputOK'
      BY <1>10 DEF Driver!Quit, Driver!InputOK
    <2>8. overlay' \in Nat
      BY <1>10 DEF Driver!Quit
    <2>9. done' \in BOOLEAN
      BY <1>10 DEF Driver!Quit
    <2>10. answer' \in Driver!Outcomes \cup {"none"}
      BY <1>10 DEF Driver!Quit, Driver!Outcomes
    <2>11. ended' \in Seq(Driver!Endings)
      BY <1>10, EmptySeq DEF Driver!Quit
    <2>12. pressed' \subseteq Nat
      BY <1>10 DEF Driver!Quit, Driver!InFlight
    <2> QED BY <1>10, <2>1, <2>2, <2>3, <2>4, <2>5, <2>6, <2>7, <2>8, <2>9, <2>10, <2>11,
               <2>12 DEF Driver!Quit
  <1>11. CASE Driver!Take
    <2>1. submits' \in Seq(Driver!Work)
      BY <1>11 DEF Driver!Take, Driver!Work
    <2>2. runner' \in Driver!Runners
      <3>1. Head(submits) \in Driver!Work
        BY <1>11 DEF Driver!Take
      <3> QED BY <1>11, <3>1 DEF Driver!Take, Driver!Runners, Driver!Places, Driver!Dialogs,
                 Driver!Work
    <2> QED BY <1>11, <2>1, <2>2 DEF Driver!Take, Driver!InputOK
  <1>12. CASE Driver!RunSlash
    <2>1. runner' \in Driver!Runners
      BY <1>12 DEF Driver!RunSlash, Driver!Runners, Driver!Places, Driver!Dialogs, Driver!Work
    <2>2. state' \in Driver!States
      BY <1>12 DEF Driver!RunSlash, Driver!States
    <2> QED BY <1>12, <2>1, <2>2 DEF Driver!RunSlash, Driver!InputOK
  <1>13. CASE Driver!RunEmptyBash
    <2>1. runner' \in Driver!Runners
      BY <1>13 DEF Driver!RunEmptyBash, Driver!Runners, Driver!Places, Driver!Dialogs,
         Driver!Work
    <2> QED BY <1>13, <2>1 DEF Driver!RunEmptyBash, Driver!InputOK
  <1>14. CASE Driver!RunBash
    <2>1. runner' \in Driver!Runners
      BY <1>14 DEF Driver!RunBash, Driver!Runners, Driver!Places, Driver!Dialogs, Driver!Work
    <2>2. state' \in Driver!States
      <3>1. Driver!Command \in Nat
        BY FrontEndsAssumption DEF Driver!Command
      <3> QED BY <1>14, <3>1 DEF Driver!RunBash, Driver!States
    <2> QED BY <1>14, <2>1, <2>2 DEF Driver!RunBash, Driver!InputOK
  <1>15. CASE Driver!BashEnds
    <2>1. runner' \in Driver!Runners
      BY <1>15 DEF Driver!BashEnds, Driver!Runners, Driver!Places, Driver!Dialogs, Driver!Work
    <2>2. state' \in Driver!States
      BY <1>15 DEF Driver!BashEnds, Driver!States
    <2> QED BY <1>15, <2>1, <2>2 DEF Driver!BashEnds, Driver!InputOK
  <1>16. CASE Driver!RunCompact
    <2>1. runner' \in Driver!Runners
      BY <1>16 DEF Driver!RunCompact, Driver!Runners, Driver!Places, Driver!Dialogs,
         Driver!Work
    <2>2. state' \in Driver!States
      BY <1>16 DEF Driver!RunCompact, Driver!States
    <2> QED BY <1>16, <2>1, <2>2 DEF Driver!RunCompact, Driver!InputOK
  <1>17. CASE Driver!CompactEnds
    <2>1. runner' \in Driver!Runners
      BY <1>17 DEF Driver!CompactEnds, Driver!Runners, Driver!Places, Driver!Dialogs,
         Driver!Work
    <2>2. state' \in Driver!States
      BY <1>17 DEF Driver!CompactEnds, Driver!States
    <2> QED BY <1>17, <2>1, <2>2 DEF Driver!CompactEnds, Driver!InputOK
  <1>18. CASE Driver!ResetLatches
    <2>1. runner' \in Driver!Runners
      <3>1. runner.turn + 1 \in Nat
        BY DEF Driver!Runners
      <3> QED BY <1>18, <3>1 DEF Driver!ResetLatches, Driver!Runners, Driver!Places,
                 Driver!Dialogs, Driver!Work
    <2>2. state' \in Driver!States
      BY <1>18 DEF Driver!ResetLatches, Driver!States
    <2> QED BY <1>18, <2>1, <2>2 DEF Driver!ResetLatches, Driver!InputOK
  <1>19. CASE Driver!BeginTurn
    <2>1. runner' \in Driver!Runners
      BY <1>19 DEF Driver!BeginTurn, Driver!Runners, Driver!Places, Driver!Dialogs,
         Driver!Work
    <2>2. state' \in Driver!States
      BY <1>19 DEF Driver!BeginTurn, Driver!States
    <2>3. send' \in {"none", "hooks", "run", "partial", "tool", "written", "erred"}
      BY <1>19 DEF Driver!BeginTurn
    <2> QED BY <1>19, <2>1, <2>2, <2>3 DEF Driver!BeginTurn, Driver!InputOK
  <1>20. CASE Driver!Completed
    <2>1. runner' \in Driver!Runners
      BY <1>20 DEF Driver!Completed, Driver!Runners, Driver!Places, Driver!Dialogs,
         Driver!Work
    <2>2. ended' \in Seq(Driver!Endings)
      BY <1>20 DEF Driver!Completed, Driver!Endings
    <2>3. send' \in {"none", "hooks", "run", "partial", "tool", "written", "erred"}
      BY <1>20 DEF Driver!Completed
    <2> QED BY <1>20, <2>1, <2>2, <2>3 DEF Driver!Completed, Driver!InputOK
  <1>21. CASE Driver!Failed
    <2>1. runner' \in Driver!Runners
      BY <1>21 DEF Driver!Failed, Driver!Runners, Driver!Places, Driver!Dialogs, Driver!Work
    <2>2. ended' \in Seq(Driver!Endings)
      BY <1>21 DEF Driver!Failed, Driver!Endings
    <2>3. state' \in Driver!States
      BY <1>21 DEF Driver!Failed, Driver!States
    <2>4. send' \in {"none", "hooks", "run", "partial", "tool", "written", "erred"}
      BY <1>21 DEF Driver!Failed
    <2> QED BY <1>21, <2>1, <2>2, <2>3, <2>4 DEF Driver!Failed, Driver!InputOK
  <1>22. CASE Driver!TimedOut
    <2>1. runner' \in Driver!Runners
      BY <1>22 DEF Driver!TimedOut, Driver!Runners, Driver!Places, Driver!Dialogs, Driver!Work
    <2>2. token' \in BOOLEAN
      BY <1>22 DEF Driver!TimedOut
    <2>3. send' \in {"none", "hooks", "run", "partial", "tool", "written", "erred"}
      BY <1>22 DEF Driver!TimedOut
    <2>4. ended' \in Seq(Driver!Endings)
      BY <1>22 DEF Driver!TimedOut, Driver!Endings
    <2> QED BY <1>22, <2>1, <2>2, <2>3, <2>4 DEF Driver!TimedOut, Driver!InputOK
  <1>23. CASE Driver!TerminalProgress
    <2>1. runner' \in Driver!Runners
      BY <1>23 DEF Driver!TerminalProgress, Driver!Runners, Driver!Places, Driver!Dialogs,
         Driver!Work
    <2>2. state' \in Driver!States
      BY <1>23 DEF Driver!TerminalProgress, Driver!States
    <2> QED BY <1>23, <2>1, <2>2 DEF Driver!TerminalProgress, Driver!InputOK
  <1>24. CASE Driver!EndTurn
    <2>1. runner' \in Driver!Runners
      BY <1>24 DEF Driver!EndTurn, Driver!Runners, Driver!Places, Driver!Dialogs, Driver!Work
    <2>2. state' \in Driver!States
      BY <1>24 DEF Driver!EndTurn, Driver!States
    <2> QED BY <1>24, <2>1, <2>2 DEF Driver!EndTurn, Driver!InputOK
  <1>25. CASE Driver!OpenFirst
    <2>1. runner' \in Driver!Runners
      <3>1. Driver!First[runner.at] \in Driver!Dialogs
        BY <1>25 DEF Driver!OpenFirst, Driver!First, Driver!Dialogs
      <3> QED BY <1>25, <3>1 DEF Driver!OpenFirst, Driver!Opens, Driver!Runners,
                 Driver!Places, Driver!Dialogs, Driver!Work
    <2>2. state' \in Driver!States
      BY <1>25 DEF Driver!OpenFirst, Driver!States
    <2> QED BY <1>25, <2>1, <2>2 DEF Driver!OpenFirst, Driver!InputOK
  <1>26. CASE Driver!ResetDone
    <2>1. runner' \in Driver!Runners
      BY <1>26 DEF Driver!ResetDone, Driver!Runners, Driver!Places, Driver!Dialogs,
         Driver!Work
    <2>2. done' \in BOOLEAN
      BY <1>26 DEF Driver!ResetDone
    <2> QED BY <1>26, <2>1, <2>2 DEF Driver!ResetDone, Driver!InputOK
  <1>27. CASE Driver!Mount
    <2>1. runner' \in Driver!Runners
      <3>1. runner.dialog + 1 \in Nat
        BY DEF Driver!Runners
      <3> QED BY <1>27, <3>1 DEF Driver!Mount, Driver!Runners, Driver!Places, Driver!Dialogs,
                 Driver!Work
    <2>2. overlay' \in Nat
      BY <1>27 DEF Driver!Mount, Driver!Runners
    <2>3. answer' \in Driver!Outcomes \cup {"none"}
      BY <1>27 DEF Driver!Mount, Driver!Outcomes
    <2> QED BY <1>27, <2>1, <2>2, <2>3 DEF Driver!Mount, Driver!InputOK
  <1>28. CASE Driver!TakeAnswer
    <2>1. runner' \in Driver!Runners
      BY <1>28 DEF Driver!TakeAnswer, Driver!Closed, Driver!Opens, Driver!Runners,
         Driver!Places, Driver!Dialogs, Driver!Work
    <2>2. answer' \in Driver!Outcomes \cup {"none"}
      BY <1>28 DEF Driver!TakeAnswer, Driver!Outcomes
    <2>3. overlay' \in Nat
      BY <1>28 DEF Driver!TakeAnswer
    <2> QED BY <1>28, <2>1, <2>2, <2>3 DEF Driver!TakeAnswer, Driver!InputOK
  <1>29. CASE Driver!DialogDropped
    <2>1. runner' \in Driver!Runners
      BY <1>29 DEF Driver!DialogDropped, Driver!Closed, Driver!Opens, Driver!Runners,
         Driver!Places, Driver!Dialogs, Driver!Work
    <2>2. overlay' \in Nat
      BY <1>29 DEF Driver!DialogDropped
    <2> QED BY <1>29, <2>1, <2>2 DEF Driver!DialogDropped, Driver!InputOK
  <1>30. CASE Driver!LoginReturns
    <2>1. runner' \in Driver!Runners
      BY <1>30 DEF Driver!LoginReturns, Driver!Closed, Driver!Runners, Driver!Places,
         Driver!Dialogs, Driver!Work
    <2>2. answer' \in Driver!Outcomes \cup {"none"}
      BY <1>30 DEF Driver!LoginReturns, Driver!Outcomes
    <2>3. overlay' \in Nat
      BY <1>30 DEF Driver!LoginReturns
    <2> QED BY <1>30, <2>1, <2>2, <2>3 DEF Driver!LoginReturns, Driver!InputOK
  <1>31. CASE Driver!HooksPass
    <2>1. send' \in {"none", "hooks", "run", "partial", "tool", "written", "erred"}
      BY <1>31 DEF Driver!HooksPass
    <2>2. token' \in BOOLEAN
      BY <1>31 DEF Driver!HooksPass
    <2> QED BY <1>31, <2>1, <2>2 DEF Driver!HooksPass, Driver!InputOK
  <1>32. CASE Driver!StreamDelta
    <2>1. events' \in Seq(Driver!Event)
      <3>1. <<"update">> \in Seq(EventKinds)
        BY DEF EventKinds
      <3> QED BY <1>32, <3>1, Emitted DEF Driver!StreamDelta
    <2>2. send' \in {"none", "hooks", "run", "partial", "tool", "written", "erred"}
      BY <1>32 DEF Driver!StreamDelta
    <2> QED BY <1>32, <2>1, <2>2 DEF Driver!StreamDelta, Driver!InputOK
  <1>33. CASE Driver!StreamEnds
    <2>1. events' \in Seq(Driver!Event)
      <3>1. {<<"end">>, <<"endError">>, <<"end", "toolStart">>} \subseteq Seq(EventKinds)
        BY DEF EventKinds
      <3> QED BY <1>33, <3>1, Emitted DEF Driver!StreamEnds
    <2>2. send' \in {"none", "hooks", "run", "partial", "tool", "written", "erred"}
      BY <1>33 DEF Driver!StreamEnds
    <2> QED BY <1>33, <2>1, <2>2 DEF Driver!StreamEnds, Driver!InputOK
  <1>34. CASE Driver!ToolEnds
    <2>1. events' \in Seq(Driver!Event)
      <3>1. <<"toolEnd">> \in Seq(EventKinds)
        BY DEF EventKinds
      <3> QED BY <1>34, <3>1, Emitted DEF Driver!ToolEnds
    <2>2. send' \in {"none", "hooks", "run", "partial", "tool", "written", "erred"}
      BY <1>34 DEF Driver!ToolEnds
    <2> QED BY <1>34, <2>1, <2>2 DEF Driver!ToolEnds, Driver!InputOK
  <1>35. CASE Driver!Apply
    <2>1. events' \in Seq(Driver!Event)
      BY <1>35, Applied
    <2>2. state' \in Driver!States
      <3>1. Head(events) \in Driver!Event
        BY <1>35 DEF Driver!Apply
      <3> QED BY <1>35, <3>1 DEF Driver!Apply, Driver!States, Driver!Event
    <2> QED BY <1>35, <2>1, <2>2 DEF Driver!Apply, Driver!InputOK
  <1> QED
    BY <1>1, <1>2, <1>3, <1>4, <1>5, <1>6, <1>7, <1>8, <1>9, <1>10, <1>11, <1>12, <1>13,
       <1>14, <1>15, <1>16, <1>17, <1>18, <1>19, <1>20, <1>21, <1>22, <1>23, <1>24, <1>25,
       <1>26, <1>27, <1>28, <1>29, <1>30, <1>31, <1>32, <1>33, <1>34, <1>35
       DEF Driver!Next, Driver!Input, Driver!Runner, Driver!Ends, Driver!Send

LEMMA TurnsEndedKept ==
  ASSUME Driver!TypeOK, Driver!TypeOK', Driver!TurnsEnded, Driver!Next
  PROVE  Driver!TurnsEnded'
  <1> USE DEF Driver!At, Driver!Goto, Driver!Free, Driver!turnVars, Driver!uiVars,
              Driver!history, Driver!TurnsEnded, Driver!InFlight
  <1>1. ASSUME NEW work \in SubmitKinds, Driver!Submit(work) PROVE Driver!TurnsEnded'
    BY <1>1 DEF Driver!Submit, Driver!TypeOK, Driver!Runners, Driver!States, Driver!InputOK
  <1>2. ASSUME NEW a \in Driver!Outcomes, Driver!Answer(a) PROVE Driver!TurnsEnded'
    BY <1>2 DEF Driver!Answer, Driver!TypeOK, Driver!Runners, Driver!States, Driver!InputOK
  <1>3. CASE Driver!MarkCancelled
    BY <1>3 DEF Driver!MarkCancelled, Driver!TypeOK, Driver!Runners, Driver!States,
       Driver!InputOK
  <1>4. CASE Driver!Quit
    BY <1>4 DEF Driver!Quit, Driver!Nowhere, Driver!Fresh
  <1>5. CASE Driver!Take
    BY <1>5, Takes DEF Driver!Take, Driver!Work, Driver!TypeOK, Driver!Runners,
       Driver!States, Driver!InputOK
  <1>6. CASE Driver!RunSlash
    BY <1>6 DEF Driver!RunSlash, Driver!TypeOK, Driver!Runners, Driver!States, Driver!InputOK
  <1>7. CASE Driver!RunEmptyBash
    BY <1>7 DEF Driver!RunEmptyBash, Driver!TypeOK, Driver!Runners, Driver!States,
       Driver!InputOK
  <1>8. CASE Driver!RunBash
    BY <1>8 DEF Driver!RunBash, Driver!TypeOK, Driver!Runners, Driver!States, Driver!InputOK
  <1>9. CASE Driver!BashEnds
    BY <1>9 DEF Driver!BashEnds, Driver!TypeOK, Driver!Runners, Driver!States, Driver!InputOK
  <1>10. CASE Driver!RunCompact
    BY <1>10 DEF Driver!RunCompact, Driver!TypeOK, Driver!Runners, Driver!States,
       Driver!InputOK
  <1>11. CASE Driver!CompactEnds
    BY <1>11 DEF Driver!CompactEnds, Driver!TypeOK, Driver!Runners, Driver!States,
       Driver!InputOK
  <1>12. CASE Driver!ResetLatches
    BY <1>12 DEF Driver!ResetLatches, Driver!TypeOK, Driver!Runners, Driver!States,
       Driver!InputOK
  <1>13. CASE Driver!BeginTurn
    BY <1>13 DEF Driver!BeginTurn, Driver!TypeOK, Driver!Runners, Driver!States,
       Driver!InputOK
  <1>14. CASE Driver!Completed
    BY <1>14 DEF Driver!Completed, Driver!TypeOK, Driver!Runners, Driver!States,
       Driver!InputOK
  <1>15. CASE Driver!Failed
    BY <1>15 DEF Driver!Failed, Driver!TypeOK, Driver!Runners, Driver!States, Driver!InputOK
  <1>16. CASE Driver!TimedOut
    BY <1>16 DEF Driver!TimedOut, Driver!TypeOK, Driver!Runners, Driver!States, Driver!InputOK
  <1>17. CASE Driver!TerminalProgress
    BY <1>17 DEF Driver!TerminalProgress, Driver!TypeOK, Driver!Runners, Driver!States,
       Driver!InputOK
  <1>18. CASE Driver!EndTurn
    BY <1>18 DEF Driver!EndTurn, Driver!TypeOK, Driver!Runners, Driver!States, Driver!InputOK
  <1>19. CASE Driver!OpenFirst
    BY <1>19, OpensFirst DEF Driver!OpenFirst, Driver!Opens, Driver!TypeOK, Driver!Runners,
       Driver!States,
           Driver!InputOK
  <1>20. CASE Driver!ResetDone
    BY <1>20 DEF Driver!ResetDone, Driver!TypeOK, Driver!Runners, Driver!States,
       Driver!InputOK
  <1>21. CASE Driver!Mount
    BY <1>21 DEF Driver!Mount, Driver!TypeOK, Driver!Runners, Driver!States, Driver!InputOK
  <1>22. CASE Driver!TakeAnswer
    BY <1>22 DEF Driver!TakeAnswer, Driver!Opens, Driver!Closed, Driver!TypeOK,
       Driver!Runners,
           Driver!States, Driver!InputOK
  <1>23. CASE Driver!DialogDropped
    BY <1>23 DEF Driver!DialogDropped, Driver!Opens, Driver!Closed, Driver!TypeOK,
       Driver!Runners,
           Driver!States, Driver!InputOK
  <1>24. CASE Driver!LoginReturns
    BY <1>24 DEF Driver!LoginReturns, Driver!Closed, Driver!TypeOK, Driver!Runners,
       Driver!States,
           Driver!InputOK
  <1>25. CASE Driver!HooksPass
    BY <1>25 DEF Driver!HooksPass, Driver!Sending, Driver!TypeOK, Driver!Runners,
       Driver!States,
           Driver!InputOK
  <1>26. CASE Driver!StreamDelta
    BY <1>26 DEF Driver!StreamDelta, Driver!Sending, Driver!TypeOK, Driver!Runners,
       Driver!States,
           Driver!InputOK
  <1>27. CASE Driver!StreamEnds
    BY <1>27 DEF Driver!StreamEnds, Driver!Sending, Driver!TypeOK, Driver!Runners,
       Driver!States,
           Driver!InputOK
  <1>28. CASE Driver!ToolEnds
    BY <1>28 DEF Driver!ToolEnds, Driver!Sending, Driver!TypeOK, Driver!Runners,
       Driver!States,
           Driver!InputOK
  <1>29. CASE Driver!Apply
    BY <1>29, AppliedState
  <1>30. CASE Driver!SendSubmit \/ Driver!CopyLastMessage \/ Driver!CancelToken \/
             Driver!RaiseDone \/ Driver!CheckDone \/ Driver!OtherKey
    <2>1. /\ runner'.at = runner.at /\ ended' = ended /\ pressed' = pressed
          /\ send' = send /\ runner'.turn = runner.turn
      BY <1>30 DEF Driver!SendSubmit, Driver!CopyLastMessage, Driver!CancelToken,
           Driver!RaiseDone, Driver!CheckDone, Driver!OtherKey, Driver!TypeOK,
           Driver!Runners
    <2> QED BY <2>1
  <1> QED
    BY <1>1, <1>2, <1>3, <1>4, <1>5, <1>6, <1>7, <1>8, <1>9, <1>10, <1>11, <1>12, <1>13,
       <1>14, <1>15, <1>16, <1>17, <1>18, <1>19, <1>20, <1>21, <1>22, <1>23, <1>24, <1>25,
       <1>26, <1>27, <1>28, <1>29, <1>30
       DEF Driver!Next, Driver!Input, Driver!Runner, Driver!Ends, Driver!Send

LEMMA LoaderIsOwnedKept ==
  ASSUME Driver!TypeOK, Driver!TypeOK', Driver!LoaderIsOwned, Driver!Next
  PROVE  Driver!LoaderIsOwned'
  <1> USE DEF Driver!At, Driver!Goto, Driver!Free, Driver!turnVars, Driver!uiVars,
              Driver!history, Driver!LoaderIsOwned, Driver!Work
  <1>1. ASSUME NEW work \in SubmitKinds, Driver!Submit(work) PROVE Driver!LoaderIsOwned'
    BY <1>1 DEF Driver!Submit, Driver!TypeOK, Driver!Runners, Driver!States, Driver!InputOK
  <1>2. CASE Driver!SendSubmit
    BY <1>2 DEF Driver!SendSubmit, Driver!TypeOK, Driver!Runners, Driver!States,
       Driver!InputOK
  <1>3. CASE Driver!CopyLastMessage
    BY <1>3 DEF Driver!CopyLastMessage, Driver!TypeOK, Driver!Runners, Driver!States,
       Driver!InputOK
  <1>4. CASE Driver!MarkCancelled
    BY <1>4 DEF Driver!MarkCancelled, Driver!TypeOK, Driver!Runners, Driver!States,
       Driver!InputOK
  <1>5. CASE Driver!CancelToken
    BY <1>5 DEF Driver!CancelToken, Driver!TypeOK, Driver!Runners, Driver!States,
       Driver!InputOK
  <1>6. ASSUME NEW a \in Driver!Outcomes, Driver!Answer(a) PROVE Driver!LoaderIsOwned'
    BY <1>6 DEF Driver!Answer, Driver!TypeOK, Driver!Runners, Driver!States, Driver!InputOK
  <1>7. CASE Driver!RaiseDone
    BY <1>7 DEF Driver!RaiseDone, Driver!TypeOK, Driver!Runners, Driver!States, Driver!InputOK
  <1>8. CASE Driver!CheckDone
    BY <1>8 DEF Driver!CheckDone, Driver!TypeOK, Driver!Runners, Driver!States, Driver!InputOK
  <1>9. CASE Driver!Quit
    BY <1>9 DEF Driver!Quit, Driver!Nowhere, Driver!Fresh
  <1>10. CASE Driver!Take
    BY <1>10, Takes DEF Driver!Take, Driver!Work, Driver!TypeOK, Driver!Runners,
       Driver!States, Driver!InputOK
  <1>11. CASE Driver!RunSlash
    BY <1>11 DEF Driver!RunSlash, Driver!TypeOK, Driver!Runners, Driver!States, Driver!InputOK
  <1>12. CASE Driver!RunEmptyBash
    BY <1>12 DEF Driver!RunEmptyBash, Driver!TypeOK, Driver!Runners, Driver!States,
       Driver!InputOK
  <1>13. CASE Driver!RunBash
    BY <1>13 DEF Driver!RunBash, Driver!TypeOK, Driver!Runners, Driver!States, Driver!InputOK
  <1>14. CASE Driver!BashEnds
    BY <1>14 DEF Driver!BashEnds, Driver!TypeOK, Driver!Runners, Driver!States, Driver!InputOK
  <1>15. CASE Driver!RunCompact
    BY <1>15 DEF Driver!RunCompact, Driver!TypeOK, Driver!Runners, Driver!States,
       Driver!InputOK
  <1>16. CASE Driver!CompactEnds
    BY <1>16 DEF Driver!CompactEnds, Driver!TypeOK, Driver!Runners, Driver!States,
       Driver!InputOK
  <1>17. CASE Driver!ResetLatches
    BY <1>17 DEF Driver!ResetLatches, Driver!TypeOK, Driver!Runners, Driver!States,
       Driver!InputOK
  <1>18. CASE Driver!BeginTurn
    BY <1>18 DEF Driver!BeginTurn, Driver!TypeOK, Driver!Runners, Driver!States,
       Driver!InputOK
  <1>19. CASE Driver!Completed
    BY <1>19 DEF Driver!Completed, Driver!TypeOK, Driver!Runners, Driver!States,
       Driver!InputOK
  <1>20. CASE Driver!Failed
    BY <1>20 DEF Driver!Failed, Driver!TypeOK, Driver!Runners, Driver!States, Driver!InputOK
  <1>21. CASE Driver!TimedOut
    BY <1>21 DEF Driver!TimedOut, Driver!TypeOK, Driver!Runners, Driver!States, Driver!InputOK
  <1>22. CASE Driver!TerminalProgress
    BY <1>22 DEF Driver!TerminalProgress, Driver!TypeOK, Driver!Runners, Driver!States,
       Driver!InputOK
  <1>23. CASE Driver!EndTurn
    BY <1>23 DEF Driver!EndTurn, Driver!TypeOK, Driver!Runners, Driver!States, Driver!InputOK
  <1>24. CASE Driver!OpenFirst
    BY <1>24, OpensFirst DEF Driver!OpenFirst, Driver!Opens, Driver!TypeOK, Driver!Runners,
       Driver!States,
           Driver!InputOK
  <1>25. CASE Driver!ResetDone
    BY <1>25 DEF Driver!ResetDone, Driver!TypeOK, Driver!Runners, Driver!States,
       Driver!InputOK
  <1>26. CASE Driver!Mount
    BY <1>26 DEF Driver!Mount, Driver!TypeOK, Driver!Runners, Driver!States, Driver!InputOK
  <1>27. CASE Driver!TakeAnswer
    BY <1>27 DEF Driver!TakeAnswer, Driver!Opens, Driver!Closed, Driver!TypeOK,
       Driver!Runners,
           Driver!States, Driver!InputOK
  <1>28. CASE Driver!DialogDropped
    BY <1>28 DEF Driver!DialogDropped, Driver!Opens, Driver!Closed, Driver!TypeOK,
       Driver!Runners,
           Driver!States, Driver!InputOK
  <1>29. CASE Driver!LoginReturns
    BY <1>29 DEF Driver!LoginReturns, Driver!Closed, Driver!TypeOK, Driver!Runners,
       Driver!States,
           Driver!InputOK
  <1>30. CASE Driver!Apply
    BY <1>30, AppliedState
  <1>31. CASE Driver!OtherKey \/ Driver!HooksPass \/ Driver!StreamDelta \/ Driver!StreamEnds \/
             Driver!ToolEnds
    <2>1. /\ runner'.at = runner.at /\ keyboard'.at = keyboard.at /\ state'.streaming = state.streaming
          /\ submits' = submits /\ runner'.work = runner.work
      BY <1>31 DEF Driver!OtherKey, Driver!HooksPass, Driver!StreamDelta, Driver!StreamEnds,
           Driver!ToolEnds, Driver!TypeOK, Driver!Runners, Driver!States, Driver!InputOK
    <2> QED BY <2>1
  <1> QED
    BY <1>1, <1>2, <1>3, <1>4, <1>5, <1>6, <1>7, <1>8, <1>9, <1>10, <1>11, <1>12, <1>13,
       <1>14, <1>15, <1>16, <1>17, <1>18, <1>19, <1>20, <1>21, <1>22, <1>23, <1>24, <1>25,
       <1>26, <1>27, <1>28, <1>29, <1>30, <1>31
       DEF Driver!Next, Driver!Input, Driver!Runner, Driver!Ends, Driver!Send

LEMMA OverlayClosesKept ==
  ASSUME Driver!TypeOK, Driver!TypeOK', Driver!OverlayCloses, Driver!Next
  PROVE  Driver!OverlayCloses'
  <1> USE DEF Driver!At, Driver!Goto, Driver!Free, Driver!turnVars, Driver!uiVars,
              Driver!history, Driver!OverlayCloses, Driver!Closing
  <1>1. ASSUME NEW work \in SubmitKinds, Driver!Submit(work) PROVE Driver!OverlayCloses'
    BY <1>1 DEF Driver!Submit, Driver!TypeOK, Driver!Runners, Driver!States, Driver!InputOK
  <1>2. CASE Driver!SendSubmit
    BY <1>2 DEF Driver!SendSubmit, Driver!TypeOK, Driver!Runners, Driver!States,
       Driver!InputOK
  <1>3. CASE Driver!MarkCancelled
    BY <1>3 DEF Driver!MarkCancelled, Driver!TypeOK, Driver!Runners, Driver!States,
       Driver!InputOK
  <1>4. CASE Driver!CancelToken
    BY <1>4 DEF Driver!CancelToken, Driver!TypeOK, Driver!Runners, Driver!States,
       Driver!InputOK
  <1>5. ASSUME NEW a \in Driver!Outcomes, Driver!Answer(a) PROVE Driver!OverlayCloses'
    BY <1>5 DEF Driver!Answer, Driver!TypeOK, Driver!Runners, Driver!States, Driver!InputOK
  <1>6. CASE Driver!RaiseDone
    BY <1>6 DEF Driver!RaiseDone, Driver!TypeOK, Driver!Runners, Driver!States, Driver!InputOK
  <1>7. CASE Driver!CheckDone
    BY <1>7 DEF Driver!CheckDone, Driver!TypeOK, Driver!Runners, Driver!States, Driver!InputOK
  <1>8. CASE Driver!OtherKey
    BY <1>8 DEF Driver!OtherKey, Driver!TypeOK, Driver!Runners, Driver!States, Driver!InputOK
  <1>9. CASE Driver!Quit
    BY <1>9 DEF Driver!Quit, Driver!Nowhere, Driver!Fresh
  <1>10. CASE Driver!Take
    BY <1>10, Takes DEF Driver!Take, Driver!Work, Driver!TypeOK, Driver!Runners,
       Driver!States, Driver!InputOK
  <1>11. CASE Driver!RunSlash
    BY <1>11 DEF Driver!RunSlash, Driver!TypeOK, Driver!Runners, Driver!States, Driver!InputOK
  <1>12. CASE Driver!RunEmptyBash
    BY <1>12 DEF Driver!RunEmptyBash, Driver!TypeOK, Driver!Runners, Driver!States,
       Driver!InputOK
  <1>13. CASE Driver!RunBash
    BY <1>13 DEF Driver!RunBash, Driver!TypeOK, Driver!Runners, Driver!States, Driver!InputOK
  <1>14. CASE Driver!BashEnds
    BY <1>14 DEF Driver!BashEnds, Driver!TypeOK, Driver!Runners, Driver!States, Driver!InputOK
  <1>15. CASE Driver!RunCompact
    BY <1>15 DEF Driver!RunCompact, Driver!TypeOK, Driver!Runners, Driver!States,
       Driver!InputOK
  <1>16. CASE Driver!CompactEnds
    BY <1>16 DEF Driver!CompactEnds, Driver!TypeOK, Driver!Runners, Driver!States,
       Driver!InputOK
  <1>17. CASE Driver!ResetLatches
    BY <1>17 DEF Driver!ResetLatches, Driver!TypeOK, Driver!Runners, Driver!States,
       Driver!InputOK
  <1>18. CASE Driver!BeginTurn
    BY <1>18 DEF Driver!BeginTurn, Driver!TypeOK, Driver!Runners, Driver!States,
       Driver!InputOK
  <1>19. CASE Driver!Completed
    BY <1>19 DEF Driver!Completed, Driver!TypeOK, Driver!Runners, Driver!States,
       Driver!InputOK
  <1>20. CASE Driver!Failed
    BY <1>20 DEF Driver!Failed, Driver!TypeOK, Driver!Runners, Driver!States, Driver!InputOK
  <1>21. CASE Driver!TimedOut
    BY <1>21 DEF Driver!TimedOut, Driver!TypeOK, Driver!Runners, Driver!States, Driver!InputOK
  <1>22. CASE Driver!TerminalProgress
    BY <1>22 DEF Driver!TerminalProgress, Driver!TypeOK, Driver!Runners, Driver!States,
       Driver!InputOK
  <1>23. CASE Driver!EndTurn
    BY <1>23 DEF Driver!EndTurn, Driver!TypeOK, Driver!Runners, Driver!States, Driver!InputOK
  <1>24. CASE Driver!OpenFirst
    BY <1>24, OpensFirst DEF Driver!OpenFirst, Driver!Opens, Driver!TypeOK, Driver!Runners,
       Driver!States,
           Driver!InputOK
  <1>25. CASE Driver!ResetDone
    BY <1>25 DEF Driver!ResetDone, Driver!TypeOK, Driver!Runners, Driver!States,
       Driver!InputOK
  <1>26. CASE Driver!Mount
    BY <1>26 DEF Driver!Mount, Driver!TypeOK, Driver!Runners, Driver!States, Driver!InputOK
  <1>27. CASE Driver!TakeAnswer
    BY <1>27 DEF Driver!TakeAnswer, Driver!Opens, Driver!Closed, Driver!TypeOK,
       Driver!Runners,
           Driver!States, Driver!InputOK
  <1>28. CASE Driver!DialogDropped
    BY <1>28 DEF Driver!DialogDropped, Driver!Opens, Driver!Closed, Driver!TypeOK,
       Driver!Runners,
           Driver!States, Driver!InputOK
  <1>29. CASE Driver!LoginReturns
    BY <1>29 DEF Driver!LoginReturns, Driver!Closed, Driver!TypeOK, Driver!Runners,
       Driver!States,
           Driver!InputOK
  <1>30. CASE Driver!Apply
    BY <1>30, AppliedState
  <1>31. CASE Driver!CopyLastMessage \/ Driver!HooksPass \/ Driver!StreamDelta \/
             Driver!StreamEnds \/ Driver!ToolEnds
    <2>1. /\ answer' = answer /\ runner'.at = runner.at /\ done' = done
          /\ keyboard'.at = keyboard.at /\ overlay' = overlay
      BY <1>31 DEF Driver!CopyLastMessage, Driver!HooksPass, Driver!StreamDelta,
           Driver!StreamEnds, Driver!ToolEnds, Driver!TypeOK, Driver!Runners, Driver!InputOK
    <2> QED BY <2>1
  <1> QED
    BY <1>1, <1>2, <1>3, <1>4, <1>5, <1>6, <1>7, <1>8, <1>9, <1>10, <1>11, <1>12, <1>13,
       <1>14, <1>15, <1>16, <1>17, <1>18, <1>19, <1>20, <1>21, <1>22, <1>23, <1>24, <1>25,
       <1>26, <1>27, <1>28, <1>29, <1>30, <1>31
       DEF Driver!Next, Driver!Input, Driver!Runner, Driver!Ends, Driver!Send

LEMMA PreviewClosesKept ==
  ASSUME Driver!TypeOK, Driver!TypeOK', Driver!PreviewCloses, Driver!TurnsEnded, Driver!Next
  PROVE  Driver!PreviewCloses'
  <1> USE DEF Driver!At, Driver!Goto, Driver!Free, Driver!turnVars, Driver!uiVars,
              Driver!history, Driver!PreviewCloses, Driver!Dropped, Driver!Behind,
              Driver!MessageEnds, Driver!TurnsEnded, Driver!InFlight
  <1>1. ASSUME NEW work \in SubmitKinds, Driver!Submit(work) PROVE Driver!PreviewCloses'
    BY <1>1 DEF Driver!Submit, Driver!TypeOK, Driver!Runners, Driver!States, Driver!InputOK
  <1>2. ASSUME NEW a \in Driver!Outcomes, Driver!Answer(a) PROVE Driver!PreviewCloses'
    BY <1>2 DEF Driver!Answer, Driver!TypeOK, Driver!Runners, Driver!States, Driver!InputOK
  <1>3. CASE Driver!Quit
    BY <1>3 DEF Driver!Quit, Driver!Nowhere, Driver!Fresh
  <1>4. CASE Driver!Take
    BY <1>4, Takes DEF Driver!Take, Driver!Work, Driver!TypeOK, Driver!Runners,
       Driver!States, Driver!InputOK
  <1>5. CASE Driver!RunSlash
    BY <1>5 DEF Driver!RunSlash, Driver!TypeOK, Driver!Runners, Driver!States, Driver!InputOK
  <1>6. CASE Driver!RunEmptyBash
    BY <1>6 DEF Driver!RunEmptyBash, Driver!TypeOK, Driver!Runners, Driver!States,
       Driver!InputOK
  <1>7. CASE Driver!RunBash
    BY <1>7 DEF Driver!RunBash, Driver!TypeOK, Driver!Runners, Driver!States, Driver!InputOK
  <1>8. CASE Driver!BashEnds
    BY <1>8 DEF Driver!BashEnds, Driver!TypeOK, Driver!Runners, Driver!States, Driver!InputOK
  <1>9. CASE Driver!RunCompact
    BY <1>9 DEF Driver!RunCompact, Driver!TypeOK, Driver!Runners, Driver!States,
       Driver!InputOK
  <1>10. CASE Driver!CompactEnds
    BY <1>10 DEF Driver!CompactEnds, Driver!TypeOK, Driver!Runners, Driver!States,
       Driver!InputOK
  <1>11. CASE Driver!ResetLatches
    BY <1>11 DEF Driver!ResetLatches, Driver!TypeOK, Driver!Runners, Driver!States,
       Driver!InputOK
  <1>12. CASE Driver!BeginTurn
    BY <1>12 DEF Driver!BeginTurn, Driver!TypeOK, Driver!Runners, Driver!States,
       Driver!InputOK
  <1>13. CASE Driver!Completed
    BY <1>13 DEF Driver!Completed, Driver!TypeOK, Driver!Runners, Driver!States,
       Driver!InputOK
  <1>14. CASE Driver!Failed
    BY <1>14 DEF Driver!Failed, Driver!TypeOK, Driver!Runners, Driver!States, Driver!InputOK
  <1>15. CASE Driver!TimedOut
    BY <1>15 DEF Driver!TimedOut, Driver!TypeOK, Driver!Runners, Driver!States, Driver!InputOK
  <1>16. CASE Driver!TerminalProgress
    BY <1>16 DEF Driver!TerminalProgress, Driver!TypeOK, Driver!Runners, Driver!States,
       Driver!InputOK
  <1>17. CASE Driver!EndTurn
    BY <1>17 DEF Driver!EndTurn, Driver!TypeOK, Driver!Runners, Driver!States, Driver!InputOK
  <1>18. CASE Driver!OpenFirst
    BY <1>18, OpensFirst DEF Driver!OpenFirst, Driver!Opens, Driver!TypeOK, Driver!Runners,
       Driver!States,
           Driver!InputOK
  <1>19. CASE Driver!ResetDone
    BY <1>19 DEF Driver!ResetDone, Driver!TypeOK, Driver!Runners, Driver!States,
       Driver!InputOK
  <1>20. CASE Driver!Mount
    BY <1>20 DEF Driver!Mount, Driver!TypeOK, Driver!Runners, Driver!States, Driver!InputOK
  <1>21. CASE Driver!TakeAnswer
    BY <1>21 DEF Driver!TakeAnswer, Driver!Opens, Driver!Closed, Driver!TypeOK,
       Driver!Runners,
           Driver!States, Driver!InputOK
  <1>22. CASE Driver!DialogDropped
    BY <1>22 DEF Driver!DialogDropped, Driver!Opens, Driver!Closed, Driver!TypeOK,
       Driver!Runners,
           Driver!States, Driver!InputOK
  <1>23. CASE Driver!LoginReturns
    BY <1>23 DEF Driver!LoginReturns, Driver!Closed, Driver!TypeOK, Driver!Runners,
       Driver!States,
           Driver!InputOK
  <1>24. CASE Driver!HooksPass
    BY <1>24 DEF Driver!HooksPass, Driver!Sending, Driver!TypeOK, Driver!Runners,
       Driver!States,
           Driver!InputOK
  <1>25. CASE Driver!StreamDelta
    <2>1. "update" \in EventKinds
      BY DEF EventKinds
    <2>2. PICK z \in Nat :
            /\ z > 0 /\ DOMAIN events' = DOMAIN events \cup {z}
            /\ \A i \in DOMAIN events : i \in Nat /\ i < z /\ events'[i] = events[i]
            /\ events'[z] = [kind |-> "update", turn |-> runner.turn]
      BY <1>25, <2>1, EmittedOne DEF Driver!StreamDelta
    <2> QED BY <1>25, <2>2 DEF Driver!StreamDelta, Driver!Sending
  <1>26. CASE Driver!StreamEnds
    <2>1. CASE Driver!Emit(<<"end">>) /\ send' = "written"
      <3>1. "end" \in EventKinds
        BY DEF EventKinds
      <3>2. PICK z \in Nat :
              /\ z > 0 /\ DOMAIN events' = DOMAIN events \cup {z}
              /\ \A i \in DOMAIN events : i \in Nat /\ i < z /\ events'[i] = events[i]
              /\ events'[z] = [kind |-> "end", turn |-> runner.turn]
        BY <2>1, <3>1, EmittedOne
      <3> QED BY <1>26, <2>1, <3>2 DEF Driver!StreamEnds, Driver!Sending
    <2>2. CASE Driver!Emit(<<"endError">>) /\ send' = "erred"
      <3>1. "endError" \in EventKinds
        BY DEF EventKinds
      <3>2. PICK z \in Nat :
              /\ z > 0 /\ DOMAIN events' = DOMAIN events \cup {z}
              /\ \A i \in DOMAIN events : i \in Nat /\ i < z /\ events'[i] = events[i]
              /\ events'[z] = [kind |-> "endError", turn |-> runner.turn]
        BY <2>2, <3>1, EmittedOne
      <3> QED BY <1>26, <2>2, <3>2 DEF Driver!StreamEnds, Driver!Sending
    <2>3. CASE Driver!Emit(<<"end", "toolStart">>) /\ send' = "tool"
      <3>1. PICK z \in Nat :
              /\ z > 0 /\ DOMAIN events' = DOMAIN events \cup {z, z + 1}
              /\ \A i \in DOMAIN events : i \in Nat /\ i < z /\ events'[i] = events[i]
              /\ events'[z] = [kind |-> "end", turn |-> runner.turn]
              /\ events'[z + 1] = [kind |-> "toolStart", turn |-> runner.turn]
        BY <2>3, EmittedTwo
      <3> QED BY <1>26, <2>3, <3>1 DEF Driver!StreamEnds, Driver!Sending
    <2> QED BY <1>26, <2>1, <2>2, <2>3 DEF Driver!StreamEnds
  <1>27. CASE Driver!ToolEnds
    <2>1. "toolEnd" \in EventKinds
      BY DEF EventKinds
    <2>2. PICK z \in Nat :
            /\ z > 0 /\ DOMAIN events' = DOMAIN events \cup {z}
            /\ \A i \in DOMAIN events : i \in Nat /\ i < z /\ events'[i] = events[i]
            /\ events'[z] = [kind |-> "toolEnd", turn |-> runner.turn]
      BY <1>27, <2>1, EmittedOne DEF Driver!ToolEnds
    <2> QED BY <1>27, <2>2 DEF Driver!ToolEnds, Driver!Sending
  <1>28. CASE Driver!Apply
    <2>1. events[1].kind \in EventKinds /\ DOMAIN events' \subseteq Nat
      <3>1. events[1] \in Driver!Event /\ events' \in Seq(Driver!Event)
        BY <1>28, Applied, AppliedState
      <3> QED BY <3>1 DEF Driver!Event, EventKinds
    <2>2. /\ \A n : Driver!Dropped(n)' <=> Driver!Dropped(n)
          /\ runner'.at = runner.at /\ runner'.turn = runner.turn /\ send' = send
      BY <1>28, AppliedState
    <2> USE DEF Driver!MessageEnds
    <2> HIDE DEF Driver!Dropped, Driver!Behind
    <2>3. \/ state'.preview = 0 \/ Driver!Dropped(state'.preview)
          \/ state'.preview = Driver!Command /\ runner.at = "running"
          \/ state'.preview = runner.turn /\ send = "partial"
          \/ Driver!Behind(0, Driver!MessageEnds)'
      <3>1. CASE events[1].kind \in {"end", "latched"}
        BY <1>28, <3>1, AppliedState
      <3>2. CASE events[1].kind = "update"
        <4>1. state'.preview = events[1].turn /\ 1 \in DOMAIN events
          BY <1>28, <3>2, Applied, AppliedState
        <4>2. Driver!Behind(1, Driver!MessageEnds) => Driver!Behind(0, Driver!MessageEnds)'
          BY <1>28, <3>2, AppliedBehind
        <4> QED BY <3>2, <4>1, <4>2
      <3>3. CASE events[1].kind \in {"endError", "toolStart", "toolEnd"}
        <4>1. state'.preview = state.preview
          BY <1>28, <3>3, AppliedState
        <4>2. Driver!Behind(0, Driver!MessageEnds) => Driver!Behind(0, Driver!MessageEnds)'
          BY <1>28, <3>3, AppliedBehind
        <4> QED BY <4>1, <4>2
      <3> QED BY <2>1, <3>1, <3>2, <3>3 DEF EventKinds
    <2>4. ASSUME NEW i \in DOMAIN events', events'[i].kind = "update"
          PROVE  \/ Driver!Dropped(events'[i].turn)
                 \/ events'[i].turn = runner.turn /\ send = "partial"
                 \/ Driver!Behind(i, Driver!MessageEnds)'
      <3>1. CASE events[1].kind = "endError"
        <4>1. i \in DOMAIN events /\ events'[i] = events[i] /\ i \in Nat
          BY <1>28, <2>1, <2>4, <3>1, Applied, AppliedState DEF Driver!Event
        <4>2. Driver!Behind(i, Driver!MessageEnds) => Driver!Behind(i, Driver!MessageEnds)'
          BY <1>28, <3>1, <4>1, AppliedBehind
        <4> QED BY <2>4, <4>1, <4>2
      <3>2. CASE events[1].kind # "endError"
        <4>1. i + 1 \in DOMAIN events /\ events'[i] = events[i + 1]
          BY <1>28, <3>2, Applied
        <4>2. i + 1 \in Nat /\ i + 1 # 0 /\ (i + 1) - 1 = i
          BY <2>1
        <4>3. Driver!Behind(i + 1, Driver!MessageEnds) => Driver!Behind(i, Driver!MessageEnds)'
          BY <1>28, <3>2, <4>2, AppliedBehind
        <4> QED BY <2>4, <4>1, <4>3
      <3> QED BY <3>1, <3>2
    <2> QED BY <2>2, <2>3, <2>4
  <1>29. CASE Driver!SendSubmit \/ Driver!CopyLastMessage \/ Driver!MarkCancelled \/
             Driver!CancelToken \/ Driver!RaiseDone \/ Driver!CheckDone \/ Driver!OtherKey
    <2>1. /\ runner'.at = runner.at /\ ended' = ended /\ events' = events
          /\ state'.preview = state.preview /\ send' = send /\ runner'.turn = runner.turn
      BY <1>29 DEF Driver!SendSubmit, Driver!CopyLastMessage, Driver!MarkCancelled,
           Driver!CancelToken, Driver!RaiseDone, Driver!CheckDone, Driver!OtherKey,
           Driver!TypeOK, Driver!Runners, Driver!States
    <2> QED BY <2>1
  <1> QED
    BY <1>1, <1>2, <1>3, <1>4, <1>5, <1>6, <1>7, <1>8, <1>9, <1>10, <1>11, <1>12, <1>13,
       <1>14, <1>15, <1>16, <1>17, <1>18, <1>19, <1>20, <1>21, <1>22, <1>23, <1>24, <1>25,
       <1>26, <1>27, <1>28, <1>29
       DEF Driver!Next, Driver!Input, Driver!Runner, Driver!Ends, Driver!Send

LEMMA ToolsCloseKept ==
  ASSUME Driver!TypeOK, Driver!TypeOK', Driver!ToolsClose, Driver!TurnsEnded, Driver!Next
  PROVE  Driver!ToolsClose'
  <1> USE DEF Driver!At, Driver!Goto, Driver!Free, Driver!turnVars, Driver!uiVars,
              Driver!history, Driver!ToolsClose, Driver!Dropped, Driver!EndBehind,
              Driver!TurnsEnded, Driver!InFlight
  <1>1. ASSUME NEW work \in SubmitKinds, Driver!Submit(work) PROVE Driver!ToolsClose'
    BY <1>1 DEF Driver!Submit, Driver!TypeOK, Driver!Runners, Driver!States, Driver!InputOK
  <1>2. ASSUME NEW a \in Driver!Outcomes, Driver!Answer(a) PROVE Driver!ToolsClose'
    BY <1>2 DEF Driver!Answer, Driver!TypeOK, Driver!Runners, Driver!States, Driver!InputOK
  <1>3. CASE Driver!Quit
    BY <1>3 DEF Driver!Quit, Driver!Nowhere, Driver!Fresh
  <1>4. CASE Driver!ResetLatches
    <2>1. /\ runner.at = "turn" /\ events' = events /\ send' = send /\ ended' = ended
          /\ state'.pendingTools = state.pendingTools
      BY <1>4 DEF Driver!ResetLatches, Driver!TypeOK, Driver!States
    <2>2. send = "none"
      BY <2>1
    <2>3. /\ \A n : Driver!Dropped(n)' <=> Driver!Dropped(n)
          /\ \A i, n : Driver!EndBehind(i, n)' <=> Driver!EndBehind(i, n)
      BY <2>1
    <2> HIDE DEF Driver!Dropped, Driver!EndBehind
    <2> QED BY <2>1, <2>2, <2>3
  <1>5. CASE Driver!BeginTurn
    BY <1>5 DEF Driver!BeginTurn, Driver!TypeOK, Driver!Runners, Driver!States, Driver!InputOK
  <1>6. CASE Driver!Completed
    BY <1>6 DEF Driver!Completed, Driver!TypeOK, Driver!Runners, Driver!States, Driver!InputOK
  <1>7. CASE Driver!Failed
    BY <1>7 DEF Driver!Failed, Driver!TypeOK, Driver!Runners, Driver!States, Driver!InputOK
  <1>8. CASE Driver!TimedOut
    BY <1>8 DEF Driver!TimedOut, Driver!TypeOK, Driver!Runners, Driver!States, Driver!InputOK
  <1>9. CASE Driver!HooksPass
    BY <1>9 DEF Driver!HooksPass, Driver!Sending, Driver!TypeOK, Driver!Runners,
       Driver!States,
           Driver!InputOK
  <1>10. CASE Driver!StreamDelta
    <2>1. "update" \in EventKinds
      BY DEF EventKinds
    <2>2. PICK z \in Nat :
            /\ z > 0 /\ DOMAIN events' = DOMAIN events \cup {z}
            /\ \A i \in DOMAIN events : i \in Nat /\ i < z /\ events'[i] = events[i]
            /\ events'[z] = [kind |-> "update", turn |-> runner.turn]
      BY <1>10, <2>1, EmittedOne DEF Driver!StreamDelta
    <2> QED BY <1>10, <2>2 DEF Driver!StreamDelta, Driver!Sending
  <1>11. CASE Driver!StreamEnds
    <2>1. CASE Driver!Emit(<<"end">>) /\ send' = "written"
      <3>1. "end" \in EventKinds
        BY DEF EventKinds
      <3>2. PICK z \in Nat :
              /\ z > 0 /\ DOMAIN events' = DOMAIN events \cup {z}
              /\ \A i \in DOMAIN events : i \in Nat /\ i < z /\ events'[i] = events[i]
              /\ events'[z] = [kind |-> "end", turn |-> runner.turn]
        BY <2>1, <3>1, EmittedOne
      <3> QED BY <1>11, <2>1, <3>2 DEF Driver!StreamEnds, Driver!Sending
    <2>2. CASE Driver!Emit(<<"endError">>) /\ send' = "erred"
      <3>1. "endError" \in EventKinds
        BY DEF EventKinds
      <3>2. PICK z \in Nat :
              /\ z > 0 /\ DOMAIN events' = DOMAIN events \cup {z}
              /\ \A i \in DOMAIN events : i \in Nat /\ i < z /\ events'[i] = events[i]
              /\ events'[z] = [kind |-> "endError", turn |-> runner.turn]
        BY <2>2, <3>1, EmittedOne
      <3> QED BY <1>11, <2>2, <3>2 DEF Driver!StreamEnds, Driver!Sending
    <2>3. CASE Driver!Emit(<<"end", "toolStart">>) /\ send' = "tool"
      <3>1. PICK z \in Nat :
              /\ z > 0 /\ DOMAIN events' = DOMAIN events \cup {z, z + 1}
              /\ \A i \in DOMAIN events : i \in Nat /\ i < z /\ events'[i] = events[i]
              /\ events'[z] = [kind |-> "end", turn |-> runner.turn]
              /\ events'[z + 1] = [kind |-> "toolStart", turn |-> runner.turn]
        BY <2>3, EmittedTwo
      <3> QED BY <1>11, <2>3, <3>1 DEF Driver!StreamEnds, Driver!Sending
    <2> QED BY <1>11, <2>1, <2>2, <2>3 DEF Driver!StreamEnds
  <1>12. CASE Driver!ToolEnds
    <2>1. "toolEnd" \in EventKinds
      BY DEF EventKinds
    <2>2. PICK z \in Nat :
            /\ z > 0 /\ DOMAIN events' = DOMAIN events \cup {z}
            /\ \A i \in DOMAIN events : i \in Nat /\ i < z /\ events'[i] = events[i]
            /\ events'[z] = [kind |-> "toolEnd", turn |-> runner.turn]
      BY <1>12, <2>1, EmittedOne DEF Driver!ToolEnds
    <2> QED BY <1>12, <2>2 DEF Driver!ToolEnds, Driver!Sending
  <1>13. CASE Driver!Apply
    <2>1. events[1].kind \in EventKinds /\ DOMAIN events' \subseteq Nat
      <3>1. events[1] \in Driver!Event /\ events' \in Seq(Driver!Event)
        BY <1>13, Applied, AppliedState
      <3> QED BY <3>1 DEF Driver!Event, EventKinds
    <2>2. /\ \A n : Driver!Dropped(n)' <=> Driver!Dropped(n)
          /\ runner'.turn = runner.turn /\ send' = send
      BY <1>13, AppliedState
    <2> HIDE DEF Driver!Dropped, Driver!EndBehind
    <2>3. ASSUME NEW n \in state'.pendingTools
          PROVE  Driver!Dropped(n) \/ (n = runner.turn /\ send = "tool") \/ Driver!EndBehind(0, n)'
      <3>1. CASE events[1].kind = "toolStart" /\ n = events[1].turn
        <4>1. 1 \in DOMAIN events
          BY <1>13, Applied
        <4>2. Driver!EndBehind(1, n) => Driver!EndBehind(0, n)'
          BY <1>13, <3>1, AppliedEndBehind
        <4> QED BY <3>1, <4>1, <4>2
      <3>2. CASE ~(events[1].kind = "toolStart" /\ n = events[1].turn)
        <4>1. n \in state.pendingTools /\ (events[1].kind # "toolEnd" \/ events[1].turn # n)
          BY <1>13, <2>3, <3>2, AppliedState
        <4>2. Driver!EndBehind(0, n) => Driver!EndBehind(0, n)'
          BY <1>13, <4>1, AppliedEndBehind
        <4> QED BY <4>1, <4>2
      <3> QED BY <3>1, <3>2
    <2>4. ASSUME NEW i \in DOMAIN events', events'[i].kind = "toolStart"
          PROVE  \/ Driver!Dropped(events'[i].turn)
                 \/ events'[i].turn = runner.turn /\ send = "tool"
                 \/ Driver!EndBehind(i, events[i].turn)'
      <3>1. CASE events[1].kind = "endError"
        <4>1. i \in DOMAIN events /\ events'[i] = events[i] /\ i \in Nat
          BY <1>13, <2>1, <2>4, <3>1, Applied, AppliedState DEF Driver!Event
        <4>2. PICK n : n = events'[i].turn
          OBVIOUS
        <4>3. Driver!EndBehind(i, n) => Driver!EndBehind(i, n)'
          BY <1>13, <3>1, <4>1, AppliedEndBehind
        <4>4. Driver!EndBehind(i, n)' => Driver!EndBehind(i, events[i].turn)'
          BY <4>2 DEF Driver!EndBehind
        <4> QED BY <2>4, <4>1, <4>2, <4>3, <4>4
      <3>2. CASE events[1].kind # "endError"
        <4>1. i + 1 \in DOMAIN events /\ events'[i] = events[i + 1]
          BY <1>13, <3>2, Applied
        <4>2. i + 1 \in Nat /\ i + 1 # 0 /\ (i + 1) - 1 = i
          BY <2>1
        <4>3. PICK n : n = events'[i].turn
          OBVIOUS
        <4>4. Driver!EndBehind(i + 1, n) => Driver!EndBehind(i, n)'
          BY <1>13, <3>2, <4>2, AppliedEndBehind
        <4>5. Driver!EndBehind(i, n)' => Driver!EndBehind(i, events[i].turn)'
          BY <4>3 DEF Driver!EndBehind
        <4> QED BY <2>4, <4>1, <4>3, <4>4, <4>5
      <3> QED BY <3>1, <3>2
    <2> QED BY <2>2, <2>3, <2>4
  <1>14. CASE Driver!SendSubmit \/ Driver!CopyLastMessage \/ Driver!MarkCancelled \/
             Driver!CancelToken \/ Driver!RaiseDone \/ Driver!CheckDone \/ Driver!OtherKey
    <2>1. /\ ended' = ended /\ events' = events /\ state'.pendingTools = state.pendingTools
          /\ send' = send /\ runner'.turn = runner.turn
      BY <1>14 DEF Driver!SendSubmit, Driver!CopyLastMessage, Driver!MarkCancelled,
           Driver!CancelToken, Driver!RaiseDone, Driver!CheckDone, Driver!OtherKey,
           Driver!TypeOK, Driver!Runners, Driver!States
    <2> QED BY <2>1
  <1>15. CASE Driver!Take \/ Driver!RunSlash \/ Driver!RunEmptyBash \/ Driver!RunBash \/
             Driver!BashEnds \/ Driver!RunCompact \/ Driver!CompactEnds
    <2>1. /\ ended' = ended /\ events' = events /\ state'.pendingTools = state.pendingTools
          /\ send' = send /\ runner'.turn = runner.turn
      BY <1>15 DEF Driver!Take, Driver!RunSlash, Driver!RunEmptyBash, Driver!RunBash,
           Driver!BashEnds, Driver!RunCompact, Driver!CompactEnds, Driver!TypeOK,
           Driver!Runners, Driver!States
    <2> QED BY <2>1
  <1>16. CASE Driver!TerminalProgress \/ Driver!EndTurn \/ Driver!OpenFirst \/ Driver!ResetDone \/
             Driver!Mount \/ Driver!TakeAnswer \/ Driver!DialogDropped
    <2>1. /\ ended' = ended /\ events' = events /\ state'.pendingTools = state.pendingTools
          /\ send' = send /\ runner'.turn = runner.turn
      BY <1>16, DialogMoves DEF Driver!TerminalProgress, Driver!EndTurn, Driver!OpenFirst,
           Driver!ResetDone, Driver!Mount, Driver!TakeAnswer, Driver!DialogDropped,
           Driver!TypeOK, Driver!Runners, Driver!States
    <2> QED BY <2>1
  <1>17. CASE Driver!LoginReturns
    <2>1. /\ ended' = ended /\ events' = events /\ state'.pendingTools = state.pendingTools
          /\ send' = send /\ runner'.turn = runner.turn
      BY <1>17, DialogMoves DEF Driver!LoginReturns, Driver!TypeOK, Driver!Runners,
           Driver!States
    <2> QED BY <2>1
  <1> QED
    BY <1>1, <1>2, <1>3, <1>4, <1>5, <1>6, <1>7, <1>8, <1>9, <1>10, <1>11, <1>12, <1>13,
       <1>14, <1>15, <1>16, <1>17
       DEF Driver!Next, Driver!Input, Driver!Runner, Driver!Ends, Driver!Send

LEMMA ProgressAgreesKept ==
  ASSUME Driver!TypeOK, Driver!TypeOK', Driver!ProgressAgrees, Driver!TurnsEnded,
         Driver!Next
  PROVE  Driver!ProgressAgrees'
  <1> USE DEF Driver!At, Driver!Goto, Driver!Free, Driver!turnVars, Driver!uiVars,
              Driver!history, Driver!ProgressAgrees, Driver!LastEnded, Driver!Behind,
              Driver!TurnsEnded, Driver!InFlight
  <1>1. ASSUME NEW work \in SubmitKinds, Driver!Submit(work) PROVE Driver!ProgressAgrees'
    BY <1>1 DEF Driver!Submit, Driver!TypeOK, Driver!Runners, Driver!States, Driver!InputOK
  <1>2. ASSUME NEW a \in Driver!Outcomes, Driver!Answer(a) PROVE Driver!ProgressAgrees'
    BY <1>2 DEF Driver!Answer, Driver!TypeOK, Driver!Runners, Driver!States, Driver!InputOK
  <1>3. CASE Driver!Quit
    BY <1>3 DEF Driver!Quit, Driver!Nowhere, Driver!Fresh
  <1>4. CASE Driver!Take
    BY <1>4, Takes DEF Driver!Take, Driver!Work, Driver!TypeOK, Driver!Runners,
       Driver!States, Driver!InputOK
  <1>5. CASE Driver!RunSlash
    BY <1>5 DEF Driver!RunSlash, Driver!TypeOK, Driver!Runners, Driver!States, Driver!InputOK
  <1>6. CASE Driver!RunEmptyBash
    BY <1>6 DEF Driver!RunEmptyBash, Driver!TypeOK, Driver!Runners, Driver!States,
       Driver!InputOK
  <1>7. CASE Driver!RunBash
    BY <1>7 DEF Driver!RunBash, Driver!TypeOK, Driver!Runners, Driver!States, Driver!InputOK
  <1>8. CASE Driver!BashEnds
    BY <1>8 DEF Driver!BashEnds, Driver!TypeOK, Driver!Runners, Driver!States, Driver!InputOK
  <1>9. CASE Driver!RunCompact
    BY <1>9 DEF Driver!RunCompact, Driver!TypeOK, Driver!Runners, Driver!States,
       Driver!InputOK
  <1>10. CASE Driver!CompactEnds
    BY <1>10 DEF Driver!CompactEnds, Driver!TypeOK, Driver!Runners, Driver!States,
       Driver!InputOK
  <1>11. CASE Driver!ResetLatches
    BY <1>11 DEF Driver!ResetLatches, Driver!TypeOK, Driver!Runners, Driver!States,
       Driver!InputOK
  <1>12. CASE Driver!BeginTurn
    BY <1>12 DEF Driver!BeginTurn, Driver!TypeOK, Driver!Runners, Driver!States,
       Driver!InputOK
  <1>13. CASE Driver!Completed
    BY <1>13 DEF Driver!Completed, Driver!TypeOK, Driver!Runners, Driver!States,
       Driver!InputOK
  <1>14. CASE Driver!Failed
    BY <1>14 DEF Driver!Failed, Driver!TypeOK, Driver!Runners, Driver!States, Driver!InputOK
  <1>15. CASE Driver!TimedOut
    BY <1>15 DEF Driver!TimedOut, Driver!TypeOK, Driver!Runners, Driver!States, Driver!InputOK
  <1>16. CASE Driver!TerminalProgress
    <2>1. runner.at \in {"clear", "error"} /\ runner'.at = "end" /\ UNCHANGED <<events, send, ended>>
      BY <1>16 DEF Driver!TerminalProgress, Driver!TypeOK, Driver!Runners
    <2>2. state'.progress = IF state.turnError \/ runner.at = "error" THEN "error" ELSE "clear"
      BY <1>16 DEF Driver!TerminalProgress, Driver!TypeOK, Driver!States
    <2> QED BY <2>1, <2>2
  <1>17. CASE Driver!EndTurn
    BY <1>17 DEF Driver!EndTurn, Driver!TypeOK, Driver!Runners, Driver!States, Driver!InputOK
  <1>18. CASE Driver!OpenFirst
    BY <1>18, OpensFirst DEF Driver!OpenFirst, Driver!Opens, Driver!TypeOK, Driver!Runners,
       Driver!States,
           Driver!InputOK
  <1>19. CASE Driver!ResetDone
    BY <1>19 DEF Driver!ResetDone, Driver!TypeOK, Driver!Runners, Driver!States,
       Driver!InputOK
  <1>20. CASE Driver!Mount
    BY <1>20 DEF Driver!Mount, Driver!TypeOK, Driver!Runners, Driver!States, Driver!InputOK
  <1>21. CASE Driver!TakeAnswer
    BY <1>21 DEF Driver!TakeAnswer, Driver!Opens, Driver!Closed, Driver!TypeOK,
       Driver!Runners,
           Driver!States, Driver!InputOK
  <1>22. CASE Driver!DialogDropped
    BY <1>22 DEF Driver!DialogDropped, Driver!Opens, Driver!Closed, Driver!TypeOK,
       Driver!Runners,
           Driver!States, Driver!InputOK
  <1>23. CASE Driver!LoginReturns
    BY <1>23 DEF Driver!LoginReturns, Driver!Closed, Driver!TypeOK, Driver!Runners,
       Driver!States,
           Driver!InputOK
  <1>24. CASE Driver!HooksPass
    BY <1>24 DEF Driver!HooksPass, Driver!Sending, Driver!TypeOK, Driver!Runners,
       Driver!States,
           Driver!InputOK
  <1>25. CASE Driver!StreamDelta
    <2>1. "update" \in EventKinds
      BY DEF EventKinds
    <2>2. PICK z \in Nat :
            /\ z > 0 /\ DOMAIN events' = DOMAIN events \cup {z}
            /\ \A i \in DOMAIN events : i \in Nat /\ i < z /\ events'[i] = events[i]
            /\ events'[z] = [kind |-> "update", turn |-> runner.turn]
      BY <1>25, <2>1, EmittedOne DEF Driver!StreamDelta
    <2> QED BY <1>25, <2>2 DEF Driver!StreamDelta, Driver!Sending
  <1>26. CASE Driver!StreamEnds
    <2>1. CASE Driver!Emit(<<"end">>) /\ send' = "written"
      <3>1. "end" \in EventKinds
        BY DEF EventKinds
      <3>2. PICK z \in Nat :
              /\ z > 0 /\ DOMAIN events' = DOMAIN events \cup {z}
              /\ \A i \in DOMAIN events : i \in Nat /\ i < z /\ events'[i] = events[i]
              /\ events'[z] = [kind |-> "end", turn |-> runner.turn]
        BY <2>1, <3>1, EmittedOne
      <3> QED BY <1>26, <2>1, <3>2 DEF Driver!StreamEnds, Driver!Sending
    <2>2. CASE Driver!Emit(<<"endError">>) /\ send' = "erred"
      <3>1. "endError" \in EventKinds
        BY DEF EventKinds
      <3>2. PICK z \in Nat :
              /\ z > 0 /\ DOMAIN events' = DOMAIN events \cup {z}
              /\ \A i \in DOMAIN events : i \in Nat /\ i < z /\ events'[i] = events[i]
              /\ events'[z] = [kind |-> "endError", turn |-> runner.turn]
        BY <2>2, <3>1, EmittedOne
      <3> QED BY <1>26, <2>2, <3>2 DEF Driver!StreamEnds, Driver!Sending
    <2>3. CASE Driver!Emit(<<"end", "toolStart">>) /\ send' = "tool"
      <3>1. PICK z \in Nat :
              /\ z > 0 /\ DOMAIN events' = DOMAIN events \cup {z, z + 1}
              /\ \A i \in DOMAIN events : i \in Nat /\ i < z /\ events'[i] = events[i]
              /\ events'[z] = [kind |-> "end", turn |-> runner.turn]
              /\ events'[z + 1] = [kind |-> "toolStart", turn |-> runner.turn]
        BY <2>3, EmittedTwo
      <3> QED BY <1>26, <2>3, <3>1 DEF Driver!StreamEnds, Driver!Sending
    <2> QED BY <1>26, <2>1, <2>2, <2>3 DEF Driver!StreamEnds
  <1>27. CASE Driver!ToolEnds
    <2>1. "toolEnd" \in EventKinds
      BY DEF EventKinds
    <2>2. PICK z \in Nat :
            /\ z > 0 /\ DOMAIN events' = DOMAIN events \cup {z}
            /\ \A i \in DOMAIN events : i \in Nat /\ i < z /\ events'[i] = events[i]
            /\ events'[z] = [kind |-> "toolEnd", turn |-> runner.turn]
      BY <1>27, <2>1, EmittedOne DEF Driver!ToolEnds
    <2> QED BY <1>27, <2>2 DEF Driver!ToolEnds, Driver!Sending
  <1>28. CASE Driver!Apply
    <2>1. events[1].kind \in EventKinds /\ DOMAIN events' \subseteq Nat
      <3>1. events[1] \in Driver!Event /\ events' \in Seq(Driver!Event)
        BY <1>28, Applied, AppliedState
      <3> QED BY <3>1 DEF Driver!Event, EventKinds
    <2>2. /\ runner'.at = runner.at /\ send' = send
          /\ \A kinds : Driver!LastEnded(kinds)' <=> Driver!LastEnded(kinds)
      BY <1>28, AppliedState
    <2> HIDE DEF Driver!LastEnded, Driver!Behind
    <2>3. /\ state.turnError => state'.turnError
          /\ state.progress = "error" => state'.progress = "error"
          /\ state.progress # "busy" => state'.progress # "busy"
      BY <1>28, AppliedState
    <2>4. Driver!Behind(0, {"endError"}) => state'.turnError \/ Driver!Behind(0, {"endError"})'
      BY <1>28, AppliedState, AppliedBehind
    <2>5. Driver!Behind(0, {"endError", "latched"}) =>
            state'.progress = "error" \/ Driver!Behind(0, {"endError", "latched"})'
      BY <1>28, AppliedState, AppliedBehind
    <2> QED BY <2>2, <2>3, <2>4, <2>5
  <1>29. CASE Driver!SendSubmit \/ Driver!CopyLastMessage \/ Driver!MarkCancelled \/
             Driver!CancelToken \/ Driver!RaiseDone \/ Driver!CheckDone \/ Driver!OtherKey
    <2>1. /\ runner'.at = runner.at /\ ended' = ended /\ events' = events
          /\ state'.progress = state.progress /\ send' = send /\ state'.turnError = state.turnError
      BY <1>29 DEF Driver!SendSubmit, Driver!CopyLastMessage, Driver!MarkCancelled,
           Driver!CancelToken, Driver!RaiseDone, Driver!CheckDone, Driver!OtherKey,
           Driver!TypeOK, Driver!Runners, Driver!States
    <2> QED BY <2>1
  <1> QED
    BY <1>1, <1>2, <1>3, <1>4, <1>5, <1>6, <1>7, <1>8, <1>9, <1>10, <1>11, <1>12, <1>13,
       <1>14, <1>15, <1>16, <1>17, <1>18, <1>19, <1>20, <1>21, <1>22, <1>23, <1>24, <1>25,
       <1>26, <1>27, <1>28, <1>29
       DEF Driver!Next, Driver!Input, Driver!Runner, Driver!Ends, Driver!Send

LEMMA LatchIsOwnKept ==
  ASSUME Driver!TypeOK, Driver!TypeOK', Driver!LatchIsOwn, Driver!TurnsEnded, Driver!Next
  PROVE  Driver!LatchIsOwn'
  <1> USE DEF Driver!At, Driver!Goto, Driver!Free, Driver!turnVars, Driver!uiVars,
              Driver!history, Driver!LatchIsOwn, Driver!TurnsEnded, Driver!InFlight
  <1>1. ASSUME NEW work \in SubmitKinds, Driver!Submit(work) PROVE Driver!LatchIsOwn'
    BY <1>1 DEF Driver!Submit, Driver!TypeOK, Driver!Runners, Driver!States, Driver!InputOK
  <1>2. ASSUME NEW a \in Driver!Outcomes, Driver!Answer(a) PROVE Driver!LatchIsOwn'
    BY <1>2 DEF Driver!Answer, Driver!TypeOK, Driver!Runners, Driver!States, Driver!InputOK
  <1>3. CASE Driver!MarkCancelled
    BY <1>3 DEF Driver!MarkCancelled, Driver!TypeOK, Driver!Runners, Driver!States,
       Driver!InputOK
  <1>4. CASE Driver!Quit
    BY <1>4 DEF Driver!Quit, Driver!Nowhere, Driver!Fresh
  <1>5. CASE Driver!Take
    BY <1>5, Takes DEF Driver!Take, Driver!Work, Driver!TypeOK, Driver!Runners,
       Driver!States, Driver!InputOK
  <1>6. CASE Driver!RunSlash
    BY <1>6 DEF Driver!RunSlash, Driver!TypeOK, Driver!Runners, Driver!States, Driver!InputOK
  <1>7. CASE Driver!RunEmptyBash
    BY <1>7 DEF Driver!RunEmptyBash, Driver!TypeOK, Driver!Runners, Driver!States,
       Driver!InputOK
  <1>8. CASE Driver!RunBash
    BY <1>8 DEF Driver!RunBash, Driver!TypeOK, Driver!Runners, Driver!States, Driver!InputOK
  <1>9. CASE Driver!BashEnds
    BY <1>9 DEF Driver!BashEnds, Driver!TypeOK, Driver!Runners, Driver!States, Driver!InputOK
  <1>10. CASE Driver!RunCompact
    BY <1>10 DEF Driver!RunCompact, Driver!TypeOK, Driver!Runners, Driver!States,
       Driver!InputOK
  <1>11. CASE Driver!CompactEnds
    BY <1>11 DEF Driver!CompactEnds, Driver!TypeOK, Driver!Runners, Driver!States,
       Driver!InputOK
  <1>12. CASE Driver!ResetLatches
    BY <1>12 DEF Driver!ResetLatches, Driver!TypeOK, Driver!Runners, Driver!States,
       Driver!InputOK
  <1>13. CASE Driver!BeginTurn
    BY <1>13 DEF Driver!BeginTurn, Driver!TypeOK, Driver!Runners, Driver!States,
       Driver!InputOK
  <1>14. CASE Driver!Completed
    BY <1>14 DEF Driver!Completed, Driver!TypeOK, Driver!Runners, Driver!States,
       Driver!InputOK
  <1>15. CASE Driver!Failed
    BY <1>15 DEF Driver!Failed, Driver!TypeOK, Driver!Runners, Driver!States, Driver!InputOK
  <1>16. CASE Driver!TimedOut
    BY <1>16 DEF Driver!TimedOut, Driver!TypeOK, Driver!Runners, Driver!States, Driver!InputOK
  <1>17. CASE Driver!TerminalProgress
    BY <1>17 DEF Driver!TerminalProgress, Driver!TypeOK, Driver!Runners, Driver!States,
       Driver!InputOK
  <1>18. CASE Driver!EndTurn
    BY <1>18 DEF Driver!EndTurn, Driver!TypeOK, Driver!Runners, Driver!States, Driver!InputOK
  <1>19. CASE Driver!OpenFirst
    BY <1>19, OpensFirst DEF Driver!OpenFirst, Driver!Opens, Driver!TypeOK, Driver!Runners,
       Driver!States,
           Driver!InputOK
  <1>20. CASE Driver!ResetDone
    BY <1>20 DEF Driver!ResetDone, Driver!TypeOK, Driver!Runners, Driver!States,
       Driver!InputOK
  <1>21. CASE Driver!Mount
    BY <1>21 DEF Driver!Mount, Driver!TypeOK, Driver!Runners, Driver!States, Driver!InputOK
  <1>22. CASE Driver!TakeAnswer
    BY <1>22 DEF Driver!TakeAnswer, Driver!Opens, Driver!Closed, Driver!TypeOK,
       Driver!Runners,
           Driver!States, Driver!InputOK
  <1>23. CASE Driver!DialogDropped
    BY <1>23 DEF Driver!DialogDropped, Driver!Opens, Driver!Closed, Driver!TypeOK,
       Driver!Runners,
           Driver!States, Driver!InputOK
  <1>24. CASE Driver!LoginReturns
    BY <1>24 DEF Driver!LoginReturns, Driver!Closed, Driver!TypeOK, Driver!Runners,
       Driver!States,
           Driver!InputOK
  <1>25. CASE Driver!Apply
    BY <1>25, AppliedState
  <1>26. CASE Driver!SendSubmit \/ Driver!CopyLastMessage \/ Driver!CancelToken \/
             Driver!RaiseDone \/ Driver!CheckDone \/ Driver!OtherKey \/ Driver!HooksPass
    <2>1. /\ runner'.at = runner.at /\ state'.cancelRequested = state.cancelRequested /\ ended' = ended
          /\ pressed' = pressed /\ runner'.turn = runner.turn
      BY <1>26 DEF Driver!SendSubmit, Driver!CopyLastMessage, Driver!CancelToken,
           Driver!RaiseDone, Driver!CheckDone, Driver!OtherKey, Driver!HooksPass,
           Driver!TypeOK, Driver!Runners, Driver!States
    <2> QED BY <2>1
  <1>27. CASE Driver!StreamDelta \/ Driver!StreamEnds \/ Driver!ToolEnds
    <2>1. /\ runner'.at = runner.at /\ state'.cancelRequested = state.cancelRequested /\ ended' = ended
          /\ pressed' = pressed /\ runner'.turn = runner.turn
      BY <1>27 DEF Driver!StreamDelta, Driver!StreamEnds, Driver!ToolEnds, Driver!TypeOK,
           Driver!Runners, Driver!States
    <2> QED BY <2>1
  <1> QED
    BY <1>1, <1>2, <1>3, <1>4, <1>5, <1>6, <1>7, <1>8, <1>9, <1>10, <1>11, <1>12, <1>13,
       <1>14, <1>15, <1>16, <1>17, <1>18, <1>19, <1>20, <1>21, <1>22, <1>23, <1>24, <1>25,
       <1>26, <1>27
       DEF Driver!Next, Driver!Input, Driver!Runner, Driver!Ends, Driver!Send

\* The driver starts with nothing under way.
LEMMA DriverStarts ==
  ASSUME Driver!Init
  PROVE  Driver!TypeOK /\ Driver!DriverInv
  <1> USE DEF Driver!Init, Driver!At
  <1>1. Driver!TypeOK
    <2>1. submits \in Seq(Driver!Work)
      <3>1. CASE submits = <<>>
        BY <3>1, EmptySeq
      <3>2. CASE submits # <<>>
        <4>1. PICK w \in SubmitKinds : submits = <<w>>
          BY <3>2
        <4>2. w \in Driver!Work
          BY FrontEndsAssumption
        <4> HIDE DEF Driver!Init
        <4> QED BY <4>1, <4>2
      <3> QED BY <3>1, <3>2
    <2>2. runner \in Driver!Runners
      BY DEF Driver!Nowhere, Driver!Runners, Driver!Places
    <2>3. state \in Driver!States
      BY DEF Driver!Fresh, Driver!States
    <2>4. Driver!InputOK
      BY DEF Driver!InputOK
    <2>5. events \in Seq(Driver!Event) /\ ended \in Seq(Driver!Endings)
      BY EmptySeq
    <2> QED BY <2>1, <2>2, <2>3, <2>4, <2>5 DEF Driver!TypeOK
  <1>2. runner.at = "recv" /\ runner.turn = 0 /\ Len(ended) = 0 /\ DOMAIN ended = {}
    BY DEF Driver!Nowhere
  <1>3. /\ ~state.streaming /\ state.preview = 0 /\ state.pendingTools = {}
        /\ state.progress = "clear" /\ DOMAIN events = {}
    BY DEF Driver!Fresh
  <1>4. Driver!TurnsEnded /\ Driver!LatchIsOwn
    BY <1>2 DEF Driver!TurnsEnded, Driver!LatchIsOwn, Driver!InFlight
  <1>5. Driver!LoaderIsOwned /\ Driver!OverlayCloses
    BY <1>2, <1>3 DEF Driver!LoaderIsOwned, Driver!OverlayCloses, Driver!Work
  <1>6. Driver!PreviewCloses /\ Driver!ToolsClose
    BY <1>3 DEF Driver!PreviewCloses, Driver!ToolsClose
  <1>7. Driver!ProgressAgrees
    BY <1>2, <1>3 DEF Driver!ProgressAgrees, Driver!LastEnded
  <1> QED BY <1>1, <1>4, <1>5, <1>6, <1>7 DEF Driver!DriverInv

DriverHolds == subject = "driver" => Driver!TypeOK /\ Driver!DriverInv

\* The tasks of the interactive mode keep DriverInv, in every order of their
\* steps (InteractiveDriver).
THEOREM DriverStaysSound == MCSpec => []DriverHolds
  <1>1. MCInit => DriverHolds
    BY DriverStarts DEF MCInit, DriverHolds
  <1>2. ASSUME DriverHolds, [MCNext]_<<subject, vars, slots>> PROVE DriverHolds'
    <2>1. CASE DriverStep
      <3>1. subject = "driver" /\ subject' = subject /\ Driver!Next
        BY <2>1 DEF DriverStep
      <3>2. Driver!TypeOK /\ Driver!DriverInv
        BY <1>2, <3>1 DEF DriverHolds
      <3>3. Driver!TypeOK'
        BY <3>1, <3>2, DriverTypes
      <3>4. Driver!DriverInv'
        <4> USE <3>1, <3>2, <3>3 DEF Driver!DriverInv
        <4>1. Driver!TurnsEnded'
          BY TurnsEndedKept
        <4>2. Driver!LoaderIsOwned'
          BY LoaderIsOwnedKept
        <4>3. Driver!OverlayCloses'
          BY OverlayClosesKept
        <4>4. Driver!PreviewCloses'
          BY PreviewClosesKept
        <4>5. Driver!ToolsClose'
          BY ToolsCloseKept
        <4>6. Driver!ProgressAgrees'
          BY ProgressAgreesKept
        <4>7. Driver!LatchIsOwn'
          BY LatchIsOwnKept
        <4> QED BY <4>1, <4>2, <4>3, <4>4, <4>5, <4>6, <4>7
      <3> QED BY <3>3, <3>4 DEF DriverHolds
    <2>2. CASE RpcStep \/ FramesStep \/ EditorStep \/ WebStep
      BY <2>2 DEF RpcStep, FramesStep, EditorStep, WebStep, DriverHolds
    <2>3. CASE UNCHANGED <<subject, vars, slots>>
      <3>1. UNCHANGED <<subject, slot1, slot2, slot3, slot4, slot5, slot6, slot7, slot8, slot9,
                        slot10, slot11, slot12>>
        BY <2>3 DEF slots, slots1_7, slots8_12, slots9_12
      <3>2. UNCHANGED <<Driver!TypeOK, Driver!DriverInv>>
        BY <3>1 DEF Driver!TypeOK, Driver!InputOK, Driver!DriverInv, Driver!TurnsEnded,
           Driver!LoaderIsOwned, Driver!OverlayCloses, Driver!PreviewCloses, Driver!ToolsClose,
           Driver!ProgressAgrees, Driver!LatchIsOwn, Driver!At, Driver!InFlight, Driver!Closing,
           Driver!Dropped, Driver!Behind, Driver!EndBehind, Driver!LastEnded
      <3> QED BY <1>2, <3>1, <3>2 DEF DriverHolds
    <2> QED BY <1>2, <2>1, <2>2, <2>3 DEF MCNext
  <1> QED BY <1>1, <1>2, PTL DEF MCSpec

\* How a turn ended is on the terminal when all is quiet, and a failure is
\* passed over exactly when the user cancelled that turn.
THEOREM TurnsAreReported == MCSpec => []OutcomeReported
  <1>1. DriverHolds => OutcomeReported
    <2> SUFFICES ASSUME subject = "driver", DriverHolds PROVE Driver!OutcomeReported
      BY DEF OutcomeReported
    <2>1. Driver!TypeOK /\ Driver!ProgressAgrees /\ Driver!LatchIsOwn
      BY DEF DriverHolds, Driver!DriverInv
    <2>2. ASSUME Driver!Quiet, ended # <<>>
          PROVE  /\ state.progress # "busy"
                 /\ ended[Len(ended)] \in {"failed", "timedOut", "inBand"} => state.progress = "error"
      <3>1. runner.at = "recv" /\ \A kinds : ~Driver!Behind(0, kinds)
        BY <2>2 DEF Driver!Quiet, Driver!At, Driver!Behind
      <3> QED BY <2>1, <2>2, <3>1 DEF Driver!ProgressAgrees, Driver!LastEnded
    <2> QED BY <2>1, <2>2 DEF Driver!OutcomeReported, Driver!LatchIsOwn
  <1> QED BY <1>1, DriverStaysSound, PTL

\* When all is quiet nothing of what ran is left behind on the screen.
THEOREM NothingIsLeft == MCSpec => []QuietIsClean
  <1>1. DriverHolds => QuietIsClean
    <2> SUFFICES ASSUME subject = "driver", DriverHolds, Driver!Quiet PROVE Driver!QuietIsClean
      BY DEF QuietIsClean, Driver!QuietIsClean
    <2>1. Driver!TypeOK /\ Driver!DriverInv
      BY DEF DriverHolds
    <2>2. /\ runner.at = "recv" /\ submits = <<>> /\ keyboard.at = "free" /\ send = "none"
          /\ \A kinds : ~Driver!Behind(0, kinds)
          /\ \A n : ~Driver!EndBehind(0, n)
      BY <2>1 DEF Driver!Quiet, Driver!Free, Driver!At, Driver!Behind, Driver!EndBehind,
         Driver!DriverInv, Driver!TurnsEnded
    <2>3. state.streaming => runner.work = "emptyBash"
      BY <2>1, <2>2 DEF Driver!DriverInv, Driver!LoaderIsOwned, Driver!Work
    <2>4. overlay = 0
      BY <2>1, <2>2 DEF Driver!DriverInv, Driver!OverlayCloses, Driver!Closing
    <2>5. state.preview = 0 \/ Driver!Dropped(state.preview)
      BY <2>1, <2>2 DEF Driver!DriverInv, Driver!PreviewCloses, Driver!At
    <2>6. \A n \in state.pendingTools : Driver!Dropped(n)
      BY <2>1, <2>2 DEF Driver!DriverInv, Driver!ToolsClose
    <2> QED BY <2>3, <2>4, <2>5, <2>6 DEF Driver!QuietIsClean, Driver!Dropped
  <1> QED BY <1>1, DriverStaysSound, PTL

----------------------------------------------------------------------------
(* The requests of the web UI. *)

conn      == slot1
sendQueue == slot2
requests  == slot3
up        == slot4
down      == slot5
agent     == slot6
page      == slot7
server    == slot10
seen      == slot11

USE DEF conn, sendQueue, requests, up, down, agent, page, server, seen

\* The frames of a queue.
LEMMA QueueParts ==
  ASSUME NEW K, NEW q, Web!Queue(q, K)
  PROVE  q \in Seq({q[i] : i \in DOMAIN q}) /\ DOMAIN q = 1..Len(q) /\ Len(q) \in Nat
  <1>1. q \in Seq({q[i] : i \in DOMAIN q})
    BY DEF Web!Queue
  <1> QED BY <1>1, Elements

LEMMA QueueMade ==
  ASSUME NEW K, NEW S, NEW q \in Seq(S), \A i \in DOMAIN q : q[i].type \in K
  PROVE  Web!Queue(q, K)
  <1> DEFINE T == {q[i] : i \in DOMAIN q}
  <1>1. DOMAIN q = 1..Len(q) /\ Len(q) \in Nat
    BY Elements
  <1>2. \A i \in 1..Len(q) : q[i] \in T
    BY <1>1
  <1> HIDE DEF T
  <1>3. q \in Seq(T)
    BY <1>1, <1>2
  <1> QED BY <1>3 DEF Web!Queue, T

LEMMA QueueEmpty ==
  ASSUME NEW K
  PROVE  Web!Queue(<<>>, K) /\ \A r : ~Web!Carries(<<>>, r)
  <1>1. <<>> \in Seq({}) /\ DOMAIN <<>> = {}
    BY EmptySeq
  <1> QED BY <1>1, QueueMade DEF Web!Carries

LEMMA QueueOne ==
  ASSUME NEW K, NEW f, f.type \in K
  PROVE  /\ Web!Queue(<<f>>, K)
         /\ \A r : f.type \in {"request", "response"} /\ f.n = r => Web!Carries(<<f>>, r)
  <1>1. <<f>> \in Seq({f}) /\ DOMAIN <<f>> = {1} /\ <<f>>[1] = f
    OBVIOUS
  <1>2. Web!Queue(<<f>>, K)
    BY <1>1, QueueMade
  <1> QED BY <1>1, <1>2 DEF Web!Carries

LEMMA QueueTwo ==
  ASSUME NEW K, NEW f, f.type \in K, NEW g, g.type \in K
  PROVE  Web!Queue(<<f, g>>, K)
  <1>1. /\ <<f, g>> \in Seq({f, g}) /\ DOMAIN <<f, g>> = {1, 2}
        /\ <<f, g>>[1] = f /\ <<f, g>>[2] = g
    OBVIOUS
  <1> QED BY <1>1, QueueMade

LEMMA QueueJoin ==
  ASSUME NEW K, NEW q, NEW p, Web!Queue(q, K), Web!Queue(p, K)
  PROVE  /\ Web!Queue(q \o p, K)
         /\ \A r : Web!Carries(q, r) \/ Web!Carries(p, r) => Web!Carries(q \o p, r)
  <1> DEFINE S == {q[i] : i \in DOMAIN q} \cup {p[i] : i \in DOMAIN p}  z == Len(q)
  <1>1. /\ DOMAIN q = 1..z /\ z \in Nat /\ DOMAIN p = 1..Len(p) /\ Len(p) \in Nat
        /\ \A i \in 1..z : q[i] \in S
        /\ \A i \in 1..Len(p) : p[i] \in S
    BY QueueParts
  <1>2. q \in Seq(S) /\ p \in Seq(S)
    <2> HIDE DEF S
    <2>1. q \in Seq({q[i] : i \in DOMAIN q}) /\ p \in Seq({p[i] : i \in DOMAIN p})
      BY QueueParts
    <2> QED BY <1>1, <2>1
  <1> HIDE DEF S
  <1>3. /\ q \o p \in Seq(S) /\ DOMAIN (q \o p) = 1..(z + Len(p))
        /\ \A i \in 1..z : (q \o p)[i] = q[i]
        /\ \A i \in 1..Len(p) : (q \o p)[z + i] = p[i]
    BY <1>2
  <1> HIDE DEF z
  <1>4. /\ \A i \in 1..z : i \in 1..(z + Len(p))
        /\ \A i \in 1..Len(p) : z + i \in 1..(z + Len(p))
        /\ \A i \in 1..(z + Len(p)) : i \in 1..z \/ \E j \in 1..Len(p) : i = z + j
    <2>1. \A i \in 1..(z + Len(p)) : i \in 1..z \/ (i - z \in 1..Len(p) /\ i = z + (i - z))
      BY <1>1
    <2> QED BY <1>1, <2>1
  <1>5. \A i \in DOMAIN (q \o p) : (q \o p)[i].type \in K
    BY <1>1, <1>3, <1>4 DEF Web!Queue
  <1>6. Web!Queue(q \o p, K)
    BY <1>3, <1>5, QueueMade
  <1>7. ASSUME NEW r, Web!Carries(q, r) \/ Web!Carries(p, r) PROVE Web!Carries(q \o p, r)
    BY <1>1, <1>3, <1>4, <1>7 DEF Web!Carries
  <1> QED BY <1>6, <1>7

LEMMA QueueAppend ==
  ASSUME NEW K, NEW q, NEW f, Web!Queue(q, K), f.type \in K
  PROVE  /\ Web!Queue(Append(q, f), K)
         /\ \A r : Web!Carries(q, r) => Web!Carries(Append(q, f), r)
         /\ \A r : f.type \in {"request", "response"} /\ f.n = r => Web!Carries(Append(q, f), r)
  <1>1. Append(q, f) = q \o <<f>>
    BY QueueParts
  <1>2. Web!Queue(<<f>>, K)
    BY QueueOne
  <1>3. \A r : f.type \in {"request", "response"} /\ f.n = r => Web!Carries(<<f>>, r)
    BY QueueOne
  <1> QED BY <1>1, <1>2, <1>3, QueueJoin

LEMMA QueueTail ==
  ASSUME NEW K, NEW q, Web!Queue(q, K), q # <<>>
  PROVE  /\ Head(q).type \in K /\ Web!Queue(Tail(q), K)
         /\ \A r : Web!Carries(q, r) =>
              \/ Web!Carries(Tail(q), r)
              \/ Head(q).type \in {"request", "response"} /\ Head(q).n = r
  <1> DEFINE S == {q[i] : i \in DOMAIN q}  n == Len(q) - 1
  <1>1. q \in Seq(S)
    BY QueueParts
  <1> HIDE DEF S
  <1>2. /\ Tail(q) \in Seq(S) /\ Head(q) = q[1] /\ DOMAIN Tail(q) = 1..n
        /\ DOMAIN q = 1..(n + 1) /\ n \in Nat
        /\ \A i \in 1..n : Tail(q)[i] = q[i + 1]
    BY <1>1, TailParts
  <1> HIDE DEF n
  <1>3. /\ 1 \in 1..(n + 1) /\ \A i \in 1..n : i + 1 \in 1..(n + 1)
        /\ \A i \in 1..(n + 1) : i = 1 \/ (i - 1 \in 1..n /\ i = (i - 1) + 1)
    BY <1>2
  <1>4. Head(q).type \in K /\ \A i \in DOMAIN Tail(q) : Tail(q)[i].type \in K
    BY <1>2, <1>3 DEF Web!Queue
  <1>5. Web!Queue(Tail(q), K)
    BY <1>2, <1>4, QueueMade
  <1>6. ASSUME NEW r, Web!Carries(q, r), ~Web!Carries(Tail(q), r)
        PROVE  Head(q).type \in {"request", "response"} /\ Head(q).n = r
    <2>1. PICK i \in 1..(n + 1) : q[i].type \in {"request", "response"} /\ q[i].n = r
      BY <1>2, <1>6 DEF Web!Carries
    <2>2. CASE i = 1
      BY <1>2, <2>1, <2>2
    <2>3. CASE i # 1
      <3>1. i - 1 \in 1..n /\ Tail(q)[i - 1] = q[i]
        BY <1>2, <1>3, <2>3
      <3> QED BY <1>2, <1>6, <2>1, <3>1 DEF Web!Carries
    <2> QED BY <2>2, <2>3
  <1> QED BY <1>4, <1>5, <1>6

\* What the page sends is carried, and so is what was carried before.
LEMMA WebSends ==
  ASSUME Web!WebInv, NEW frames, Web!Queue(frames, Web!UpKinds), Web!Send(frames),
         UNCHANGED <<conn, down, server>>,
         requests' \in [pending : SUBSET Nat, made : Nat],
         \A r \in requests'.pending : r \in requests.pending \/ Web!Carries(frames, r)
  PROVE  Web!WebInv'
  <1> USE DEF Web!WebInv
  <1>1. /\ Web!Queue(sendQueue', Web!UpKinds) /\ Web!Queue(up', Web!UpKinds)
        /\ \A r : Web!Carries(sendQueue, r) => Web!Carries(sendQueue', r)
        /\ \A r : Web!Carries(up, r) => Web!Carries(up', r)
        /\ \A r : Web!Carries(frames, r) =>
             /\ conn.at = "connecting" => Web!Carries(sendQueue', r)
             /\ conn.at = "up" => Web!Carries(up', r)
    BY QueueJoin DEF Web!Send, Web!FramesOK, Web!SocketOK
  <1>2. Web!FramesOK'
    BY <1>1 DEF Web!FramesOK
  <1>3. Web!SocketOK'
    BY DEF Web!SocketOK, Web!Send
  <1>4. Web!RequestsCarried'
    BY <1>1 DEF Web!RequestsCarried
  <1> QED BY <1>2, <1>3, <1>4

\* A step of the server of connection c: a request it no longer defers, or has
\* taken from the socket, it answers.
LEMMA ServerMoves ==
  ASSUME Web!WebInv, NEW c \in Web!Conns, NEW s, server' = [server EXCEPT ![c] = s],
         DOMAIN s = DOMAIN Web!NoServer, Web!Queue(s.deferred, Web!ServedKinds),
         c = conn.n /\ conn.at = "up" => ~s.eof,
         NEW frames, Web!Queue(frames, Web!DownKinds),
         Web!Emit(c, frames) \/ (frames = <<>> /\ UNCHANGED down),
         Web!Queue(up', Web!UpKinds), c # conn.n => up' = up,
         \A r : c = conn.n /\ conn.at = "up" =>
              (Web!Carries(up, r) \/ Web!Carries(server[c].deferred, r) =>
                 Web!Carries(up', r) \/ Web!Carries(s.deferred, r) \/ Web!Carries(frames, r)),
         UNCHANGED <<conn, sendQueue, requests>>
  PROVE  Web!WebInv'
  <1> USE DEF Web!WebInv
  <1>1. /\ Web!Queue(down', Web!DownKinds)
        /\ \A r : Web!Carries(down, r) => Web!Carries(down', r)
        /\ conn.n = c /\ conn.at = "up" =>
             \A r : Web!Carries(frames, r) => Web!Carries(down', r)
    <2>1. CASE Web!Emit(c, frames)
      BY <2>1, QueueJoin DEF Web!Emit, Web!FramesOK
    <2>2. CASE frames = <<>> /\ UNCHANGED down
      BY <2>2, QueueEmpty DEF Web!FramesOK
    <2> QED BY <2>1, <2>2
  <1>2. /\ DOMAIN server' = Web!Conns /\ server'[c] = s
        /\ \A d \in Web!Conns : d # c => server'[d] = server[d]
    BY DEF Web!FramesOK
  <1>3. Web!FramesOK'
    BY <1>1, <1>2 DEF Web!FramesOK
  <1>4. Web!SocketOK'
    BY <1>2 DEF Web!SocketOK
  <1>5. Web!RequestsCarried'
    <2>1. ASSUME NEW r \in requests.pending, conn.at = "up"
          PROVE  Web!Carries(up', r) \/ Web!Carries(down', r) \/ Web!Carries(server'[conn.n].deferred, r)
      <3>1. /\ conn.n \in Web!Conns
            /\ Web!Carries(up, r) \/ Web!Carries(down, r) \/ Web!Carries(server[conn.n].deferred, r)
        BY <2>1 DEF Web!RequestsCarried, Web!SocketOK
      <3>2. CASE c = conn.n
        BY <1>1, <1>2, <2>1, <3>1, <3>2
      <3>3. CASE c # conn.n
        BY <1>1, <1>2, <3>1, <3>3
      <3> QED BY <3>2, <3>3
    <2> QED BY <2>1 DEF Web!RequestsCarried
  <1> QED BY <1>3, <1>4, <1>5

\* What a command of the dispatcher changes.
LEMMA WebServes ==
  ASSUME Web!WebInv, NEW c \in Web!Conns, NEW f, f.type \in Web!ServedKinds,
         NEW s, DOMAIN s = DOMAIN Web!NoServer, Web!Serve(c, f, s)
  PROVE  \E t, frames :
           /\ server' = [server EXCEPT ![c] = t] /\ UNCHANGED <<conn, sendQueue, requests>>
           /\ DOMAIN t = DOMAIN Web!NoServer /\ t.deferred = s.deferred /\ t.eof = s.eof
           /\ Web!Queue(frames, Web!DownKinds) /\ Web!Emit(c, frames)
           /\ \A r : f.type \in {"request", "response"} /\ f.n = r => Web!Carries(frames, r)
  <1> USE DEF Web!Becomes, Web!browser
  <1> DEFINE Does(t, frames) ==
           /\ server' = [server EXCEPT ![c] = t] /\ UNCHANGED <<conn, sendQueue, requests>>
           /\ DOMAIN t = DOMAIN Web!NoServer /\ t.deferred = s.deferred /\ t.eof = s.eof
           /\ Web!Queue(frames, Web!DownKinds) /\ Web!Emit(c, frames)
           /\ \A r : f.type \in {"request", "response"} /\ f.n = r => Web!Carries(frames, r)
  <1>1. CASE f.type = "prompt"
    <2> DEFINE t == [s EXCEPT !.at = "model", !.run = f.n, !.k = 1, !.cancelled = FALSE,
                              !.context = Append(@, Web!User(f.n)), !.new = <<Web!User(f.n)>>]
               frames == <<Web!Frame("agent_start", 0), Web!Frame("message", f.n)>>
    <2>1. DOMAIN t = DOMAIN Web!NoServer /\ t.deferred = s.deferred /\ t.eof = s.eof
      OBVIOUS
    <2>2. Web!Queue(frames, Web!DownKinds)
      <3>1. frames \in Seq({frames[1], frames[2]}) /\ DOMAIN frames = {1, 2}
        OBVIOUS
      <3>2. \A i \in DOMAIN frames : frames[i].type \in Web!DownKinds
        BY <3>1 DEF Web!Frame, Web!DownKinds
      <3> HIDE DEF frames
      <3> QED BY <3>1, <3>2, QueueMade
    <2>3. server' = [server EXCEPT ![c] = t] /\ UNCHANGED <<conn, sendQueue, requests>>
          /\ Web!Emit(c, frames)
      BY <1>1 DEF Web!Serve
    <2> HIDE DEF t, frames
    <2>4. Does(t, frames)
      BY <1>1, <2>1, <2>2, <2>3
    <2> QED BY <2>4
  <1>2. CASE f.type = "request"
    <2> DEFINE a == Web!Frame("response", f.n)
    <2>1. a.type = "response" /\ a.n = f.n /\ a.type \in Web!DownKinds
      BY DEF Web!Frame, Web!DownKinds
    <2>2. server' = [server EXCEPT ![c] = s] /\ UNCHANGED <<conn, sendQueue, requests>>
          /\ Web!Emit(c, <<a>>)
      BY <1>2 DEF Web!Serve
    <2> HIDE DEF a
    <2>3. Web!Queue(<<a>>, Web!DownKinds)
      BY <2>1, QueueOne
    <2>4. \A r : a.n = r => Web!Carries(<<a>>, r)
      BY <2>1, QueueOne
    <2>5. Does(s, <<a>>)
      BY <2>1, <2>2, <2>3, <2>4
    <2> QED BY <2>5
  <1>3. CASE f.type = "new_session"
    <2>1. Does([s EXCEPT !.context = <<>>], <<>>)
      BY <1>3, QueueEmpty DEF Web!Serve
    <2> QED BY <2>1
  <1>4. CASE f.type = "set_messages"
    <2>1. Does([s EXCEPT !.context = f.messages], <<>>)
      BY <1>4, QueueEmpty DEF Web!Serve
    <2> QED BY <2>1
  <1>5. CASE f.type = "abort"
    <2>1. Does(s, <<>>)
      BY <1>5, QueueEmpty DEF Web!Serve
    <2> QED BY <2>1
  <1> QED BY <1>1, <1>2, <1>3, <1>4, <1>5 DEF Web!ServedKinds

\* A step of a run leaves alone what is deferred.
LEMMA RunKeeps ==
  ASSUME Web!WebInv, NEW c \in Web!Conns, NEW s, server' = [server EXCEPT ![c] = s],
         DOMAIN s = DOMAIN Web!NoServer, s.deferred = server[c].deferred,
         s.eof = server[c].eof,
         NEW frames, Web!Queue(frames, Web!DownKinds),
         Web!Emit(c, frames) \/ (frames = <<>> /\ UNCHANGED down),
         UNCHANGED <<conn, sendQueue, requests, up>>
  PROVE  Web!WebInv'
  <1>1. /\ Web!Queue(s.deferred, Web!ServedKinds) /\ Web!Queue(up', Web!UpKinds)
        /\ c = conn.n /\ conn.at = "up" => ~s.eof
    BY DEF Web!WebInv, Web!FramesOK, Web!SocketOK
  <1> QED BY <1>1, ServerMoves

LEMMA WebCarries ==
  ASSUME Web!WebInv, Web!Next
  PROVE  Web!WebInv'
  <1> USE DEF Web!browser, Web!store, Web!Counted
  <1>0. /\ conn \in [n : Nat, at : {"connecting", "up", "lost"}, open : BOOLEAN]
        /\ requests \in [pending : SUBSET Nat, made : Nat]
        /\ DOMAIN server = Web!Conns
        /\ \A c \in Web!Conns : DOMAIN server[c] = DOMAIN Web!NoServer
    BY DEF Web!WebInv, Web!FramesOK
  <1>1. CASE Web!Opens
    <2>1. /\ conn' = [n |-> conn.n + 1, at |-> "up", open |-> TRUE] /\ conn.at = "connecting"
          /\ server' = [server EXCEPT ![conn.n + 1] = Web!Built]
          /\ up' = sendQueue /\ sendQueue' = <<>> /\ down' = <<>> /\ requests' = requests
      BY <1>1 DEF Web!Opens
    <2>2. conn.n + 1 \in Web!Conns /\ conn.n + 1 \in Nat
      BY <1>0, <1>1, FrontEndsAssumption DEF Web!Opens, Web!Conns
    <2>3. /\ DOMAIN Web!Built = DOMAIN Web!NoServer /\ Web!Built.deferred = <<>>
          /\ ~Web!Built.eof
      BY DEF Web!Built, Web!NoServer
    <2>4. Web!FramesOK'
      BY <2>1, <2>2, <2>3, QueueEmpty DEF Web!WebInv, Web!FramesOK
    <2>5. Web!SocketOK'
      BY <1>0, <2>1, <2>2, <2>3 DEF Web!SocketOK
    <2>6. Web!RequestsCarried'
      BY <2>1 DEF Web!WebInv, Web!RequestsCarried
    <2> QED BY <2>4, <2>5, <2>6 DEF Web!WebInv
  <1>2. CASE Web!Drops
    <2>1. /\ conn' = [conn EXCEPT !.at = "lost"] /\ conn.at = "up" /\ up' = <<>> /\ down' = <<>>
          /\ server' = [server EXCEPT ![conn.n] = [@ EXCEPT !.eof = TRUE]]
          /\ UNCHANGED <<requests, sendQueue>>
      BY <1>2 DEF Web!Drops
    <2>2. /\ DOMAIN server' = Web!Conns
          /\ \A c \in Web!Conns : /\ DOMAIN server'[c] = DOMAIN Web!NoServer
                                  /\ server'[c].deferred = server[c].deferred
      BY <1>0, <2>1
    <2>3. conn'.at = "lost" /\ conn'.open = conn.open /\ conn'.n = conn.n
      BY <1>0, <2>1
    <2>4. Web!FramesOK'
      BY <1>0, <2>1, <2>2, QueueEmpty DEF Web!WebInv, Web!FramesOK
    <2>5. Web!SocketOK' /\ Web!RequestsCarried'
      BY <2>1, <2>3 DEF Web!WebInv, Web!SocketOK, Web!RequestsCarried
    <2> QED BY <2>4, <2>5 DEF Web!WebInv
  <1>3. CASE Web!NoticesLoss \/ Web!ConnectFails
    <2>1. /\ conn' = [conn EXCEPT !.at = "connecting", !.open = FALSE]
          /\ requests' = [requests EXCEPT !.pending = {}]
          /\ UNCHANGED <<sendQueue, up, down, server>>
      BY <1>3 DEF Web!NoticesLoss, Web!ConnectFails, Web!Closed
    <2>2. /\ conn'.at = "connecting" /\ ~conn'.open /\ requests'.pending = {}
          /\ conn' \in [n : Nat, at : {"connecting", "up", "lost"}, open : BOOLEAN]
          /\ requests' \in [pending : SUBSET Nat, made : Nat]
      BY <1>0, <2>1
    <2>3. Web!FramesOK'
      BY <2>1, <2>2 DEF Web!WebInv, Web!FramesOK
    <2> QED BY <2>2, <2>3 DEF Web!WebInv, Web!SocketOK, Web!RequestsCarried
  <1>4. CASE Web!Submit \/ Web!Saves
    <2>1. UNCHANGED <<conn, sendQueue, requests, up, down, server>>
      BY <1>4 DEF Web!Submit, Web!Saves
    <2> QED BY <2>1 DEF Web!WebInv, Web!FramesOK, Web!SocketOK, Web!RequestsCarried
  <1>5. CASE Web!RequestTimesOut
    <2>1. PICK r \in requests.pending : requests' = [requests EXCEPT !.pending = @ \ {r}]
      BY <1>5 DEF Web!RequestTimesOut
    <2>2. UNCHANGED <<conn, sendQueue, up, down, server>>
      BY <1>5 DEF Web!RequestTimesOut
    <2>3. /\ requests' \in [pending : SUBSET Nat, made : Nat]
          /\ requests'.pending \subseteq requests.pending
      BY <1>0, <2>1
    <2> QED BY <2>2, <2>3 DEF Web!WebInv, Web!FramesOK, Web!SocketOK, Web!RequestsCarried
  <1>6. CASE Web!Request
    <2> DEFINE f == Web!Frame("request", requests.made + 1)
    <2>1. /\ requests' = [pending |-> requests.pending \cup {requests.made + 1},
                          made |-> requests.made + 1]
          /\ Web!Send(<<f>>) /\ UNCHANGED <<conn, down, server>>
      BY <1>6 DEF Web!Request
    <2>2. f.type = "request" /\ f.type \in Web!UpKinds /\ f.n = requests.made + 1
      BY DEF Web!Frame, Web!UpKinds, Web!ServedKinds
    <2>3. requests' \in [pending : SUBSET Nat, made : Nat]
      BY <1>0, <2>1
    <2> HIDE DEF f
    <2>4. Web!Queue(<<f>>, Web!UpKinds) /\ Web!Carries(<<f>>, requests.made + 1)
      BY <2>2, QueueOne
    <2>5. \A r \in requests'.pending : r \in requests.pending \/ Web!Carries(<<f>>, r)
      BY <2>1, <2>4
    <2> QED BY <2>1, <2>3, <2>4, <2>5, WebSends
  <1>7. ASSUME NEW f, f.type \in Web!UpKinds, Web!Send(<<f>>),
               UNCHANGED <<conn, requests, down, server>>
        PROVE  Web!WebInv'
    <2>1. Web!Queue(<<f>>, Web!UpKinds)
      BY <1>7, QueueOne
    <2> QED BY <1>0, <1>7, <2>1, WebSends
  <1> USE DEF Web!UpKinds, Web!ServedKinds, Web!Frame, Web!WithMessages
  <1>8. CASE Web!Abort
    BY <1>7, <1>8 DEF Web!Abort
  <1>9. CASE Web!NewSession
    BY <1>7, <1>9 DEF Web!NewSession, Web!Shows
  <1>10. ASSUME NEW s \in Web!Sessions, Web!LoadSession(s) PROVE Web!WebInv'
    BY <1>7, <1>10 DEF Web!LoadSession, Web!Shows
  <1>11. ASSUME NEW n \in page.uploading, Web!SendMessage(n) PROVE Web!WebInv'
    BY <1>7, <1>11 DEF Web!SendMessage
  <1>12. ASSUME NEW call \in page.running, Web!ToolDone(call) PROVE Web!WebInv'
    BY <1>7, <1>12 DEF Web!ToolDone
  <1> HIDE DEF Web!UpKinds, Web!ServedKinds, Web!Frame, Web!WithMessages
  <1>13. CASE Web!Receive
    <2> DEFINE f == Head(down)
    <2>1. /\ conn.open /\ down # <<>> /\ down' = Tail(down)
          /\ requests' = IF f.type = "response" THEN [requests EXCEPT !.pending = @ \ {f.n}]
                                                ELSE requests
          /\ UNCHANGED <<conn, sendQueue, up, server>>
      BY <1>13 DEF Web!Receive
    <2> HIDE DEF f
    <2>2. /\ requests' \in [pending : SUBSET Nat, made : Nat]
          /\ requests'.pending \subseteq requests.pending
          /\ f.type = "response" => f.n \notin requests'.pending
      BY <1>0, <2>1
    <2>3. /\ f.type \in Web!DownKinds /\ Web!Queue(Tail(down), Web!DownKinds)
          /\ \A r : Web!Carries(down, r) =>
               \/ Web!Carries(Tail(down), r)
               \/ f.type \in {"request", "response"} /\ f.n = r
      BY <2>1, QueueTail DEF Web!WebInv, Web!FramesOK, f
    <2>4. f.type # "request"
      BY <2>3 DEF Web!DownKinds
    <2>5. Web!FramesOK' /\ Web!SocketOK'
      BY <2>1, <2>2, <2>3 DEF Web!WebInv, Web!FramesOK, Web!SocketOK
    <2>6. Web!RequestsCarried'
      BY <2>1, <2>2, <2>3, <2>4 DEF Web!WebInv, Web!RequestsCarried
    <2> QED BY <2>5, <2>6 DEF Web!WebInv
  <1>14. ASSUME NEW c \in Web!Conns, Web!TakeDeferred(c) PROVE Web!WebInv'
    <2> DEFINE d == server[c].deferred  f == Head(d)
               s == [server[c] EXCEPT !.deferred = Tail(@)]
    <2>1. d # <<>> /\ Web!Serve(c, f, s) /\ up' = up
      BY <1>14 DEF Web!TakeDeferred
    <2>2. DOMAIN s = DOMAIN Web!NoServer /\ s.deferred = Tail(d) /\ s.eof = server[c].eof
      BY <1>0 DEF Web!NoServer
    <2>3. Web!Queue(d, Web!ServedKinds) /\ Web!Queue(up, Web!UpKinds)
      BY DEF Web!WebInv, Web!FramesOK
    <2> HIDE DEF d, f, s
    <2>4. /\ f.type \in Web!ServedKinds /\ Web!Queue(Tail(d), Web!ServedKinds)
          /\ \A r : Web!Carries(d, r) =>
               \/ Web!Carries(Tail(d), r)
               \/ f.type \in {"request", "response"} /\ f.n = r
      BY <2>1, <2>3, QueueTail DEF f
    <2>5. PICK t, frames :
            /\ server' = [server EXCEPT ![c] = t] /\ UNCHANGED <<conn, sendQueue, requests>>
            /\ DOMAIN t = DOMAIN Web!NoServer /\ t.deferred = s.deferred /\ t.eof = s.eof
            /\ Web!Queue(frames, Web!DownKinds) /\ Web!Emit(c, frames)
            /\ \A r : f.type \in {"request", "response"} /\ f.n = r => Web!Carries(frames, r)
      BY <2>1, <2>2, <2>4, WebServes
    <2>6. c = conn.n /\ conn.at = "up" => ~t.eof
      BY <2>2, <2>5 DEF Web!WebInv, Web!SocketOK
    <2>7. \A r : Web!Carries(d, r) => Web!Carries(t.deferred, r) \/ Web!Carries(frames, r)
      BY <2>2, <2>4, <2>5
    <2>8. \A r : Web!Carries(up, r) \/ Web!Carries(server[c].deferred, r) =>
            Web!Carries(up', r) \/ Web!Carries(t.deferred, r) \/ Web!Carries(frames, r)
      BY <2>1, <2>7 DEF d
    <2>9. Web!Queue(t.deferred, Web!ServedKinds) /\ Web!Queue(up', Web!UpKinds)
      BY <2>1, <2>2, <2>3, <2>4, <2>5
    <2> QED BY <2>1, <2>5, <2>6, <2>8, <2>9, ServerMoves
  <1>15. ASSUME NEW c \in Web!Conns, Web!Inbound(c) PROVE Web!WebInv'
    <2> DEFINE f == Head(up)
    <2>1. conn.n = c /\ up # <<>> /\ up' = Tail(up)
      BY <1>15 DEF Web!Inbound
    <2> HIDE DEF f
    <2>2. /\ f.type \in Web!UpKinds /\ Web!Queue(Tail(up), Web!UpKinds)
          /\ \A r : Web!Carries(up, r) =>
               \/ Web!Carries(Tail(up), r)
               \/ f.type \in {"request", "response"} /\ f.n = r
      BY <2>1, QueueTail DEF Web!WebInv, Web!FramesOK, f
    <2>3. /\ Web!Queue(server[c].deferred, Web!ServedKinds)
          /\ conn.at = "up" => ~server[c].eof
      BY <2>1 DEF Web!WebInv, Web!FramesOK, Web!SocketOK
    <2>4. ASSUME f.type # "request", NEW s, server' = [server EXCEPT ![c] = s],
                 DOMAIN s = DOMAIN Web!NoServer, s.deferred = server[c].deferred,
                 s.eof = server[c].eof, Web!Emit(c, <<>>),
                 UNCHANGED <<conn, sendQueue, requests>>
          PROVE  Web!WebInv'
      <3>1. f.type # "response"
        BY <2>2 DEF Web!UpKinds, Web!ServedKinds
      <3> QED BY <2>1, <2>2, <2>3, <2>4, <3>1, QueueEmpty, ServerMoves
    <2>5. CASE f.type = "tool_result"
      <3> DEFINE s == IF f.n \in server[c].hub
                      THEN [server[c] EXCEPT !.hub = @ \ {f.n},
                                             !.got = @ \/ (server[c].at = "tool" /\ f.n = server[c].run)]
                      ELSE server[c]
      <3>1. server' = [server EXCEPT ![c] = s] /\ Web!Emit(c, <<>>)
            /\ UNCHANGED <<conn, sendQueue, requests>>
        BY <1>15, <2>5 DEF Web!Inbound, Web!Resolve, Web!Becomes, f
      <3>2. DOMAIN s = DOMAIN Web!NoServer /\ s.deferred = server[c].deferred /\ s.eof = server[c].eof
        BY <1>0
      <3> HIDE DEF s
      <3> QED BY <2>4, <2>5, <3>1, <3>2
    <2>6. CASE f.type = "abort" /\ Web!Busy(c)
      <3> DEFINE s == [server[c] EXCEPT !.cancelled = TRUE]
      <3>1. server' = [server EXCEPT ![c] = s] /\ Web!Emit(c, <<>>)
            /\ UNCHANGED <<conn, sendQueue, requests>>
        BY <1>15, <2>6 DEF Web!Inbound, Web!Becomes, Web!Busy, Web!Idle, f
      <3>2. DOMAIN s = DOMAIN Web!NoServer /\ s.deferred = server[c].deferred /\ s.eof = server[c].eof
        BY <1>0
      <3> HIDE DEF s
      <3> QED BY <2>4, <2>6, <3>1, <3>2
    <2>7. CASE f.type \notin {"abort", "tool_result"} /\ Web!Busy(c)
      <3> DEFINE s == [server[c] EXCEPT !.deferred = Append(@, f)]
      <3>1. server' = [server EXCEPT ![c] = s] /\ Web!Emit(c, <<>>)
            /\ UNCHANGED <<conn, sendQueue, requests>>
        BY <1>15, <2>7 DEF Web!Inbound, Web!Becomes, Web!Busy, Web!Idle, f
      <3>2. DOMAIN s = DOMAIN Web!NoServer /\ s.deferred = Append(server[c].deferred, f)
            /\ s.eof = server[c].eof
        BY <1>0 DEF Web!NoServer
      <3> HIDE DEF s
      <3>3. f.type \in Web!ServedKinds
        BY <2>2, <2>7 DEF Web!UpKinds
      <3>4. /\ Web!Queue(s.deferred, Web!ServedKinds)
            /\ \A r : Web!Carries(server[c].deferred, r) => Web!Carries(s.deferred, r)
            /\ \A r : f.type \in {"request", "response"} /\ f.n = r => Web!Carries(s.deferred, r)
        BY <2>3, <3>2, <3>3, QueueAppend
      <3> QED BY <2>1, <2>2, <2>3, <3>1, <3>2, <3>4, QueueEmpty, ServerMoves
    <2>8. CASE f.type # "tool_result" /\ ~Web!Busy(c)
      <3>1. Web!Serve(c, f, server[c]) /\ server[c].deferred = <<>>
        BY <1>15, <2>8 DEF Web!Inbound, f
      <3>2. f.type \in Web!ServedKinds
        BY <2>2, <2>8 DEF Web!UpKinds
      <3>3. PICK t, frames :
              /\ server' = [server EXCEPT ![c] = t] /\ UNCHANGED <<conn, sendQueue, requests>>
              /\ DOMAIN t = DOMAIN Web!NoServer /\ t.deferred = server[c].deferred
              /\ t.eof = server[c].eof
              /\ Web!Queue(frames, Web!DownKinds) /\ Web!Emit(c, frames)
              /\ \A r : f.type \in {"request", "response"} /\ f.n = r => Web!Carries(frames, r)
        BY <1>0, <3>1, <3>2, WebServes
      <3>4. \A r : Web!Carries(up, r) => Web!Carries(Tail(up), r) \/ Web!Carries(frames, r)
        BY <2>2, <3>3
      <3> QED BY <2>1, <2>2, <2>3, <3>3, <3>4, ServerMoves
    <2> QED BY <2>5, <2>6, <2>7, <2>8
  <1>16. ASSUME NEW c \in Web!Conns, Web!Exits(c) PROVE Web!WebInv'
    <2> DEFINE s == [Web!NoServer EXCEPT !.at = "gone", !.eof = TRUE]
    <2>1. /\ server[c].eof /\ server' = [server EXCEPT ![c] = s]
          /\ UNCHANGED <<conn, sendQueue, requests, up, down>>
      BY <1>16 DEF Web!Exits
    <2>2. DOMAIN s = DOMAIN Web!NoServer /\ s.deferred = <<>>
      BY DEF Web!NoServer
    <2> HIDE DEF s
    <2>3. ~(c = conn.n /\ conn.at = "up") /\ Web!Queue(up, Web!UpKinds)
      BY <2>1 DEF Web!WebInv, Web!FramesOK, Web!SocketOK
    <2> QED BY <2>1, <2>2, <2>3, QueueEmpty, ServerMoves
  <1>17. ASSUME NEW c \in Web!Conns,
                Web!Register(c) \/ Web!ToolReturns(c) \/ Web!ModelEnds(c)
                  \/ Web!ModelCalls(c) \/ Web!RunFails(c)
         PROVE  Web!WebInv'
    <2>1. \E s : /\ server' = [server EXCEPT ![c] = s] /\ DOMAIN s = DOMAIN Web!NoServer
                 /\ s.deferred = server[c].deferred /\ s.eof = server[c].eof
      <3> DEFINE s == server[c]
                 Does(t) == /\ server' = [server EXCEPT ![c] = t]
                            /\ DOMAIN t = DOMAIN Web!NoServer
                            /\ t.deferred = s.deferred /\ t.eof = s.eof
                 Over(t) == [t EXCEPT !.at = "idle", !.run = 0, !.k = 0, !.new = <<>>,
                                      !.got = FALSE, !.cancelled = FALSE]
                 told == [s EXCEPT !.context = Append(@, Web!Result(s.run)),
                                   !.new = Append(@, Web!Result(s.run)), !.got = FALSE]
      <3>0. DOMAIN s = DOMAIN Web!NoServer
        BY <1>0
      <3> USE DEF Web!Becomes, Web!Ended
      <3>1. CASE Web!Register(c)
        <4>1. Does([s EXCEPT !.at = "tool", !.hub = @ \cup {s.run}])
          BY <3>0, <3>1 DEF Web!Register
        <4> QED BY <4>1
      <3>2. CASE Web!RunFails(c)
        <4>1. Does(Over(s))
          BY <3>0, <3>2 DEF Web!RunFails
        <4> QED BY <4>1
      <3>3. CASE Web!ModelEnds(c)
        <4> DEFINE t == Over(s)  u == [t EXCEPT !.context = Append(@, Web!Answer(s.run, s.k))]
        <4>1. server' = [server EXCEPT ![c] = u]
          BY <3>3 DEF Web!ModelEnds
        <4>2. DOMAIN t = DOMAIN Web!NoServer /\ t.deferred = s.deferred /\ t.eof = s.eof
          BY <3>0
        <4> HIDE DEF t
        <4>3. Does(u)
          BY <4>1, <4>2
        <4> QED BY <4>3
      <3>4. CASE Web!ModelCalls(c)
        <4>1. Does([s EXCEPT !.at = "prepare",
                             !.context = Append(@, Web!Answer(s.run, s.k)),
                             !.new = Append(@, Web!Answer(s.run, s.k))])
          BY <3>0, <3>4 DEF Web!ModelCalls
        <4> QED BY <4>1
      <3>5. CASE Web!ToolReturns(c)
        <4>1. server' = [server EXCEPT ![c] = IF s.cancelled THEN Over(told)
                                              ELSE [told EXCEPT !.at = "model", !.k = 2]]
          BY <3>5 DEF Web!ToolReturns
        <4>2. DOMAIN told = DOMAIN Web!NoServer /\ told.deferred = s.deferred /\ told.eof = s.eof
          BY <3>0
        <4> HIDE DEF told
        <4>3. CASE s.cancelled
          <5>1. Does(Over(told))
            BY <4>1, <4>2, <4>3
          <5> QED BY <5>1
        <4>4. CASE ~s.cancelled
          <5>1. Does([told EXCEPT !.at = "model", !.k = 2])
            BY <4>1, <4>2, <4>4
          <5> QED BY <5>1
        <4> QED BY <4>3, <4>4
      <3> QED BY <1>17, <3>1, <3>2, <3>3, <3>4, <3>5
    <2>2. UNCHANGED <<conn, sendQueue, requests, up>>
      BY <1>17 DEF Web!Register, Web!ToolReturns, Web!ModelEnds, Web!ModelCalls,
         Web!RunFails, Web!Becomes
    <2>3. \E frames : /\ Web!Queue(frames, Web!DownKinds)
                      /\ Web!Emit(c, frames) \/ (frames = <<>> /\ UNCHANGED down)
      <3>1. CASE Web!Register(c) \/ Web!RunFails(c)
        BY <3>1, QueueEmpty DEF Web!Register, Web!RunFails
      <3>2. ASSUME NEW s PROVE Web!TurnEnd(s).type \in Web!DownKinds
        BY DEF Web!TurnEnd, Web!DownKinds
      <3>3. ASSUME NEW ms PROVE Web!AgentEnd(ms).type \in Web!DownKinds
        BY DEF Web!AgentEnd, Web!WithMessages, Web!DownKinds
      <3>4. ASSUME NEW n, NEW type, type \in Web!DownKinds
            PROVE  Web!Frame(type, n).type \in Web!DownKinds
        BY <3>4 DEF Web!Frame
      <3>5. CASE Web!ModelEnds(c)
        BY <3>2, <3>3, <3>5, QueueTwo DEF Web!ModelEnds
      <3>6. CASE Web!ModelCalls(c)
        BY <3>4, <3>6, QueueOne DEF Web!ModelCalls, Web!DownKinds
      <3>7. CASE Web!ToolReturns(c)
        <4> DEFINE s == server[c]  ms == Append(s.new, Web!Result(s.run))
                   first == <<Web!Frame("tool_end", s.run), Web!TurnEnd(s)>>
                   last == IF s.cancelled THEN <<Web!AgentEnd([s EXCEPT !.context = Append(@, Web!Result(s.run)),
                              !.new = Append(@, Web!Result(s.run)), !.got = FALSE].new)>> ELSE <<>>
        <4>1. Web!Emit(c, first \o last)
          BY <3>7 DEF Web!ToolReturns
        <4>2. Web!Queue(first, Web!DownKinds)
          BY <3>2, <3>4, QueueTwo DEF Web!DownKinds
        <4>3. Web!Queue(last, Web!DownKinds)
          BY <3>3, QueueOne, QueueEmpty
        <4> HIDE DEF first, last
        <4> QED BY <4>1, <4>2, <4>3, QueueJoin
      <3> QED BY <1>17, <3>1, <3>5, <3>6, <3>7
    <2> QED BY <2>1, <2>2, <2>3, RunKeeps
  <1> QED
    BY <1>1, <1>2, <1>3, <1>4, <1>5, <1>6, <1>8, <1>9, <1>10, <1>11, <1>12, <1>13, <1>14,
       <1>15, <1>16, <1>17
       DEF Web!Next, Web!Network, Web!Person, Web!Page, Web!Dispatcher

WebHolds == subject = "web" => Web!WebInv

LEMMA WebStays == MCSpec => []WebHolds
  <1>1. MCInit => WebHolds
    <2> SUFFICES ASSUME Web!Init PROVE Web!WebInv
      BY DEF MCInit, WebHolds
    <2>1. /\ conn = [n |-> 0, at |-> "connecting", open |-> FALSE]
          /\ requests = [pending |-> {}, made |-> 0]
          /\ sendQueue = <<>> /\ up = <<>> /\ down = <<>>
          /\ server = [c \in Web!Conns |-> Web!NoServer]
      BY DEF Web!Init
    <2>2. Web!NoServer.deferred = <<>>
      BY DEF Web!NoServer
    <2>3. Web!FramesOK
      BY <2>1, <2>2, QueueEmpty DEF Web!FramesOK
    <2> QED BY <2>1, <2>3 DEF Web!WebInv, Web!SocketOK, Web!RequestsCarried
  <1>2. ASSUME WebHolds, [MCNext]_<<subject, vars, slots>> PROVE WebHolds'
    <2>1. CASE WebStep
      BY <1>2, <2>1, WebCarries DEF WebStep, WebHolds
    <2>2. CASE RpcStep \/ DriverStep \/ FramesStep \/ EditorStep
      BY <2>2 DEF RpcStep, DriverStep, FramesStep, EditorStep, WebHolds
    <2>3. CASE UNCHANGED <<subject, vars, slots>>
      <3>1. UNCHANGED <<subject, slot1, slot2, slot3, slot4, slot5, slot10>>
        BY <2>3 DEF slots, slots1_7, slots8_12, slots9_12
      <3> QED BY <1>2, <3>1 DEF WebHolds, Web!WebInv, Web!FramesOK, Web!SocketOK,
              Web!RequestsCarried
    <2> QED BY <1>2, <2>1, <2>2, <2>3 DEF MCNext
  <1> QED BY <1>1, <1>2, PTL DEF MCSpec

\* Nobody waits for an answer that cannot come (WebUi): a pending request is in
\* the queue, on the socket or with the server.
THEOREM PendingStaysUnderWay == MCSpec => []PendingIsUnderWay
  <1>1. WebHolds => PendingIsUnderWay
    <2> SUFFICES ASSUME subject = "web", Web!WebInv, NEW r \in requests.pending, conn.at # "lost"
                 PROVE  \/ \E frames \in {sendQueue, up, down} : Web!Carries(frames, r)
                        \/ conn.n > 0 /\ Web!Carries(server[conn.n].deferred, r)
      BY DEF WebHolds, PendingIsUnderWay, Web!PendingIsUnderWay
    <2>1. conn.at \in {"connecting", "up"}
      BY DEF Web!WebInv, Web!FramesOK
    <2>2. conn.at = "up" => conn.n > 0
      BY FrontEndsAssumption DEF Web!WebInv, Web!SocketOK, Web!Conns
    <2> QED BY <2>1, <2>2 DEF Web!WebInv, Web!RequestsCarried
  <1> QED BY <1>1, WebStays, PTL

----------------------------------------------------------------------------
(* The page of the web UI. *)

saving == slot8
saved  == slot9

USE DEF saving, saved

\* The prompts of a queue of frames, on their way to the server or announced.
Announces(f) == f.type \in {"prompt", "message"}
Numbers(q) == {q[i].n : i \in {j \in DOMAIN q : Announces(q[j])}}
Single(q)  == \A i, j \in DOMAIN q :
                Announces(q[i]) /\ Announces(q[j]) /\ q[i].n = q[j].n => i = j

Deferred == IF conn.n \in Web!Conns THEN server[conn.n].deferred ELSE <<>>
Asked == UNION {Numbers(sendQueue), Numbers(up), Numbers(Deferred)}
Waits == Asked \cup Numbers(down)
Sent  == {n \in 1..page.sent : n \notin page.uploading}
Going(s) == s.at \in {"model", "prepare", "tool"}
Running == conn.n \in Web!Conns /\ Going(server[conn.n])

\* Lists of messages: with no prompts but those of N; with no prompt but n, and
\* that once.
Listed(ms) == ms \in Seq({ms[i] : i \in DOMAIN ms})
SaysFrom(ms, N) ==
  /\ Listed(ms)
  /\ \A i \in DOMAIN ms : ms[i].role = "user" => \E n \in N : ms[i] = Web!User(n)
SaysOnly(ms, n) ==
  /\ Listed(ms)
  /\ \A i, j \in DOMAIN ms : ms[i].role = "user" /\ ms[j].role = "user" =>
                               ms[i] = Web!User(n) /\ i = j

\* A prompt is in one place on its way.  The run that was announced, and the one
\* that an agent_end tells of, are of prompts that are not asked for any more,
\* nor announced behind that agent_end.
LineInv ==
  /\ conn.at # "up" => up = <<>> /\ down = <<>>
  /\ Single(sendQueue) /\ Single(up) /\ Single(Deferred) /\ Single(down)
  /\ Numbers(sendQueue) \cap (Numbers(up) \cup Numbers(Deferred)) = {}
  /\ Numbers(up) \cap Numbers(Deferred) = {}
  /\ Asked \cap Numbers(down) = {}
  /\ Waits \subseteq Sent
  /\ Running => /\ server[conn.n].run \in Sent /\ server[conn.n].run \notin Asked
                /\ SaysOnly(server[conn.n].new, server[conn.n].run)
  /\ \A i \in DOMAIN down : down[i].type = "agent_end" =>
       \E n \in Sent : /\ n \notin Asked /\ SaysOnly(down[i].messages, n)
                       /\ \A j \in DOMAIN down : j > i /\ Announces(down[j]) => down[j].n # n

\* What the page has, shows and saves.
PageInv ==
  /\ DOMAIN agent = {"messages", "streaming", "pending", "suppress"}
  /\ DOMAIN page = {"session", "started", "sent", "uploading", "running"}
  /\ DOMAIN seen = {"here", "runs", "broken", "missed", "events", "echoes"}
  /\ DOMAIN saved = Web!Sessions
  /\ agent.suppress \in Nat /\ page.sent \in Nat /\ page.uploading \subseteq 1..page.sent
  /\ SaysFrom(agent.messages, Sent) /\ SaysFrom(saving, Sent)
  /\ \A s \in Web!Sessions : SaysFrom(saved[s], Sent)
  /\ seen.here \subseteq Sent /\ seen.runs \in Sent \cup {0} /\ seen.runs \notin Waits
  /\ seen.echoes \in {"counted", "dropped", "wrong"}

\* While the echoes are counted there are as many to skip as are to come, and what
\* is to come is shown; once they are dropped, none is.
EchoInv ==
  /\ seen.echoes = "counted" =>
       /\ Cardinality(Waits) <= agent.suppress
       /\ \A n \in Waits \cap seen.here : Web!Places(agent.messages, n) # {}
  /\ seen.echoes = "dropped" =>
       /\ agent.suppress = 0
       /\ \A n \in Waits \cap seen.here : Web!Places(agent.messages, n) = {}

\* An agent_end is to come: of a prompt on its way, of the run, or on the socket.
EndIn(q, k) == \E j \in DOMAIN q : j > k /\ q[j].type = "agent_end"
Prompted(q) == \E i \in DOMAIN q : q[i].type = "prompt"
Comes == \/ Prompted(sendQueue) \/ Prompted(up) \/ Prompted(Deferred)
         \/ Running \/ EndIn(down, 0)

\* As long as no socket is lost and no run gives up, whatever an agent_end
\* clears has one to come.
ClearInv == ~seen.broken =>
  /\ conn.at # "lost" /\ (conn.at = "connecting" => conn.n = 0)
  /\ agent.streaming \/ agent.pending # {} \/ agent.suppress > 0 => Comes
  /\ \A i \in DOMAIN down : down[i].type \in {"agent_start", "tool_start"} =>
       Running \/ EndIn(down, i)

LEMMA ListedParts ==
  ASSUME NEW q, Listed(q)
  PROVE  DOMAIN q = 1..Len(q) /\ Len(q) \in Nat
  BY Elements DEF Listed

LEMMA ListedMade ==
  ASSUME NEW S, NEW q \in Seq(S)
  PROVE  Listed(q)
  <1> DEFINE T == {q[i] : i \in DOMAIN q}
  <1>1. DOMAIN q = 1..Len(q) /\ Len(q) \in Nat
    BY Elements
  <1>2. \A i \in 1..Len(q) : q[i] \in T
    BY <1>1
  <1> HIDE DEF T
  <1>3. q \in Seq(T)
    BY <1>1, <1>2
  <1> QED BY <1>3 DEF Listed, T

LEMMA ListedEmpty ==
  /\ Listed(<<>>) /\ Numbers(<<>>) = {} /\ Single(<<>>) /\ ~Prompted(<<>>)
  /\ \A k : ~EndIn(<<>>, k)
  /\ \A N : SaysFrom(<<>>, N)
  <1>1. <<>> \in Seq({}) /\ DOMAIN <<>> = {}
    BY EmptySeq
  <1>2. Listed(<<>>)
    BY <1>1, ListedMade
  <1> QED BY <1>1, <1>2 DEF Numbers, Single, Prompted, EndIn, SaysFrom

LEMMA JoinParts ==
  ASSUME NEW q, NEW p, Listed(q), Listed(p)
  PROVE  /\ Listed(q \o p)
         /\ \A i \in DOMAIN q : i \in DOMAIN (q \o p) /\ (q \o p)[i] = q[i] /\ i <= Len(q)
         /\ \A i \in DOMAIN p : Len(q) + i \in DOMAIN (q \o p) /\ (q \o p)[Len(q) + i] = p[i]
         /\ \A k \in DOMAIN (q \o p) : k \in DOMAIN q \/ \E i \in DOMAIN p : k = Len(q) + i
  <1> DEFINE S == {q[i] : i \in DOMAIN q} \cup {p[i] : i \in DOMAIN p}  z == Len(q)
  <1>1. /\ DOMAIN q = 1..z /\ z \in Nat /\ DOMAIN p = 1..Len(p) /\ Len(p) \in Nat
        /\ \A i \in 1..z : q[i] \in S
        /\ \A i \in 1..Len(p) : p[i] \in S
    BY ListedParts
  <1>2. q \in Seq(S) /\ p \in Seq(S)
    <2> HIDE DEF S
    <2> QED BY <1>1 DEF Listed
  <1> HIDE DEF S
  <1>3. /\ q \o p \in Seq(S) /\ DOMAIN (q \o p) = 1..(z + Len(p))
        /\ \A i \in 1..z : (q \o p)[i] = q[i]
        /\ \A i \in 1..Len(p) : (q \o p)[z + i] = p[i]
    BY <1>2
  <1>4. Listed(q \o p)
    BY <1>3, ListedMade
  <1> HIDE DEF z
  <1>5. /\ \A i \in 1..z : i \in 1..(z + Len(p)) /\ i <= z
        /\ \A i \in 1..Len(p) : z + i \in 1..(z + Len(p))
        /\ \A i \in 1..(z + Len(p)) : i \in 1..z \/ \E j \in 1..Len(p) : i = z + j
    <2>1. \A i \in 1..(z + Len(p)) : i \in 1..z \/ (i - z \in 1..Len(p) /\ i = z + (i - z))
      BY <1>1
    <2> QED BY <1>1, <2>1
  <1> QED BY <1>1, <1>3, <1>4, <1>5 DEF z

LEMMA TailIs ==
  ASSUME NEW q, Listed(q), q # <<>>
  PROVE  /\ Listed(Tail(q)) /\ 1 \in DOMAIN q /\ Head(q) = q[1]
         /\ \A i \in DOMAIN Tail(q) : i \in Nat /\ i > 0 /\ i + 1 \in DOMAIN q /\ Tail(q)[i] = q[i + 1]
         /\ \A i \in DOMAIN q : i = 1 \/ (i \in Nat /\ i > 1 /\ i - 1 \in DOMAIN Tail(q)
                                            /\ Tail(q)[i - 1] = q[i])
  <1> DEFINE S == {q[i] : i \in DOMAIN q}  n == Len(q) - 1
  <1>1. q \in Seq(S)
    BY DEF Listed
  <1> HIDE DEF S
  <1>2. /\ Tail(q) \in Seq(S) /\ Head(q) = q[1] /\ DOMAIN Tail(q) = 1..n
        /\ DOMAIN q = 1..(n + 1) /\ n \in Nat
        /\ \A i \in 1..n : Tail(q)[i] = q[i + 1]
    BY <1>1, TailParts
  <1> HIDE DEF n
  <1>3. /\ 1 \in 1..(n + 1) /\ \A i \in 1..n : i \in Nat /\ i > 0 /\ i + 1 \in 1..(n + 1)
        /\ \A i \in 1..(n + 1) : i = 1 \/ (i \in Nat /\ i > 1 /\ i - 1 \in 1..n /\ i = (i - 1) + 1)
    BY <1>2
  <1>4. \A i \in 1..(n + 1) : i = 1 \/ Tail(q)[i - 1] = q[i]
    BY <1>2, <1>3
  <1>5. Listed(Tail(q))
    BY <1>2, ListedMade
  <1> QED BY <1>2, <1>3, <1>4, <1>5

LEMMA NumbersJoin ==
  ASSUME NEW q, NEW p, Listed(q), Listed(p)
  PROVE  /\ Numbers(q \o p) = Numbers(q) \cup Numbers(p)
         /\ Single(q) /\ Single(p) /\ Numbers(q) \cap Numbers(p) = {} => Single(q \o p)
         /\ Prompted(q) \/ Prompted(p) => Prompted(q \o p)
  <1>0. /\ \A i \in DOMAIN q : i \in DOMAIN (q \o p) /\ (q \o p)[i] = q[i]
        /\ \A i \in DOMAIN p : Len(q) + i \in DOMAIN (q \o p) /\ (q \o p)[Len(q) + i] = p[i]
        /\ \A k \in DOMAIN (q \o p) : k \in DOMAIN q \/ \E i \in DOMAIN p : k = Len(q) + i
    BY JoinParts
  <1> DEFINE u == q \o p
  <1> HIDE DEF u
  <1>1. Numbers(u) = Numbers(q) \cup Numbers(p)
    BY <1>0 DEF Numbers, u
  <1>2. ASSUME Single(q), Single(p), Numbers(q) \cap Numbers(p) = {} PROVE Single(u)
    <2> SUFFICES ASSUME NEW i \in DOMAIN u, NEW j \in DOMAIN u, Announces(u[i]),
                        Announces(u[j]), u[i].n = u[j].n
                 PROVE  i = j
      BY DEF Single
    <2>1. /\ i \in DOMAIN q => u[i].n \in Numbers(q) /\ u[i] = q[i]
          /\ i \notin DOMAIN q =>
               u[i].n \in Numbers(p) /\ \E k \in DOMAIN p : i = Len(q) + k /\ u[i] = p[k]
      BY <1>0 DEF Numbers, u
    <2>2. /\ j \in DOMAIN q => u[j].n \in Numbers(q) /\ u[j] = q[j]
          /\ j \notin DOMAIN q =>
               u[j].n \in Numbers(p) /\ \E k \in DOMAIN p : j = Len(q) + k /\ u[j] = p[k]
      BY <1>0 DEF Numbers, u
    <2>3. CASE i \in DOMAIN q
      BY <1>2, <2>1, <2>2, <2>3 DEF Single
    <2>4. CASE i \notin DOMAIN q
      <3>1. j \notin DOMAIN q
        BY <1>2, <2>1, <2>2, <2>4
      <3> QED BY <1>2, <2>1, <2>2, <2>4, <3>1 DEF Single
    <2> QED BY <2>3, <2>4
  <1>3. Prompted(q) \/ Prompted(p) => Prompted(u)
    BY <1>0 DEF Prompted, u
  <1> QED BY <1>1, <1>2, <1>3 DEF u

LEMMA NumbersOne ==
  ASSUME NEW f
  PROVE  /\ Listed(<<f>>) /\ Single(<<f>>)
         /\ Numbers(<<f>>) = IF Announces(f) THEN {f.n} ELSE {}
         /\ Prompted(<<f>>) <=> f.type = "prompt"
         /\ EndIn(<<f>>, 0) <=> f.type = "agent_end"
  <1>1. <<f>> \in Seq({f}) /\ DOMAIN <<f>> = {1} /\ <<f>>[1] = f
    OBVIOUS
  <1>2. Listed(<<f>>)
    BY <1>1, ListedMade
  <1> QED BY <1>1, <1>2 DEF Numbers, Single, Prompted, EndIn

LEMMA NumbersAppend ==
  ASSUME NEW q, NEW f, Listed(q)
  PROVE  /\ Append(q, f) = q \o <<f>> /\ Listed(Append(q, f))
         /\ Numbers(Append(q, f)) = Numbers(q) \cup (IF Announces(f) THEN {f.n} ELSE {})
         /\ Single(q) /\ (Announces(f) => f.n \notin Numbers(q)) => Single(Append(q, f))
         /\ Prompted(q) \/ f.type = "prompt" => Prompted(Append(q, f))
  <1>1. Append(q, f) = q \o <<f>>
    BY DEF Listed
  <1>2. /\ Listed(<<f>>) /\ Single(<<f>>)
        /\ Numbers(<<f>>) = IF Announces(f) THEN {f.n} ELSE {}
        /\ Prompted(<<f>>) <=> f.type = "prompt"
    BY NumbersOne
  <1>3. /\ Listed(q \o <<f>>)
        /\ Numbers(q \o <<f>>) = Numbers(q) \cup Numbers(<<f>>)
        /\ Single(q) /\ Numbers(q) \cap Numbers(<<f>>) = {} => Single(q \o <<f>>)
        /\ Prompted(q) \/ Prompted(<<f>>) => Prompted(q \o <<f>>)
    BY <1>2, NumbersJoin, JoinParts
  <1> QED BY <1>1, <1>2, <1>3

LEMMA NumbersTail ==
  ASSUME NEW q, Listed(q), q # <<>>
  PROVE  /\ Listed(Tail(q)) /\ Head(q) = q[1] /\ 1 \in DOMAIN q
         /\ Numbers(q) = Numbers(Tail(q)) \cup (IF Announces(Head(q)) THEN {Head(q).n} ELSE {})
         /\ Single(q) => /\ Single(Tail(q))
                         /\ Announces(Head(q)) => Head(q).n \notin Numbers(Tail(q))
         /\ Prompted(q) => Head(q).type = "prompt" \/ Prompted(Tail(q))
         /\ EndIn(q, 0) => Head(q).type = "agent_end" \/ EndIn(Tail(q), 0)
  <1> DEFINE t == Tail(q)
  <1>0. /\ Listed(t) /\ 1 \in DOMAIN q /\ Head(q) = q[1]
        /\ \A i \in DOMAIN t : i \in Nat /\ i > 0 /\ i + 1 \in DOMAIN q /\ t[i] = q[i + 1]
        /\ \A i \in DOMAIN q : i = 1 \/ (i \in Nat /\ i > 1 /\ i - 1 \in DOMAIN t /\ t[i - 1] = q[i])
    BY TailIs
  <1> HIDE DEF t
  <1>1. Numbers(q) = Numbers(t) \cup (IF Announces(q[1]) THEN {q[1].n} ELSE {})
    <2>1. ASSUME NEW i \in DOMAIN q, Announces(q[i]), i # 1 PROVE q[i].n \in Numbers(t)
      BY <1>0, <2>1 DEF Numbers
    <2>2. ASSUME NEW i \in DOMAIN t, Announces(t[i]) PROVE t[i].n \in Numbers(q)
      BY <1>0, <2>2 DEF Numbers
    <2>3. \A x \in Numbers(q) : x \in Numbers(t) \/ (Announces(q[1]) /\ x = q[1].n)
      BY <2>1 DEF Numbers
    <2>4. \A x \in Numbers(t) : x \in Numbers(q)
      BY <2>2 DEF Numbers
    <2>5. Announces(q[1]) => q[1].n \in Numbers(q)
      BY <1>0 DEF Numbers
    <2> QED BY <2>3, <2>4, <2>5
  <1>2. ASSUME Single(q) PROVE Single(t)
    <2> SUFFICES ASSUME NEW i \in DOMAIN t, NEW j \in DOMAIN t, Announces(t[i]),
                        Announces(t[j]), t[i].n = t[j].n
                 PROVE  i = j
      BY DEF Single
    <2>1. i + 1 = j + 1
      BY <1>0, <1>2 DEF Single
    <2> QED BY <1>0, <2>1
  <1>3. ASSUME Single(q), Announces(q[1]), q[1].n \in Numbers(t) PROVE FALSE
    <2>1. PICK i \in DOMAIN t : Announces(t[i]) /\ t[i].n = q[1].n
      BY <1>3 DEF Numbers
    <2>2. i + 1 = 1
      BY <1>0, <1>3, <2>1 DEF Single
    <2> QED BY <1>0, <2>2
  <1>4. Prompted(q) => q[1].type = "prompt" \/ Prompted(t)
    BY <1>0 DEF Prompted
  <1>5. EndIn(q, 0) => q[1].type = "agent_end" \/ EndIn(t, 0)
    <2>1. ASSUME NEW i \in DOMAIN q, q[i].type = "agent_end", i # 1 PROVE EndIn(t, 0)
      <3>1. i - 1 \in DOMAIN t /\ t[i - 1] = q[i] /\ i - 1 > 0
        BY <1>0, <2>1
      <3> QED BY <2>1, <3>1 DEF EndIn
    <2> QED BY <2>1 DEF EndIn
  <1> QED BY <1>0, <1>1, <1>2, <1>3, <1>4, <1>5 DEF t

\* What a list of messages says when one is added, and where.
LEMMA SaysAppend ==
  ASSUME NEW ms, NEW m, Listed(ms)
  PROVE  /\ Listed(Append(ms, m))
         /\ \A N : SaysFrom(ms, N) /\ (m.role = "user" => \E n \in N : m = Web!User(n))
                     => SaysFrom(Append(ms, m), N)
         /\ \A n : SaysOnly(ms, n) /\ m.role # "user" => SaysOnly(Append(ms, m), n)
         /\ \A n : m # Web!User(n) => Web!Places(Append(ms, m), n) = Web!Places(ms, n)
         /\ \A n : m = Web!User(n) =>
              \E k : k \notin DOMAIN ms /\ Web!Places(Append(ms, m), n) = Web!Places(ms, n) \cup {k}
  <1> DEFINE S == {ms[i] : i \in DOMAIN ms} \cup {m}  z == Len(ms)  u == Append(ms, m)
  <1>1. ms \in Seq(S) /\ DOMAIN ms = 1..z /\ z \in Nat /\ m \in S
    <2>1. DOMAIN ms = 1..z /\ z \in Nat
      BY ListedParts
    <2>2. \A i \in 1..z : ms[i] \in S
      BY <2>1
    <2> HIDE DEF S
    <2>3. ms \in Seq(S)
      BY <2>1, <2>2 DEF Listed
    <2> QED BY <2>1, <2>3 DEF S
  <1> HIDE DEF S
  <1>2. u \in Seq(S) /\ DOMAIN u = 1..(z + 1) /\ u[z + 1] = m /\ \A i \in 1..z : u[i] = ms[i]
    BY <1>1
  <1>3. Listed(u)
    BY <1>2, ListedMade
  <1>4. 1..(z + 1) = 1..z \cup {z + 1} /\ z + 1 \notin 1..z
    BY <1>1
  <1> HIDE DEF u, z
  <1>5. \A N : SaysFrom(ms, N) /\ (m.role = "user" => \E n \in N : m = Web!User(n))
                 => SaysFrom(u, N)
    BY <1>1, <1>2, <1>3, <1>4 DEF SaysFrom
  <1>6. \A n : SaysOnly(ms, n) /\ m.role # "user" => SaysOnly(u, n)
    BY <1>1, <1>2, <1>3, <1>4 DEF SaysOnly
  <1>7. \A n : m # Web!User(n) => Web!Places(u, n) = Web!Places(ms, n)
    BY <1>1, <1>2, <1>4 DEF Web!Places
  <1>8. \A n : m = Web!User(n) => Web!Places(u, n) = Web!Places(ms, n) \cup {z + 1}
    BY <1>1, <1>2, <1>4 DEF Web!Places
  <1> QED BY <1>1, <1>3, <1>4, <1>5, <1>6, <1>7, <1>8 DEF u

LEMMA UsersDiffer ==
  /\ \A m, n : Web!User(m) = Web!User(n) <=> m = n
  /\ \A n : Web!User(n).role = "user"
  /\ \A m, k : Web!Answer(m, k).role = "assistant"
  /\ \A m : Web!Result(m).role = "toolResult"
  BY DEF Web!User, Web!Answer, Web!Result

LEMMA SaysOnlyPlaces ==
  ASSUME NEW ms, NEW n, SaysOnly(ms, n)
  PROVE  /\ \A m : \A i, j \in Web!Places(ms, m) : i = j
         /\ \A m : m # n => Web!Places(ms, m) = {}
         /\ \A N : n \in N => SaysFrom(ms, N)
  BY UsersDiffer DEF SaysOnly, SaysFrom, Web!Places

LEMMA SaysNone ==
  ASSUME NEW ms, NEW N, SaysFrom(ms, N), NEW n, n \notin N
  PROVE  Web!Places(ms, n) = {}
  BY UsersDiffer DEF SaysFrom, Web!Places

LEMMA SaysMore ==
  ASSUME NEW ms, NEW N, SaysFrom(ms, N), NEW M, N \subseteq M
  PROVE  SaysFrom(ms, M)
  BY DEF SaysFrom

\* The frames that the queues hold are frames of their kinds.
LEMMA WebQueues ==
  ASSUME Web!WebInv
  PROVE  /\ Listed(sendQueue) /\ Listed(up) /\ Listed(down) /\ Listed(Deferred)
         /\ DOMAIN server = Web!Conns
         /\ \A c \in Web!Conns : /\ DOMAIN server[c] = DOMAIN Web!NoServer
                                 /\ Listed(server[c].deferred)
         /\ conn.n \in Nat /\ conn.at \in {"connecting", "up", "lost"}
  <1>1. Listed(<<>>)
    BY ListedEmpty
  <1>2. \A q, K : Web!Queue(q, K) => Listed(q)
    BY DEF Web!Queue, Listed
  <1>3. /\ Listed(sendQueue) /\ Listed(up) /\ Listed(down) /\ DOMAIN server = Web!Conns
        /\ \A c \in Web!Conns : /\ DOMAIN server[c] = DOMAIN Web!NoServer
                                /\ Listed(server[c].deferred)
        /\ conn.n \in Nat /\ conn.at \in {"connecting", "up", "lost"}
    BY <1>2 DEF Web!WebInv, Web!FramesOK
  <1> QED BY <1>1, <1>3 DEF Deferred

LEMMA WaitsFinite ==
  ASSUME PageInv, LineInv
  PROVE  IsFiniteSet(Sent) /\ IsFiniteSet(Waits) /\ Cardinality(Waits) \in Nat
  <1>1. IsFiniteSet(1..page.sent)
    BY FS_Interval DEF PageInv
  <1>2. Sent \subseteq 1..page.sent /\ Waits \subseteq Sent
    BY DEF Sent, LineInv
  <1>3. IsFiniteSet(Sent)
    BY <1>1, <1>2, FS_Subset
  <1>4. IsFiniteSet(Waits)
    BY <1>2, <1>3, FS_Subset
  <1> QED BY <1>3, <1>4, FS_CardinalityType

\* What Awaited asks is whether any prompt waits.
LEMMA AwaitedIs ==
  ASSUME NEW q
  PROVE  Web!Awaited(q) <=> Asked \cup Numbers(q) # {}
  <1>1. /\ conn.n \in Web!Conns => {server[c].deferred : c \in Web!Conns \cap {conn.n}} = {Deferred}
        /\ conn.n \notin Web!Conns => {server[c].deferred : c \in Web!Conns \cap {conn.n}} = {}
    BY DEF Deferred
  <1>2. \A p : Numbers(p) # {} <=> \E i \in DOMAIN p : p[i].type \in {"prompt", "message"}
    BY DEF Numbers, Announces
  <1>3. conn.n \notin Web!Conns => Numbers(Deferred) = {}
    BY ListedEmpty DEF Deferred
  <1>4. Web!Awaited(q) <=>
          \E p \in {sendQueue, up, q} \cup {server[c].deferred : c \in Web!Conns \cap {conn.n}} :
            Numbers(p) # {}
    BY <1>2 DEF Web!Awaited
  <1> QED BY <1>1, <1>3, <1>4 DEF Asked

PageSound == LineInv /\ PageInv /\ EchoInv /\ Web!SaidOnce

\* A step after which fewer prompts wait, and the page is as it was.
LEMMA PageStays ==
  ASSUME PageInv, LineInv, EchoInv, Web!SaidOnce, LineInv', Waits' \subseteq Waits,
         UNCHANGED <<agent, saving, saved>>,
         DOMAIN page' = DOMAIN page, page'.sent = page.sent, page'.uploading = page.uploading,
         DOMAIN seen' = DOMAIN seen, seen'.here = seen.here, seen'.runs = seen.runs,
         seen'.echoes = seen.echoes
  PROVE  PageSound'
  <1>1. Sent' = Sent
    BY DEF Sent
  <1>2. PageInv'
    BY <1>1 DEF PageInv
  <1>3. Cardinality(Waits') <= Cardinality(Waits) /\ Cardinality(Waits') \in Nat
    BY WaitsFinite, FS_Subset, FS_CardinalityType
  <1>4. EchoInv'
    <2>1. Cardinality(Waits) \in Nat /\ agent.suppress \in Nat
      BY WaitsFinite DEF PageInv
    <2> QED BY <1>3, <2>1 DEF EchoInv
  <1>5. Web!SaidOnce'
    BY DEF Web!SaidOnce
  <1> QED BY <1>2, <1>4, <1>5 DEF PageSound

\* What the page sends: of the prompts in it none was sent before.
LEMMA LineSends ==
  ASSUME Web!WebInv, LineInv, NEW frames, Listed(frames), Single(frames),
         Numbers(frames) \cap Sent = {}, Sent \cup Numbers(frames) \subseteq Sent',
         Web!Send(frames), UNCHANGED <<conn, down, server>>
  PROVE  LineInv' /\ Waits' \subseteq Waits \cup Numbers(frames)
  <1> DEFINE N == Numbers(frames)
  <1>0. /\ Listed(sendQueue) /\ Listed(up)
        /\ conn.at \in {"connecting", "up", "lost"} /\ (conn.open <=> conn.at # "connecting")
    BY WebQueues DEF Web!WebInv, Web!SocketOK
  <1>1. Waits \subseteq Sent /\ Waits \cap N = {}
    BY DEF LineInv
  <1>2. \A q \in {sendQueue, up} : Numbers(q) \cap N = {}
    BY <1>1 DEF Waits, Asked
  <1>3. \A q \in {sendQueue, up} :
          Numbers(q \o frames) = Numbers(q) \cup N /\ (Single(q) => Single(q \o frames))
    BY <1>0, <1>2, NumbersJoin
  <1>4. Deferred' = Deferred /\ (Running' <=> Running)
    BY DEF Deferred, Running
  <1>5. /\ Numbers(sendQueue') \subseteq Numbers(sendQueue) \cup N
        /\ Numbers(up') \subseteq Numbers(up) \cup N
        /\ Numbers(sendQueue') = Numbers(sendQueue) \/ Numbers(up') = Numbers(up)
        /\ Single(sendQueue') /\ Single(up')
        /\ conn.at # "up" => up' = <<>>
    BY <1>0, <1>3 DEF Web!Send, LineInv
  <1> HIDE DEF N
  <1>6. /\ Asked' \subseteq Asked \cup N /\ Waits' \subseteq Waits \cup N
        /\ Waits = UNION {Numbers(sendQueue), Numbers(up), Numbers(Deferred), Numbers(down)}
    BY <1>4, <1>5 DEF Asked, Waits
  <1>7. /\ Numbers(sendQueue') \cap (Numbers(up') \cup Numbers(Deferred')) = {}
        /\ Numbers(up') \cap Numbers(Deferred') = {}
        /\ Asked' \cap Numbers(down) = {}
    BY <1>1, <1>4, <1>5, <1>6 DEF LineInv
  <1>8. Waits' \subseteq Sent'
    BY <1>1, <1>6 DEF N
  <1>9. \A n \in Sent : n \notin Asked => n \in Sent' /\ n \notin Asked'
    BY <1>6 DEF N
  <1> QED BY <1>4, <1>5, <1>6, <1>7, <1>8, <1>9 DEF LineInv, N

\* A step of the server of connection c: it becomes s and emits frames.
Moves(c, s, frames) ==
  /\ server' = [server EXCEPT ![c] = s] /\ DOMAIN s = DOMAIN Web!NoServer
  /\ UNCHANGED <<conn, sendQueue, agent, page, saving, saved>>
  /\ Listed(s.deferred) /\ Listed(frames)
  /\ Web!Emit(c, frames) \/ (frames = <<>> /\ down' = down)
  /\ c # conn.n => up' = up
  /\ DOMAIN seen' = DOMAIN seen /\ seen'.here = seen.here /\ seen'.runs = seen.runs
  /\ seen'.echoes = seen.echoes
  /\ ~seen'.broken => ~seen.broken

\* ... of the connection the page has: a prompt moves on to the run and to its
\* announcement, an agent_end is of the run.
Flows(c, s, frames) ==
  LET asked == UNION {Numbers(sendQueue), Numbers(up'), Numbers(s.deferred)} IN
  /\ conn.at # "up" => up' = <<>>
  /\ Single(up') /\ Single(s.deferred) /\ Single(frames)
  /\ Numbers(up') \cap Numbers(s.deferred) = {} /\ Numbers(frames) \cap asked = {}
  /\ UNION {Numbers(up'), Numbers(s.deferred), Numbers(frames)}
       \subseteq Numbers(up) \cup Numbers(server[c].deferred)
  /\ Going(s) => s.run \in Sent /\ s.run \notin asked /\ SaysOnly(s.new, s.run)
  /\ \A i \in DOMAIN frames : frames[i].type = "agent_end" =>
       /\ \A j \in DOMAIN frames : j > i => ~Announces(frames[j])
       /\ \E n \in Sent : n \notin asked /\ SaysOnly(frames[i].messages, n)

LEMMA LineServes ==
  ASSUME Web!WebInv, LineInv, NEW c \in Web!Conns, c = conn.n, NEW s, NEW frames,
         Moves(c, s, frames), Flows(c, s, frames)
  PROVE  LineInv' /\ Waits' \subseteq Waits
  <1> DEFINE asked == UNION {Numbers(sendQueue), Numbers(up'), Numbers(s.deferred)}
  <1>0. /\ Listed(down) /\ Listed(frames) /\ DOMAIN server = Web!Conns
        /\ conn' = conn /\ sendQueue' = sendQueue /\ server'[c] = s
    BY WebQueues DEF Moves
  <1>1. /\ Deferred' = s.deferred /\ Deferred = server[c].deferred
        /\ Running' <=> Going(s)
    BY <1>0 DEF Deferred, Running
  <1>2. Sent' = Sent /\ Asked' = asked
    BY <1>0, <1>1 DEF Sent, Asked, Moves
  <1>3. /\ asked \subseteq Asked /\ Numbers(frames) \subseteq Asked
        /\ Numbers(frames) \cap asked = {} /\ Single(frames)
        /\ Asked \cap Numbers(down) = {} /\ Single(down) /\ Waits \subseteq Sent
    BY <1>1 DEF Flows, LineInv, Asked
  <1> HIDE DEF asked
  <1>4. CASE conn.at # "up"
    <2>1. down' = <<>> /\ down = <<>> /\ up' = <<>>
      BY <1>4 DEF Moves, Flows, Web!Emit, LineInv
    <2>2. Waits' = asked
      BY <1>2, <2>1, ListedEmpty DEF Waits
    <2>3. DOMAIN down' = {}
      BY <2>1
    <2> QED BY <1>0, <1>1, <1>2, <1>3, <2>1, <2>2, <2>3, ListedEmpty
            DEF LineInv, Flows, asked, Waits
  <1>5. CASE conn.at = "up"
    <2>1. down' = down \o frames
      <3>1. ASSUME frames = <<>> PROVE down \o frames = down
        BY <1>0, <3>1 DEF Listed
      <3> QED BY <1>5, <3>1 DEF Moves, Web!Emit
    <2>2. /\ Listed(down')
          /\ \A i \in DOMAIN down : i \in DOMAIN down' /\ down'[i] = down[i] /\ i <= Len(down)
          /\ \A k \in DOMAIN down' : k \in DOMAIN down \/
               \E i \in DOMAIN frames : k = Len(down) + i /\ down'[k] = frames[i]
      <3> DEFINE u == down \o frames
      <3>1. /\ Listed(u)
            /\ \A i \in DOMAIN down : i \in DOMAIN u /\ u[i] = down[i] /\ i <= Len(down)
            /\ \A i \in DOMAIN frames : Len(down) + i \in DOMAIN u /\ u[Len(down) + i] = frames[i]
            /\ \A k \in DOMAIN u : k \in DOMAIN down \/ \E i \in DOMAIN frames : k = Len(down) + i
        BY <1>0, JoinParts
      <3>2. down' = u
        BY <2>1
      <3> HIDE DEF u
      <3> QED BY <3>1, <3>2
    <2>3. Numbers(down') = Numbers(down) \cup Numbers(frames) /\ Single(down')
      BY <1>0, <1>3, <2>1, NumbersJoin
    <2>4. Waits' \subseteq Waits /\ Asked' \cap Numbers(down') = {}
      BY <1>2, <1>3, <2>3 DEF Waits
    <2>5. ASSUME NEW i \in DOMAIN down', down'[i].type = "agent_end"
          PROVE  \E n \in Sent : /\ n \notin asked /\ SaysOnly(down'[i].messages, n)
                                 /\ \A j \in DOMAIN down' : j > i /\ Announces(down'[j]) => down'[j].n # n
      <3>1. CASE i \in DOMAIN down
        <4>1. PICK n \in Sent : /\ n \notin Asked /\ SaysOnly(down[i].messages, n)
                                /\ \A j \in DOMAIN down : j > i /\ Announces(down[j]) => down[j].n # n
          BY <2>2, <2>5, <3>1 DEF LineInv
        <4>2. \A k \in DOMAIN frames : Announces(frames[k]) => frames[k].n # n
          BY <1>3, <4>1 DEF Numbers
        <4> QED BY <1>3, <2>2, <3>1, <4>1, <4>2
      <3>2. CASE i \notin DOMAIN down
        <4>1. PICK k \in DOMAIN frames : i = Len(down) + k /\ down'[i] = frames[k]
          BY <2>2, <3>2
        <4>2. /\ DOMAIN frames = 1..Len(frames) /\ Len(frames) \in Nat /\ Len(down) \in Nat
          BY <1>0, ListedParts
        <4>3. \A j \in DOMAIN down' : j > i => ~Announces(down'[j])
          <5> SUFFICES ASSUME NEW j \in DOMAIN down', j > i PROVE ~Announces(down'[j])
            OBVIOUS
          <5>1. DOMAIN down = 1..Len(down)
            BY <1>0, ListedParts
          <5>2. j \notin DOMAIN down
            BY <4>1, <4>2, <5>1
          <5>3. PICK l \in DOMAIN frames : j = Len(down) + l /\ down'[j] = frames[l]
            BY <2>2, <5>2
          <5>4. l > k
            BY <4>1, <4>2, <5>3
          <5> QED BY <2>5, <4>1, <5>3, <5>4 DEF Flows
        <4> QED BY <2>5, <4>1, <4>3 DEF Flows, asked
      <3> QED BY <3>1, <3>2
    <2> QED BY <1>0, <1>1, <1>2, <1>3, <1>5, <2>3, <2>4, <2>5 DEF LineInv, Flows, asked, Waits
  <1> QED BY <1>4, <1>5

\* ... of another connection.
LEMMA LineElsewhere ==
  ASSUME Web!WebInv, LineInv, NEW c \in Web!Conns, c # conn.n, NEW s, NEW frames,
         Moves(c, s, frames)
  PROVE  LineInv' /\ Waits' = Waits
  <1>1. /\ UNCHANGED <<conn, sendQueue, up, down, page>>
        /\ \A d \in Web!Conns : d # c => server'[d] = server[d]
    BY WebQueues DEF Moves, Web!Emit
  <1>2. Deferred' = Deferred /\ Sent' = Sent /\ (Running' <=> Running)
        /\ (Running => server'[conn.n] = server[conn.n])
    BY <1>1 DEF Deferred, Sent, Running
  <1>3. Asked' = Asked /\ Waits' = Waits
    BY <1>1, <1>2 DEF Asked, Waits
  <1> QED BY <1>1, <1>2, <1>3 DEF LineInv

LEMMA PageServes ==
  ASSUME Web!WebInv, PageSound, NEW c \in Web!Conns, NEW s, NEW frames,
         Moves(c, s, frames), c = conn.n => Flows(c, s, frames)
  PROVE  PageSound'
  <1>1. LineInv' /\ Waits' \subseteq Waits
    BY LineServes, LineElsewhere DEF PageSound
  <1>2. /\ UNCHANGED <<agent, saving, saved, page>>
        /\ DOMAIN seen' = DOMAIN seen /\ seen'.here = seen.here /\ seen'.runs = seen.runs
        /\ seen'.echoes = seen.echoes
    BY DEF Moves
  <1> QED BY <1>1, <1>2, PageStays DEF PageSound

Starts == {"agent_start", "tool_start"}

\* ... and of what an agent_end clears, an agent_end is still to come.
Clears(c, s, frames) == ~seen'.broken =>
  /\ Going(server[c]) => Going(s) \/ EndIn(frames, 0)
  /\ Prompted(up) \/ Prompted(server[c].deferred) =>
       Prompted(up') \/ Prompted(s.deferred) \/ Going(s)
  /\ \A i \in DOMAIN frames : frames[i].type \in Starts => Going(s) \/ EndIn(frames, i)

LEMMA ClearServes ==
  ASSUME Web!WebInv, ClearInv, NEW c \in Web!Conns, NEW s, NEW frames,
         Moves(c, s, frames), c = conn.n => Clears(c, s, frames)
  PROVE  ClearInv'
  <1> SUFFICES ASSUME ~seen'.broken PROVE ClearInv'
    BY DEF ClearInv
  <1>0. /\ Listed(down) /\ Listed(frames) /\ DOMAIN server = Web!Conns /\ server'[c] = s
        /\ UNCHANGED <<conn, sendQueue, agent>> /\ conn.at \in {"connecting", "up", "lost"}
    BY WebQueues DEF Moves
  <1>1. ~seen.broken
    BY DEF Moves
  <1>2. /\ conn.at # "lost" /\ (conn.at = "connecting" => conn.n = 0)
        /\ agent.streaming \/ agent.pending # {} \/ agent.suppress > 0 => Comes
        /\ \A i \in DOMAIN down : down[i].type \in Starts => Running \/ EndIn(down, i)
    BY <1>1 DEF ClearInv, Starts
  <1>3. CASE c # conn.n
    <2>1. down' = down /\ up' = up
      BY <1>3 DEF Moves, Web!Emit
    <2>2. \A d \in Web!Conns : d # c => server'[d] = server[d]
      BY DEF Moves
    <2>3. Deferred' = Deferred /\ (Running' <=> Running)
      BY <1>0, <1>3, <2>2 DEF Deferred, Running
    <2>4. Comes' <=> Comes
      BY <1>0, <2>1, <2>3 DEF Comes
    <2> QED BY <1>0, <1>2, <2>1, <2>3, <2>4 DEF ClearInv, Starts
  <1>4. CASE c = conn.n
    <2>1. conn.at = "up"
      BY <1>0, <1>2, <1>4, FrontEndsAssumption DEF Web!Conns
    <2> DEFINE u == down \o frames
    <2>2. down' = u
      <3>1. ASSUME frames = <<>> PROVE down \o frames = down
        BY <1>0, <3>1 DEF Listed
      <3> QED BY <1>4, <2>1, <3>1 DEF Moves, Web!Emit
    <2>3. /\ Listed(u)
          /\ \A i \in DOMAIN down : i \in DOMAIN u /\ u[i] = down[i] /\ i <= Len(down)
          /\ \A i \in DOMAIN frames : Len(down) + i \in DOMAIN u /\ u[Len(down) + i] = frames[i]
          /\ \A k \in DOMAIN u : k \in DOMAIN down \/ \E i \in DOMAIN frames : k = Len(down) + i
      BY <1>0, JoinParts
    <2>4. /\ DOMAIN down = 1..Len(down) /\ Len(down) \in Nat
          /\ DOMAIN frames = 1..Len(frames) /\ Len(frames) \in Nat
      BY <1>0, ListedParts
    <2> HIDE DEF u
    <2>5. /\ \A i \in DOMAIN down \cup {0} : EndIn(down, i) => EndIn(u, i)
          /\ \A i \in DOMAIN down \cup {0} : EndIn(frames, 0) => EndIn(u, i)
          /\ \A i \in DOMAIN frames : EndIn(frames, i) => EndIn(u, Len(down) + i)
      <3>1. ASSUME NEW i \in DOMAIN down \cup {0}, EndIn(down, i) PROVE EndIn(u, i)
        BY <2>3, <3>1 DEF EndIn
      <3>2. ASSUME NEW i \in DOMAIN down \cup {0}, EndIn(frames, 0) PROVE EndIn(u, i)
        <4>1. PICK j \in DOMAIN frames : frames[j].type = "agent_end" /\ j > 0
          BY <3>2 DEF EndIn
        <4>2. Len(down) + j > i
          BY <2>4, <4>1
        <4> QED BY <2>3, <4>1, <4>2 DEF EndIn
      <3>3. ASSUME NEW i \in DOMAIN frames, EndIn(frames, i) PROVE EndIn(u, Len(down) + i)
        <4>1. PICK j \in DOMAIN frames : frames[j].type = "agent_end" /\ j > i
          BY <3>3 DEF EndIn
        <4>2. Len(down) + j > Len(down) + i
          BY <2>4, <4>1
        <4> QED BY <2>3, <4>1, <4>2 DEF EndIn
      <3> QED BY <3>1, <3>2, <3>3
    <2>6. /\ Deferred' = s.deferred /\ Deferred = server[c].deferred
          /\ (Running' <=> Going(s)) /\ (Running <=> Going(server[c]))
      BY <1>0, <1>4 DEF Deferred, Running
    <2>7. Running => Running' \/ EndIn(frames, 0)
      BY <1>4, <2>6 DEF Clears
    <2>8. Comes => Comes'
      BY <1>0, <1>4, <2>2, <2>5, <2>6, <2>7 DEF Comes, Clears
    <2>9. ASSUME NEW i \in DOMAIN u, u[i].type \in Starts PROVE Running' \/ EndIn(u, i)
      <3>1. CASE i \in DOMAIN down
        BY <1>2, <2>3, <2>5, <2>7, <2>9, <3>1
      <3>2. CASE i \notin DOMAIN down
        <4>1. PICK k \in DOMAIN frames : i = Len(down) + k
          BY <2>3, <2>9, <3>2
        <4> QED BY <1>4, <2>3, <2>5, <2>6, <2>9, <4>1 DEF Clears
      <3> QED BY <3>1, <3>2
    <2> QED BY <1>0, <1>2, <2>1, <2>2, <2>8, <2>9 DEF ClearInv, Starts
  <1> QED BY <1>3, <1>4

\* What a command of the dispatcher does to the server s of connection c.
Served(c, f, s, t, frames) ==
  /\ server' = [server EXCEPT ![c] = t] /\ DOMAIN t = DOMAIN Web!NoServer
  /\ UNCHANGED <<conn, sendQueue, agent, page, saving, saved>>
  /\ t.deferred = s.deferred /\ Listed(frames) /\ Single(frames)
  /\ Web!Emit(c, frames)
  /\ \A i \in DOMAIN frames : /\ frames[i].type # "agent_end"
                              /\ frames[i].type \in Starts => Going(t)
  /\ f.type = "prompt" => /\ Numbers(frames) = {f.n} /\ Going(t) /\ t.run = f.n
                          /\ SaysOnly(t.new, f.n)
  /\ f.type # "prompt" => /\ Numbers(frames) = {}
                          /\ t.at = s.at /\ t.run = s.run /\ t.new = s.new

LEMMA CommandServed ==
  ASSUME NEW c \in Web!Conns, NEW f, f.type \in Web!ServedKinds,
         NEW s, DOMAIN s = DOMAIN Web!NoServer, Web!Serve(c, f, s)
  PROVE  \E t, frames : Served(c, f, s, t, frames)
  <1> USE DEF Web!Becomes, Web!browser, Web!store
  <1>0. /\ Listed(<<>>) /\ Numbers(<<>>) = {} /\ Single(<<>>)
    BY ListedEmpty
  <1>1. CASE f.type = "prompt"
    <2> DEFINE t == [s EXCEPT !.at = "model", !.run = f.n, !.k = 1, !.cancelled = FALSE,
                              !.context = Append(@, Web!User(f.n)), !.new = <<Web!User(f.n)>>]
               a == Web!Frame("agent_start", 0)
               b == Web!Frame("message", f.n)
    <2>1. /\ DOMAIN t = DOMAIN Web!NoServer /\ t.deferred = s.deferred
          /\ t.at = "model" /\ t.run = f.n /\ t.new = <<Web!User(f.n)>>
      BY DEF Web!NoServer
    <2>2. a.type = "agent_start" /\ b.type = "message" /\ b.n = f.n
      BY DEF Web!Frame
    <2>3. /\ server' = [server EXCEPT ![c] = t]
          /\ UNCHANGED <<conn, sendQueue, agent, page, saving, saved>>
          /\ Web!Emit(c, <<a, b>>)
      BY <1>1 DEF Web!Serve
    <2> HIDE DEF t, a, b
    <2>4. SaysOnly(t.new, f.n)
      <3> DEFINE ms == <<Web!User(f.n)>>
      <3>1. ms \in Seq({Web!User(f.n)}) /\ DOMAIN ms = {1} /\ ms[1] = Web!User(f.n)
        OBVIOUS
      <3> HIDE DEF ms
      <3>2. SaysOnly(ms, f.n)
        BY <3>1, ListedMade DEF SaysOnly
      <3> QED BY <2>1, <3>2 DEF ms
    <2>5. <<a, b>> \in Seq({a, b}) /\ DOMAIN <<a, b>> = {1, 2} /\ <<a, b>>[1] = a /\ <<a, b>>[2] = b
      OBVIOUS
    <2> DEFINE q == <<a, b>>
    <2>6. q \in Seq({a, b}) /\ DOMAIN q = {1, 2} /\ q[1] = a /\ q[2] = b
      BY <2>5
    <2>7. Web!Emit(c, q)
      BY <2>3
    <2> HIDE DEF q
    <2>8. Listed(q) /\ Single(q) /\ Numbers(q) = {f.n}
      BY <2>2, <2>6, ListedMade DEF Single, Numbers, Announces
    <2>9. Served(c, f, s, t, q)
      BY <1>1, <2>1, <2>2, <2>3, <2>4, <2>6, <2>7, <2>8 DEF Going, Served
    <2> QED BY <2>9
  <1>2. CASE f.type = "request"
    <2> DEFINE a == Web!Frame("response", f.n)
    <2>1. a.type = "response" /\ ~Announces(a)
      BY DEF Web!Frame, Announces
    <2>2. /\ server' = [server EXCEPT ![c] = s] /\ Web!Emit(c, <<a>>)
          /\ UNCHANGED <<conn, sendQueue, agent, page, saving, saved>>
      BY <1>2 DEF Web!Serve
    <2> HIDE DEF a
    <2>3. Listed(<<a>>) /\ Single(<<a>>) /\ Numbers(<<a>>) = {}
      BY <2>1, NumbersOne
    <2>4. DOMAIN <<a>> = {1} /\ <<a>>[1] = a
      OBVIOUS
    <2>5. Served(c, f, s, s, <<a>>)
      BY <1>2, <2>1, <2>2, <2>3, <2>4 DEF Starts, Served
    <2> QED BY <2>5
  <1>3. CASE f.type \in {"new_session", "set_messages"}
    <2>1. PICK x : /\ server' = [server EXCEPT ![c] = [s EXCEPT !.context = x]]
                   /\ UNCHANGED <<conn, sendQueue, agent, page, saving, saved>>
                   /\ Web!Emit(c, <<>>)
      BY <1>3 DEF Web!Serve
    <2> DEFINE t == [s EXCEPT !.context = x]
    <2>2. DOMAIN t = DOMAIN Web!NoServer /\ t.deferred = s.deferred /\ t.at = s.at
          /\ t.run = s.run /\ t.new = s.new
      BY DEF Web!NoServer
    <2>3. DOMAIN <<>> = {}
      OBVIOUS
    <2>4. Served(c, f, s, t, <<>>)
      BY <1>0, <1>3, <2>1, <2>2, <2>3 DEF Served
    <2> QED BY <2>4
  <1>4. CASE f.type = "abort"
    <2>1. DOMAIN <<>> = {}
      OBVIOUS
    <2>2. Served(c, f, s, s, <<>>)
      BY <1>0, <1>4, <2>1 DEF Web!Serve, Served
    <2> QED BY <2>2
  <1> QED BY <1>1, <1>2, <1>3, <1>4 DEF Web!ServedKinds

ServerDoes(c) == \E s, frames : Moves(c, s, frames)
                                  /\ (c = conn.n => Flows(c, s, frames) /\ Clears(c, s, frames))

LEMMA PageTakes ==
  ASSUME Web!WebInv, PageSound, NEW c \in Web!Conns, Web!TakeDeferred(c)
  PROVE  ServerDoes(c)
  <1> DEFINE d == server[c].deferred  f == Head(d)
             s == [server[c] EXCEPT !.deferred = Tail(@)]
  <1>0. /\ DOMAIN server[c] = DOMAIN Web!NoServer /\ Listed(d)
        /\ Web!Queue(d, Web!ServedKinds)
    BY WebQueues DEF Web!WebInv, Web!FramesOK
  <1>1. /\ d # <<>> /\ Web!Serve(c, f, s) /\ up' = up /\ seen' = seen /\ server[c].at = "idle"
    BY DEF Web!TakeDeferred, Web!Idle
  <1>2. /\ DOMAIN s = DOMAIN Web!NoServer /\ s.deferred = Tail(d) /\ s.at = server[c].at
    BY <1>0 DEF Web!NoServer
  <1>d. d = server[c].deferred
    OBVIOUS
  <1> HIDE DEF d, s
  <1>3. /\ Listed(Tail(d)) /\ f.type \in Web!ServedKinds
        /\ Numbers(d) = Numbers(Tail(d)) \cup (IF Announces(f) THEN {f.n} ELSE {})
        /\ Single(d) => Single(Tail(d)) /\ (Announces(f) => f.n \notin Numbers(Tail(d)))
        /\ Prompted(d) => f.type = "prompt" \/ Prompted(Tail(d))
    BY <1>0, <1>1, NumbersTail DEF Web!Queue
  <1>4. Announces(f) <=> f.type = "prompt"
    BY <1>3 DEF Announces, Web!ServedKinds
  <1> HIDE DEF f
  <1>5. PICK t, frames : Served(c, f, s, t, frames)
    BY <1>1, <1>2, <1>3, CommandServed
  <1> USE DEF Served
  <1>6. Moves(c, t, frames)
    BY <1>1, <1>2, <1>3, <1>5 DEF Moves
  <1>7. ASSUME c = conn.n PROVE Flows(c, t, frames)
    <2>1. /\ Deferred = d /\ Single(up) /\ Single(d)
          /\ Numbers(sendQueue) \cap (Numbers(up) \cup Numbers(d)) = {}
          /\ Numbers(up) \cap Numbers(d) = {} /\ Numbers(d) \subseteq Sent
          /\ conn.at # "up" => up = <<>>
      BY <1>7, <1>d DEF PageSound, LineInv, Deferred, Waits, Asked
    <2>2. /\ Single(up') /\ Single(t.deferred) /\ Numbers(up') \cap Numbers(t.deferred) = {}
          /\ Numbers(t.deferred) \subseteq Numbers(d)
      BY <1>1, <1>2, <1>3, <1>5, <2>1
    <2>3. CASE f.type = "prompt"
      <3>1. /\ Numbers(frames) = {f.n} /\ f.n \in Numbers(d) /\ f.n \notin Numbers(t.deferred)
            /\ f.n \in Sent
        BY <1>2, <1>3, <1>4, <1>5, <2>1, <2>3
      <3>2. f.n \notin UNION {Numbers(sendQueue), Numbers(up'), Numbers(t.deferred)}
        BY <1>1, <2>1, <3>1
      <3> QED BY <1>1, <1>5, <1>d, <2>1, <2>2, <2>3, <3>1, <3>2 DEF Flows
    <2>4. CASE f.type # "prompt"
      <3>1. ~Going(t) /\ Numbers(frames) = {}
        BY <1>1, <1>2, <1>5, <2>4 DEF Going
      <3> QED BY <1>1, <1>5, <1>d, <2>1, <2>2, <3>1 DEF Flows
    <2> QED BY <2>3, <2>4
  <1>8. Clears(c, t, frames)
    <2>1. ~Going(server[c])
      BY <1>1 DEF Going
    <2>2. Prompted(d) => Prompted(t.deferred) \/ Going(t)
      BY <1>2, <1>3, <1>5
    <2> QED BY <1>1, <1>5, <1>d, <2>1, <2>2 DEF Clears
  <1> QED BY <1>6, <1>7, <1>8 DEF ServerDoes

\* A step of the server that leaves the queues alone and announces no prompt.
LEMMA RunFlows ==
  ASSUME PageSound, NEW c \in Web!Conns, c = conn.n, NEW s, NEW frames,
         Numbers(up') \subseteq Numbers(up), Single(up'), conn.at # "up" => up' = <<>>,
         s.deferred = server[c].deferred,
         Single(frames), Numbers(frames) = {},
         Going(s) => /\ Going(server[c]) /\ s.run = server[c].run
                     /\ SaysOnly(server[c].new, s.run) => SaysOnly(s.new, s.run),
         \A i \in DOMAIN frames : frames[i].type = "agent_end" =>
           /\ Going(server[c])
           /\ SaysOnly(server[c].new, server[c].run) =>
                SaysOnly(frames[i].messages, server[c].run)
  PROVE  Flows(c, s, frames)
  <1> DEFINE asked == UNION {Numbers(sendQueue), Numbers(up'), Numbers(s.deferred)}
  <1>1. /\ Deferred = server[c].deferred /\ (Running <=> Going(server[c]))
    BY DEF Deferred, Running
  <1>2. asked \subseteq Asked
    BY <1>1 DEF Asked
  <1>3. Going(server[c]) => /\ server[c].run \in Sent /\ server[c].run \notin asked
                            /\ SaysOnly(server[c].new, server[c].run)
    BY <1>1, <1>2 DEF PageSound, LineInv
  <1>4. \A i \in DOMAIN frames : ~Announces(frames[i])
    BY DEF Numbers
  <1>5. Single(s.deferred) /\ Numbers(up') \cap Numbers(s.deferred) = {}
    BY <1>1 DEF PageSound, LineInv
  <1>6. Numbers(frames) \cap asked = {}
    OBVIOUS
  <1> HIDE DEF asked
  <1> QED BY <1>3, <1>4, <1>5, <1>6 DEF Flows, asked

LEMMA PageInbound ==
  ASSUME Web!WebInv, PageSound, NEW c \in Web!Conns, Web!Inbound(c)
  PROVE  ServerDoes(c)
  <1> DEFINE f == Head(up)
  <1>0. /\ DOMAIN server[c] = DOMAIN Web!NoServer /\ Listed(server[c].deferred) /\ Listed(up)
        /\ Web!Queue(up, Web!UpKinds)
    BY WebQueues DEF Web!WebInv, Web!FramesOK
  <1>1. conn.n = c /\ up # <<>> /\ up' = Tail(up)
    BY DEF Web!Inbound
  <1>2. /\ Listed(Tail(up)) /\ f.type \in Web!UpKinds
        /\ Numbers(up) = Numbers(Tail(up)) \cup (IF Announces(f) THEN {f.n} ELSE {})
        /\ Single(up) => Single(Tail(up)) /\ (Announces(f) => f.n \notin Numbers(Tail(up)))
        /\ Prompted(up) => f.type = "prompt" \/ Prompted(Tail(up))
    BY <1>0, <1>1, NumbersTail DEF Web!Queue
  <1>3. Announces(f) <=> f.type = "prompt"
    BY <1>2 DEF Announces, Web!UpKinds, Web!ServedKinds
  <1>f. f = Head(up)
    OBVIOUS
  <1> HIDE DEF f
  <1>4. /\ Deferred = server[c].deferred /\ Single(up) /\ Single(Deferred)
        /\ Numbers(sendQueue) \cap (Numbers(up) \cup Numbers(Deferred)) = {}
        /\ Numbers(up) \cap Numbers(Deferred) = {} /\ Numbers(up) \subseteq Sent
        /\ conn.at # "up" => up = <<>>
        /\ (Running <=> Going(server[c]))
    BY <1>1 DEF PageSound, LineInv, Deferred, Waits, Asked, Running
  <1>5. conn.at = "up"
    BY <1>1, <1>4
  <1>6. /\ Listed(<<>>) /\ Numbers(<<>>) = {} /\ Single(<<>>) /\ DOMAIN <<>> = {}
    BY ListedEmpty
  <1> USE DEF Web!Becomes, Web!browser, Web!store
  \* Frames that are no prompt, and change neither the run nor what is deferred.
  <1>7. ASSUME f.type # "prompt", NEW s, server' = [server EXCEPT ![c] = s],
               DOMAIN s = DOMAIN Web!NoServer, s.deferred = server[c].deferred,
               s.at = server[c].at, s.run = server[c].run, s.new = server[c].new,
               UNCHANGED <<conn, sendQueue, agent, page, saving, saved>>,
               Web!Emit(c, <<>>), \/ seen' = seen
                                  \/ \E x : seen' = [seen EXCEPT !.missed = x]
        PROVE  ServerDoes(c)
    <2>1. /\ DOMAIN seen' = DOMAIN seen /\ seen'.here = seen.here /\ seen'.runs = seen.runs
          /\ seen'.echoes = seen.echoes /\ seen'.broken = seen.broken
      BY <1>7 DEF PageSound, PageInv
    <2>2. Moves(c, s, <<>>)
      BY <1>0, <1>1, <1>6, <1>7, <2>1 DEF Moves
    <2>3. Going(s) <=> Going(server[c])
      BY <1>7 DEF Going
    <2>4. Flows(c, s, <<>>)
      <3>1. Numbers(up') \subseteq Numbers(up) /\ Single(up')
        BY <1>1, <1>2, <1>4
      <3> QED BY <1>1, <1>5, <1>6, <1>7, <2>3, <3>1, RunFlows
    <2>5. Clears(c, s, <<>>)
      BY <1>1, <1>2, <1>6, <1>7, <2>3 DEF Clears
    <2> QED BY <2>2, <2>4, <2>5 DEF ServerDoes
  <1>8. CASE f.type = "tool_result"
    <2> DEFINE s == IF f.n \in server[c].hub
                    THEN [server[c] EXCEPT !.hub = @ \ {f.n},
                                           !.got = @ \/ (server[c].at = "tool" /\ f.n = server[c].run)]
                    ELSE server[c]
    <2>1. /\ server' = [server EXCEPT ![c] = s] /\ Web!Emit(c, <<>>)
          /\ UNCHANGED <<conn, sendQueue, agent, page, saving, saved>>
          /\ seen' = IF server[c].at = "prepare" /\ f.n = server[c].run
                     THEN [seen EXCEPT !.missed = @ \cup {f.n}] ELSE seen
      BY <1>8, <1>f DEF Web!Inbound, Web!Resolve
    <2>2. /\ DOMAIN s = DOMAIN Web!NoServer /\ s.deferred = server[c].deferred
          /\ s.at = server[c].at /\ s.run = server[c].run /\ s.new = server[c].new
      BY <1>0 DEF Web!NoServer
    <2> HIDE DEF s
    <2>3. seen' = seen \/ \E x : seen' = [seen EXCEPT !.missed = x]
      BY <2>1
    <2> QED BY <1>7, <1>8, <2>1, <2>2, <2>3
  <1>9. CASE f.type = "abort" /\ Web!Busy(c)
    <2> DEFINE s == [server[c] EXCEPT !.cancelled = TRUE]
    <2>1. /\ server' = [server EXCEPT ![c] = s] /\ Web!Emit(c, <<>>)
          /\ UNCHANGED <<conn, sendQueue, agent, page, saving, saved>> /\ seen' = seen
      BY <1>9, <1>f DEF Web!Inbound, Web!Busy, Web!Idle
    <2>2. /\ DOMAIN s = DOMAIN Web!NoServer /\ s.deferred = server[c].deferred
          /\ s.at = server[c].at /\ s.run = server[c].run /\ s.new = server[c].new
      BY <1>0 DEF Web!NoServer
    <2> HIDE DEF s
    <2> QED BY <1>7, <1>9, <2>1, <2>2
  <1>10. CASE f.type \notin {"abort", "tool_result"} /\ Web!Busy(c)
    <2> DEFINE d == server[c].deferred  s == [server[c] EXCEPT !.deferred = Append(@, f)]
    <2>1. /\ server' = [server EXCEPT ![c] = s] /\ Web!Emit(c, <<>>)
          /\ UNCHANGED <<conn, sendQueue, agent, page, saving, saved>> /\ seen' = seen
      BY <1>10, <1>f DEF Web!Inbound, Web!Busy, Web!Idle
    <2>2. /\ DOMAIN s = DOMAIN Web!NoServer /\ s.deferred = Append(d, f)
          /\ s.at = server[c].at /\ s.run = server[c].run /\ s.new = server[c].new
      BY <1>0 DEF Web!NoServer
    <2>d. d = server[c].deferred
      OBVIOUS
    <2> HIDE DEF s, d
    <2>3. /\ Listed(Append(d, f))
          /\ Numbers(Append(d, f)) = Numbers(d) \cup (IF Announces(f) THEN {f.n} ELSE {})
          /\ Single(d) /\ (Announces(f) => f.n \notin Numbers(d)) => Single(Append(d, f))
          /\ Prompted(d) \/ f.type = "prompt" => Prompted(Append(d, f))
      BY <1>0, <2>d, NumbersAppend
    <2>4. Announces(f) => f.n \in Numbers(up) /\ f.n \notin Numbers(d)
      BY <1>2, <1>4, <2>d
    <2>5. Moves(c, s, <<>>)
      BY <1>1, <1>6, <2>1, <2>2, <2>3 DEF Moves
    <2>6. Going(s) <=> Going(server[c])
      BY <2>2 DEF Going
    <2>7. Flows(c, s, <<>>)
      <3> DEFINE asked == UNION {Numbers(sendQueue), Numbers(up'), Numbers(s.deferred)}
      <3>1. /\ Single(up') /\ Single(s.deferred) /\ Numbers(up') \cap Numbers(s.deferred) = {}
            /\ asked \subseteq Asked
            /\ Numbers(up') \cup Numbers(s.deferred) \subseteq Numbers(up) \cup Numbers(d)
        BY <1>1, <1>2, <1>4, <2>2, <2>3, <2>4, <2>d DEF Asked
      <3>2. Going(s) => /\ s.run \in Sent /\ s.run \notin asked /\ SaysOnly(s.new, s.run)
        BY <1>1, <1>4, <2>2, <2>6, <3>1 DEF PageSound, LineInv
      <3> HIDE DEF asked
      <3> QED BY <1>5, <1>6, <2>d, <3>1, <3>2 DEF Flows, asked
    <2>8. Clears(c, s, <<>>)
      BY <1>1, <1>2, <1>6, <2>1, <2>2, <2>3, <2>6, <2>d DEF Clears
    <2> QED BY <2>5, <2>7, <2>8 DEF ServerDoes
  <1>11. CASE f.type # "tool_result" /\ ~Web!Busy(c)
    <2>1. /\ Web!Serve(c, f, server[c]) /\ server[c].deferred = <<>> /\ seen' = seen
          /\ server[c].at = "idle"
      BY <1>11, <1>f DEF Web!Inbound, Web!Idle
    <2>2. f.type \in Web!ServedKinds
      BY <1>2, <1>11 DEF Web!UpKinds
    <2>3. PICK t, frames : Served(c, f, server[c], t, frames)
      BY <1>0, <2>1, <2>2, CommandServed
    <2> USE DEF Served
    <2>4. t.deferred = <<>>
      BY <2>1, <2>3
    <2>5. Moves(c, t, frames)
      BY <1>1, <1>6, <2>1, <2>3, <2>4 DEF Moves
    <2>6. Flows(c, t, frames)
      <3>1. /\ Single(up') /\ Single(t.deferred) /\ Numbers(t.deferred) = {}
            /\ Numbers(up') \subseteq Numbers(up)
        BY <1>1, <1>2, <1>4, <1>6, <2>4
      <3>2. CASE f.type = "prompt"
        <4>1. /\ Numbers(frames) = {f.n} /\ f.n \in Numbers(up) /\ f.n \notin Numbers(up')
              /\ f.n \in Sent
          BY <1>1, <1>2, <1>3, <1>4, <2>3, <3>2
        <4>2. f.n \notin UNION {Numbers(sendQueue), Numbers(up'), Numbers(t.deferred)}
          BY <1>4, <3>1, <4>1
        <4> QED BY <1>5, <2>3, <3>1, <3>2, <4>1, <4>2 DEF Flows
      <3>3. CASE f.type # "prompt"
        <4>1. ~Going(t) /\ Numbers(frames) = {}
          BY <2>1, <2>3, <3>3 DEF Going
        <4> QED BY <1>5, <2>3, <3>1, <4>1 DEF Flows
      <3> QED BY <3>2, <3>3
    <2>7. Clears(c, t, frames)
      <3>1. ~Going(server[c]) /\ ~Prompted(server[c].deferred)
        BY <2>1, ListedEmpty DEF Going
      <3> QED BY <1>1, <1>2, <2>3, <3>1 DEF Clears
    <2> QED BY <2>5, <2>6, <2>7 DEF ServerDoes
  <1> QED BY <1>8, <1>9, <1>10, <1>11

LEMMA RunMoves ==
  ASSUME Web!WebInv, PageSound, NEW c \in Web!Conns, NEW s, NEW frames,
         server' = [server EXCEPT ![c] = s], DOMAIN s = DOMAIN Web!NoServer,
         s.deferred = server[c].deferred,
         UNCHANGED <<conn, sendQueue, agent, page, saving, saved, up>>,
         DOMAIN seen' = DOMAIN seen, seen'.here = seen.here, seen'.runs = seen.runs,
         seen'.echoes = seen.echoes, ~seen'.broken => ~seen.broken,
         Listed(frames), Web!Emit(c, frames) \/ (frames = <<>> /\ down' = down),
         \A i \in DOMAIN frames : ~Announces(frames[i]),
         Going(s) => /\ Going(server[c]) /\ s.run = server[c].run
                     /\ SaysOnly(server[c].new, s.run) => SaysOnly(s.new, s.run),
         \A i \in DOMAIN frames : frames[i].type = "agent_end" =>
           /\ Going(server[c])
           /\ SaysOnly(server[c].new, server[c].run) =>
                SaysOnly(frames[i].messages, server[c].run),
         ~seen'.broken /\ Going(server[c]) => Going(s) \/ EndIn(frames, 0),
         \A i \in DOMAIN frames : frames[i].type \in Starts => Going(s) \/ EndIn(frames, i)
  PROVE  ServerDoes(c)
  <1>1. Listed(s.deferred)
    BY WebQueues
  <1>2. Moves(c, s, frames)
    BY <1>1 DEF Moves
  <1>3. Single(frames) /\ Numbers(frames) = {}
    BY DEF Single, Numbers
  <1>4. ASSUME c = conn.n PROVE Flows(c, s, frames)
    <2>1. Numbers(up') \subseteq Numbers(up) /\ Single(up') /\ (conn.at # "up" => up' = <<>>)
      BY DEF PageSound, LineInv
    <2> QED BY <1>3, <1>4, <2>1, RunFlows
  <1>5. Clears(c, s, frames)
    BY DEF Clears
  <1> QED BY <1>2, <1>4, <1>5 DEF ServerDoes

LEMMA PageRuns ==
  ASSUME Web!WebInv, PageSound, ClearInv, NEW c \in Web!Conns,
         \/ Web!Register(c) \/ Web!ToolReturns(c) \/ Web!Exits(c)
         \/ Web!ModelEnds(c) \/ Web!ModelCalls(c) \/ Web!RunFails(c)
  PROVE  ServerDoes(c)
  <1> DEFINE o == server[c]  run == o.run  new == o.new
  <1>0. /\ DOMAIN o = DOMAIN Web!NoServer /\ Listed(o.deferred)
        /\ {"here", "runs", "broken", "missed", "events", "echoes"} = DOMAIN seen
    BY WebQueues DEF PageSound, PageInv
  <1>e. /\ Listed(<<>>) /\ DOMAIN <<>> = {}
    BY ListedEmpty
  <1>o. o = server[c]
    OBVIOUS
  <1>s. \A n : SaysOnly(new, n) =>
          /\ \A k : SaysOnly(Append(new, Web!Answer(run, k)), n)
          /\ SaysOnly(Append(new, Web!Result(run)), n)
    BY SaysAppend, UsersDiffer DEF SaysOnly
  <1>t. \A m : Web!TurnEnd(m).type = "turn_end"
    BY DEF Web!TurnEnd
  <1>a. \A ms : Web!AgentEnd(ms).type = "agent_end" /\ Web!AgentEnd(ms).messages = ms
    BY DEF Web!AgentEnd, Web!WithMessages
  <1>f. \A x, n : Web!Frame(x, n).type = x
    BY DEF Web!Frame
  <1> DEFINE Over(t) == [t EXCEPT !.at = "idle", !.run = 0, !.k = 0, !.new = <<>>,
                                  !.got = FALSE, !.cancelled = FALSE]
  <1> USE DEF Web!Becomes, Web!browser, Web!store, Web!Ended
  <1>1. CASE Web!Register(c)
    <2> DEFINE s == [o EXCEPT !.at = "tool", !.hub = @ \cup {run}]
    <2>1. /\ server' = [server EXCEPT ![c] = s] /\ o.at = "prepare"
          /\ UNCHANGED <<conn, sendQueue, agent, page, saving, saved, up, down, seen>>
      BY <1>1 DEF Web!Register
    <2>2. /\ DOMAIN s = DOMAIN Web!NoServer /\ s.deferred = o.deferred
          /\ Going(s) /\ Going(o) /\ s.run = run /\ s.new = new
      BY <1>0, <2>1 DEF Web!NoServer, Going
    <2> HIDE DEF s, o
    <2> QED BY <1>e, <1>o, <2>1, <2>2, RunMoves
  <1>2. CASE Web!RunFails(c)
    <2> DEFINE s == Over(o)
    <2>1. /\ server' = [server EXCEPT ![c] = s] /\ seen' = [seen EXCEPT !.broken = TRUE]
          /\ UNCHANGED <<conn, sendQueue, agent, page, saving, saved, up, down>>
      BY <1>2 DEF Web!RunFails
    <2>2. /\ DOMAIN s = DOMAIN Web!NoServer /\ s.deferred = o.deferred /\ ~Going(s)
      BY <1>0 DEF Web!NoServer, Going
    <2>3. /\ DOMAIN seen' = DOMAIN seen /\ seen'.here = seen.here /\ seen'.runs = seen.runs
          /\ seen'.echoes = seen.echoes /\ seen'.broken
      BY <1>0, <2>1
    <2> HIDE DEF s, o
    <2> QED BY <1>e, <1>o, <2>1, <2>2, <2>3, RunMoves
  <1>3. CASE Web!Exits(c)
    <2> DEFINE s == [Web!NoServer EXCEPT !.at = "gone", !.eof = TRUE]
    <2>1. /\ server' = [server EXCEPT ![c] = s] /\ o.at = "idle" /\ o.eof
          /\ UNCHANGED <<conn, sendQueue, agent, page, saving, saved, up, down, seen>>
      BY <1>3 DEF Web!Exits, Web!Idle
    <2>2. DOMAIN s = DOMAIN Web!NoServer /\ s.deferred = <<>> /\ ~Going(s)
      BY DEF Web!NoServer, Going
    <2> HIDE DEF s
    <2>3. Moves(c, s, <<>>)
      BY <1>e, <2>1, <2>2 DEF Moves
    <2>4. ASSUME c = conn.n PROVE Flows(c, s, <<>>)
      <3>1. /\ Numbers(<<>>) = {} /\ Single(<<>>)
        BY ListedEmpty
      <3>2. Single(up) /\ (conn.at # "up" => up = <<>>)
        BY DEF PageSound, LineInv
      <3> QED BY <1>e, <2>1, <2>2, <3>1, <3>2 DEF Flows
    <2>5. ASSUME c = conn.n PROVE Clears(c, s, <<>>)
      <3>1. conn.n # 0 /\ conn.at # "up" /\ conn.at \in {"connecting", "up", "lost"}
        BY <2>1, <2>5, FrontEndsAssumption, WebQueues
           DEF Web!Conns, Web!WebInv, Web!SocketOK
      <3>2. seen'.broken
        BY <2>1, <3>1 DEF ClearInv
      <3> QED BY <3>2 DEF Clears
    <2> QED BY <2>3, <2>4, <2>5 DEF ServerDoes
  <1>4. CASE Web!ModelEnds(c)
    <2> DEFINE t == Over(o)  s == [t EXCEPT !.context = Append(@, Web!Answer(run, o.k))]
               ms == Append(new, Web!Answer(run, o.k))
               q == <<Web!TurnEnd(o), Web!AgentEnd(ms)>>
    <2>1. /\ server' = [server EXCEPT ![c] = s] /\ Web!Emit(c, q) /\ o.at = "model"
          /\ UNCHANGED <<conn, sendQueue, agent, page, saving, saved, up, seen>>
      BY <1>4 DEF Web!ModelEnds
    <2>2. DOMAIN t = DOMAIN Web!NoServer /\ t.deferred = o.deferred /\ t.at = "idle"
      BY <1>0 DEF Web!NoServer
    <2> HIDE DEF t
    <2>3. DOMAIN s = DOMAIN Web!NoServer /\ s.deferred = o.deferred /\ ~Going(s) /\ Going(o)
      BY <2>1, <2>2 DEF Web!NoServer, Going
    <2>4. /\ Listed(q) /\ DOMAIN q = {1, 2}
          /\ q[1].type = "turn_end" /\ q[2].type = "agent_end" /\ q[2].messages = ms
      <3> DEFINE a == Web!TurnEnd(o)  b == Web!AgentEnd(ms)  p == <<a, b>>
      <3>1. a.type = "turn_end" /\ b.type = "agent_end" /\ b.messages = ms
        BY <1>t, <1>a
      <3> HIDE DEF a, b
      <3>2. p \in Seq({a, b}) /\ DOMAIN p = {1, 2} /\ p[1] = a /\ p[2] = b
        OBVIOUS
      <3> HIDE DEF p
      <3>3. Listed(p)
        BY <3>2, ListedMade
      <3> QED BY <3>1, <3>2, <3>3 DEF p, a, b
    <2>5. SaysOnly(new, run) => SaysOnly(ms, run)
      BY <1>s
    <2> HIDE DEF s, q, o, ms
    <2>6. EndIn(q, 0) /\ \A i \in DOMAIN q : ~Announces(q[i]) /\ q[i].type \notin Starts
      BY <2>4 DEF EndIn, Announces, Starts
    <2>7. \A i \in DOMAIN q : q[i].type = "agent_end" => q[i].messages = ms
      BY <2>4
    <2> QED BY <1>o, <2>1, <2>3, <2>4, <2>5, <2>6, <2>7, RunMoves
  <1>5. CASE Web!ModelCalls(c)
    <2> DEFINE a == Web!Answer(run, o.k)  f == Web!Frame("tool_start", run)
               s == [o EXCEPT !.at = "prepare", !.context = Append(@, a), !.new = Append(@, a)]
    <2>1. /\ server' = [server EXCEPT ![c] = s] /\ Web!Emit(c, <<f>>) /\ o.at = "model"
          /\ UNCHANGED <<conn, sendQueue, agent, page, saving, saved, up, seen>>
      BY <1>5 DEF Web!ModelCalls
    <2>2. SaysOnly(new, run) => SaysOnly(Append(new, a), run)
      BY <1>s
    <2>3. f.type = "tool_start"
      BY <1>f
    <2> HIDE DEF a, f
    <2>4. /\ DOMAIN s = DOMAIN Web!NoServer /\ s.deferred = o.deferred
          /\ Going(s) /\ Going(o) /\ s.run = run /\ s.new = Append(new, a)
      BY <1>0, <2>1 DEF Web!NoServer, Going
    <2>5. Listed(<<f>>)
      BY NumbersOne
    <2>o. DOMAIN <<f>> = {1} /\ <<f>>[1] = f
      OBVIOUS
    <2>6. \A i \in DOMAIN <<f>> : ~Announces(<<f>>[i]) /\ <<f>>[i].type # "agent_end"
      BY <2>3, <2>o DEF Announces
    <2> HIDE DEF s, o
    <2> QED BY <1>o, <2>1, <2>2, <2>4, <2>5, <2>6, RunMoves
  <1>6. CASE Web!ToolReturns(c)
    <2> DEFINE told == [o EXCEPT !.context = Append(@, Web!Result(run)),
                                 !.new = Append(@, Web!Result(run)), !.got = FALSE]
               ms == Append(new, Web!Result(run))
               first == <<Web!Frame("tool_end", run), Web!TurnEnd(o)>>
               last == IF o.cancelled THEN <<Web!AgentEnd(told.new)>> ELSE <<>>
               s == IF o.cancelled THEN Over(told) ELSE [told EXCEPT !.at = "model", !.k = 2]
    <2>1. /\ server' = [server EXCEPT ![c] = s] /\ Web!Emit(c, first \o last) /\ o.at = "tool"
          /\ UNCHANGED <<conn, sendQueue, agent, page, saving, saved, up, seen>>
      BY <1>6 DEF Web!ToolReturns
    <2>2. /\ DOMAIN told = DOMAIN Web!NoServer /\ told.deferred = o.deferred
          /\ told.new = ms /\ told.run = run
      BY <1>0 DEF Web!NoServer
    <2>3. SaysOnly(new, run) => SaysOnly(ms, run)
      BY <1>s
    <2>4. /\ Listed(first) /\ DOMAIN first = {1, 2}
          /\ first[1].type = "tool_end" /\ first[2].type = "turn_end"
      <3> DEFINE a == Web!Frame("tool_end", run)  b == Web!TurnEnd(o)  p == <<a, b>>
      <3>1. a.type = "tool_end" /\ b.type = "turn_end"
        BY <1>t, <1>f
      <3> HIDE DEF a, b
      <3>2. p \in Seq({a, b}) /\ DOMAIN p = {1, 2} /\ p[1] = a /\ p[2] = b
        OBVIOUS
      <3> HIDE DEF p
      <3>3. Listed(p)
        BY <3>2, ListedMade
      <3> QED BY <3>1, <3>2, <3>3 DEF p, a, b
    <2>5. /\ Listed(last) /\ (o.cancelled => EndIn(last, 0))
          /\ \A i \in DOMAIN last : last[i].type = "agent_end" /\ last[i].messages = ms
      <3> DEFINE b == Web!AgentEnd(told.new)
      <3>1. b.type = "agent_end" /\ b.messages = ms
        BY <1>a, <2>2
      <3> HIDE DEF b
      <3>2. /\ Listed(<<b>>) /\ EndIn(<<b>>, 0)
        BY <3>1, NumbersOne
      <3>o. DOMAIN <<b>> = {1} /\ <<b>>[1] = b
        OBVIOUS
      <3>3. last = IF o.cancelled THEN <<b>> ELSE <<>>
        BY DEF b
      <3> HIDE DEF last
      <3> QED BY <1>e, <3>1, <3>2, <3>3, <3>o
    <2>6. /\ DOMAIN s = DOMAIN Web!NoServer /\ s.deferred = o.deferred /\ Going(o)
          /\ o.cancelled => ~Going(s)
          /\ ~o.cancelled => Going(s) /\ s.run = run /\ s.new = ms
      <3> HIDE DEF told
      <3> QED BY <2>1, <2>2 DEF Web!NoServer, Going
    <2> DEFINE q == first \o last
    <2>q. q = first \o last
      OBVIOUS
    <2> HIDE DEF s, o, ms, first, last, told, q
    <2>7. /\ Listed(q)
          /\ \A i \in DOMAIN last : Len(first) + i \in DOMAIN q /\ q[Len(first) + i] = last[i]
          /\ \A i \in DOMAIN q : \/ i \in DOMAIN first /\ q[i] = first[i]
                                 \/ \E k \in DOMAIN last : q[i] = last[k]
      <3>1. /\ Listed(q)
            /\ \A i \in DOMAIN first : i \in DOMAIN q /\ q[i] = first[i] /\ i <= Len(first)
            /\ \A i \in DOMAIN last : Len(first) + i \in DOMAIN q /\ q[Len(first) + i] = last[i]
            /\ \A k \in DOMAIN q : k \in DOMAIN first \/ \E i \in DOMAIN last : k = Len(first) + i
        BY <2>4, <2>5, JoinParts DEF q
      <3> QED BY <3>1
    <2>8. o.cancelled => EndIn(q, 0)
      <3> SUFFICES ASSUME o.cancelled PROVE EndIn(q, 0)
        OBVIOUS
      <3>1. PICK i \in DOMAIN last : last[i].type = "agent_end" /\ i > 0
        BY <2>5 DEF EndIn
      <3>2. Len(first) \in Nat /\ i \in Nat /\ Len(first) + i > 0
        BY <2>4, <2>5, <3>1, ListedParts
      <3> QED BY <2>7, <3>1, <3>2 DEF EndIn
    <2>9. \A i \in DOMAIN q : /\ ~Announces(q[i]) /\ q[i].type \notin Starts
                              /\ q[i].type = "agent_end" => q[i].messages = ms
      BY <2>4, <2>5, <2>7 DEF Announces, Starts
    <2>10. Web!Emit(c, q)
      BY <2>1, <2>q
    <2> QED BY <1>o, <2>1, <2>3, <2>6, <2>7, <2>8, <2>9, <2>10, RunMoves
  <1> QED BY <1>1, <1>2, <1>3, <1>4, <1>5, <1>6

\* A frame of the page that is on its way keeps its agent_end to come.
LEMMA ClearSends ==
  ASSUME Web!WebInv, ClearInv, NEW frames, Listed(frames), Web!Send(frames),
         UNCHANGED <<conn, down, server>>, seen'.broken = seen.broken,
         \/ agent'.streaming \/ agent'.pending # {} \/ agent'.suppress > 0 =>
              \/ agent.streaming \/ agent.pending # {} \/ agent.suppress > 0
              \/ Prompted(frames)
  PROVE  ClearInv'
  <1> SUFFICES ASSUME ~seen.broken PROVE ClearInv'
    BY DEF ClearInv
  <1>1. /\ conn.at \in {"up", "connecting"} /\ (conn.at = "connecting" => conn.n = 0)
        /\ agent.streaming \/ agent.pending # {} \/ agent.suppress > 0 => Comes
        /\ \A i \in DOMAIN down : down[i].type \in Starts => Running \/ EndIn(down, i)
    BY WebQueues DEF ClearInv, Starts
  <1>2. /\ Listed(sendQueue) /\ Listed(up) /\ (conn.open <=> conn.at # "connecting")
    BY WebQueues DEF Web!WebInv, Web!SocketOK
  <1>3. \A q \in {sendQueue, up} : Prompted(q) \/ Prompted(frames) => Prompted(q \o frames)
    BY <1>2, NumbersJoin
  <1>4. /\ Prompted(sendQueue) => Prompted(sendQueue')
        /\ Prompted(up) => Prompted(up')
        /\ Prompted(frames) => Prompted(sendQueue') \/ Prompted(up')
    BY <1>1, <1>2, <1>3 DEF Web!Send
  <1>5. Deferred' = Deferred /\ (Running' <=> Running)
    BY DEF Deferred, Running
  <1>6. Comes \/ Prompted(frames) => Comes'
    BY <1>4, <1>5 DEF Comes
  <1> QED BY <1>1, <1>5, <1>6 DEF ClearInv, Starts

\* The socket.
LEMMA PageOpens ==
  ASSUME Web!WebInv, PageSound, ClearInv, Web!Opens
  PROVE  PageSound' /\ ClearInv'
  <1>1. /\ conn' = [n |-> conn.n + 1, at |-> "up", open |-> TRUE] /\ conn.at = "connecting"
        /\ server' = [server EXCEPT ![conn.n + 1] = Web!Built]
        /\ up' = sendQueue /\ sendQueue' = <<>> /\ down' = <<>>
        /\ UNCHANGED <<agent, page, saving, saved, seen>>
    BY DEF Web!Opens, Web!store
  <1>2. conn.n \in Nat /\ conn.n + 1 \in Web!Conns
    BY WebQueues, FrontEndsAssumption DEF Web!Opens, Web!Conns
  <1>3. Web!Built.deferred = <<>> /\ Web!Built.at = "idle"
    BY DEF Web!Built, Web!NoServer
  <1>4. Deferred' = <<>> /\ ~Running'
    BY <1>1, <1>2, <1>3, WebQueues DEF Deferred, Running, Going
  <1>5. Numbers(<<>>) = {} /\ Single(<<>>) /\ DOMAIN <<>> = {} /\ ~Prompted(<<>>)
        /\ ~EndIn(<<>>, 0)
    BY ListedEmpty
  <1>6. up = <<>> /\ down = <<>> /\ Single(sendQueue) /\ Waits \subseteq Sent
    BY <1>1 DEF PageSound, LineInv
  <1>7. Asked' = Numbers(sendQueue) /\ Waits' = Numbers(sendQueue) /\ Sent' = Sent
    BY <1>1, <1>4, <1>5 DEF Asked, Waits, Sent
  <1>8. Waits' \subseteq Waits
    BY <1>7 DEF Waits, Asked
  <1>9. LineInv'
    BY <1>1, <1>4, <1>5, <1>6, <1>7, <1>8 DEF LineInv
  <1>10. PageSound'
    BY <1>1, <1>8, <1>9, PageStays DEF PageSound
  <1>11. ASSUME ~seen.broken PROVE ClearInv'
    <2>1. conn.n = 0 /\ (agent.streaming \/ agent.pending # {} \/ agent.suppress > 0 => Comes)
      BY <1>1, <1>11 DEF ClearInv
    <2>2. Deferred = <<>> /\ ~Running
      BY <2>1, FrontEndsAssumption DEF Deferred, Running, Web!Conns
    <2>3. Comes => Comes'
      BY <1>1, <1>5, <1>6, <2>2 DEF Comes
    <2> QED BY <1>1, <1>5, <2>1, <2>3 DEF ClearInv
  <1> QED BY <1>1, <1>10, <1>11 DEF ClearInv

LEMMA PageDrops ==
  ASSUME Web!WebInv, PageSound, ClearInv, Web!Drops
  PROVE  PageSound' /\ ClearInv'
  <1>0. /\ conn.at = "up" /\ conn.n \in Web!Conns
        /\ DOMAIN seen = {"here", "runs", "broken", "missed", "events", "echoes"}
        /\ DOMAIN server[conn.n] = DOMAIN Web!NoServer /\ DOMAIN server = Web!Conns
        /\ conn \in [n : Nat, at : {"connecting", "up", "lost"}, open : BOOLEAN]
    BY WebQueues DEF Web!Drops, PageSound, PageInv, Web!WebInv, Web!SocketOK, Web!FramesOK
  <1> DEFINE s == [server[conn.n] EXCEPT !.eof = TRUE]
  <1>1. /\ conn' = [conn EXCEPT !.at = "lost"] /\ server' = [server EXCEPT ![conn.n] = s]
        /\ up' = <<>> /\ down' = <<>>
        /\ seen' = [seen EXCEPT !.broken = TRUE, !.events = @ + 1]
        /\ UNCHANGED <<sendQueue, agent, page, saving, saved>>
    BY DEF Web!Drops, Web!store, Web!browser
  <1>2. /\ s.deferred = server[conn.n].deferred /\ s.at = server[conn.n].at
        /\ s.run = server[conn.n].run /\ s.new = server[conn.n].new
    BY <1>0
  <1> HIDE DEF s
  <1>3. conn'.n = conn.n /\ conn'.at = "lost" /\ server'[conn.n] = s
    BY <1>0, <1>1
  <1>4. /\ Deferred' = Deferred /\ (Running' <=> Running)
        /\ server'[conn'.n].run = server[conn.n].run /\ server'[conn'.n].new = server[conn.n].new
    BY <1>2, <1>3 DEF Deferred, Running, Going
  <1>5. Numbers(<<>>) = {} /\ Single(<<>>) /\ DOMAIN <<>> = {}
    BY ListedEmpty
  <1>6. Sent' = Sent /\ Asked' \subseteq Asked /\ Waits' \subseteq Waits /\ Numbers(down') = {}
    BY <1>1, <1>4, <1>5 DEF Sent, Asked, Waits
  <1>7. LineInv'
    BY <1>1, <1>3, <1>4, <1>5, <1>6 DEF PageSound, LineInv
  <1>8. /\ DOMAIN seen' = DOMAIN seen /\ seen'.here = seen.here /\ seen'.runs = seen.runs
        /\ seen'.echoes = seen.echoes /\ seen'.broken
    BY <1>0, <1>1
  <1>9. PageSound'
    BY <1>1, <1>6, <1>7, <1>8, PageStays DEF PageSound
  <1> QED BY <1>8, <1>9 DEF ClearInv

LEMMA PageCloses ==
  ASSUME Web!WebInv, PageSound, ClearInv, Web!NoticesLoss \/ Web!ConnectFails
  PROVE  PageSound' /\ ClearInv'
  <1>0. conn \in [n : Nat, at : {"connecting", "up", "lost"}, open : BOOLEAN]
    BY DEF Web!WebInv, Web!FramesOK
  <1>1. /\ conn' = [conn EXCEPT !.at = "connecting", !.open = FALSE] /\ conn.at # "up"
        /\ UNCHANGED <<sendQueue, agent, page, up, down, saving, saved, server, seen>>
    BY DEF Web!NoticesLoss, Web!ConnectFails, Web!Closed, Web!store
  <1>2. conn'.n = conn.n /\ conn'.at = "connecting"
    BY <1>0, <1>1
  <1>3. Deferred' = Deferred /\ (Running' <=> Running) /\ Sent' = Sent
    BY <1>1, <1>2 DEF Deferred, Running, Sent
  <1>4. Asked' = Asked /\ Waits' = Waits
    BY <1>1, <1>3 DEF Asked, Waits
  <1>5. LineInv'
    BY <1>1, <1>2, <1>3, <1>4 DEF PageSound, LineInv
  <1>6. PageSound'
    BY <1>1, <1>4, <1>5, PageStays DEF PageSound
  <1>7. ~seen.broken => conn.at = "connecting"
    BY <1>0, <1>1 DEF ClearInv
  <1>8. Comes' <=> Comes
    BY <1>1, <1>3 DEF Comes
  <1>9. ClearInv'
    BY <1>1, <1>2, <1>3, <1>7, <1>8 DEF ClearInv
  <1> QED BY <1>6, <1>9

\* Steps of the page alone that leave the line as it is.
LEMMA LineStays ==
  ASSUME PageSound, ClearInv, UNCHANGED <<conn, sendQueue, up, down, server>>, Sent' = Sent
  PROVE  /\ LineInv' /\ Waits' = Waits
         /\ UNCHANGED agent /\ seen'.broken = seen.broken => ClearInv'
  <1>1. Deferred' = Deferred /\ (Running' <=> Running)
    BY DEF Deferred, Running
  <1>2. Asked' = Asked /\ Waits' = Waits
    BY <1>1 DEF Asked, Waits
  <1>3. LineInv'
    BY <1>1, <1>2 DEF PageSound, LineInv
  <1>4. Comes' <=> Comes
    BY <1>1 DEF Comes
  <1>5. UNCHANGED agent /\ seen'.broken = seen.broken => ClearInv'
    BY <1>1, <1>4 DEF ClearInv
  <1> QED BY <1>2, <1>3, <1>5

LEMMA PageWaits ==
  ASSUME PageSound, ClearInv, Web!RequestTimesOut
  PROVE  PageSound' /\ ClearInv'
  <1>1. UNCHANGED <<conn, sendQueue, agent, page, up, down, saving, saved, server, seen>>
    BY DEF Web!RequestTimesOut, Web!store
  <1>2. Sent' = Sent
    BY <1>1 DEF Sent
  <1>3. LineInv' /\ Waits' = Waits /\ ClearInv'
    BY <1>1, <1>2, LineStays
  <1>4. PageSound'
    BY <1>1, <1>3, PageStays DEF PageSound
  <1> QED BY <1>3, <1>4

LEMMA PageSaves ==
  ASSUME PageSound, ClearInv, Web!Saves
  PROVE  PageSound' /\ ClearInv'
  <1>1. /\ UNCHANGED <<conn, sendQueue, agent, page, up, down, server, seen>>
        /\ saved' = [saved EXCEPT ![page.session] = saving] /\ saving' = <<>>
    BY DEF Web!Saves, Web!browser
  <1>2. Sent' = Sent
    BY <1>1 DEF Sent
  <1>3. LineInv' /\ Waits' = Waits /\ ClearInv'
    BY <1>1, <1>2, LineStays
  <1>4. SaysFrom(<<>>, Sent)
    BY ListedEmpty
  <1>5. PageInv'
    BY <1>1, <1>2, <1>3, <1>4 DEF PageSound, PageInv
  <1>6. EchoInv' /\ Web!SaidOnce'
    BY <1>1, <1>3 DEF PageSound, EchoInv, Web!SaidOnce
  <1> QED BY <1>3, <1>5, <1>6 DEF PageSound

LEMMA PageSubmits ==
  ASSUME PageSound, ClearInv, Web!Submit
  PROVE  PageSound' /\ ClearInv'
  <1>0. /\ DOMAIN page = {"session", "started", "sent", "uploading", "running"}
        /\ DOMAIN seen = {"here", "runs", "broken", "missed", "events", "echoes"}
        /\ page.sent \in Nat /\ page.uploading \subseteq 1..page.sent
    BY DEF PageSound, PageInv
  <1>1. /\ UNCHANGED <<conn, sendQueue, agent, up, down, saving, saved, server>>
        /\ page' = [page EXCEPT !.sent = @ + 1, !.uploading = @ \cup {page.sent + 1}]
        /\ seen' = [seen EXCEPT !.events = @ + 1]
    BY DEF Web!Submit, Web!Counted, Web!store
  <1>2. /\ DOMAIN page' = DOMAIN page /\ page'.sent = page.sent + 1
        /\ page'.uploading = page.uploading \cup {page.sent + 1}
        /\ DOMAIN seen' = DOMAIN seen /\ seen'.here = seen.here /\ seen'.runs = seen.runs
        /\ seen'.echoes = seen.echoes /\ seen'.broken = seen.broken
    BY <1>0, <1>1
  <1>3. 1..(page.sent + 1) = 1..page.sent \cup {page.sent + 1} /\ page.sent + 1 \notin 1..page.sent
    BY <1>0
  <1>4. Sent' = Sent
    BY <1>2, <1>3 DEF Sent
  <1>5. LineInv' /\ Waits' = Waits /\ ClearInv'
    BY <1>1, <1>2, <1>4, LineStays
  <1>6. PageInv'
    BY <1>0, <1>1, <1>2, <1>3, <1>4, <1>5 DEF PageSound, PageInv
  <1>7. EchoInv' /\ Web!SaidOnce'
    BY <1>1, <1>2, <1>5 DEF PageSound, EchoInv, Web!SaidOnce
  <1> QED BY <1>5, <1>6, <1>7 DEF PageSound

\* Frames the page sends that are no prompts.
LEMMA PageTells ==
  ASSUME Web!WebInv, PageSound, ClearInv, NEW f, f.type # "prompt", f.type # "message",
         Web!Send(<<f>>), UNCHANGED <<conn, down, server, agent, saving, saved>>,
         DOMAIN page' = DOMAIN page, page'.sent = page.sent, page'.uploading = page.uploading,
         DOMAIN seen' = DOMAIN seen, seen'.here = seen.here, seen'.runs = seen.runs,
         seen'.echoes = seen.echoes, seen'.broken = seen.broken
  PROVE  PageSound' /\ ClearInv'
  <1>1. /\ Listed(<<f>>) /\ Single(<<f>>) /\ Numbers(<<f>>) = {} /\ ~Prompted(<<f>>)
    BY NumbersOne DEF Announces
  <1>2. Sent' = Sent
    BY DEF Sent
  <1> DEFINE frames == <<f>>
  <1>3. Web!Send(frames) /\ Listed(frames) /\ Single(frames) /\ Numbers(frames) = {}
    BY <1>1
  <1> HIDE DEF frames
  <1>4. LineInv' /\ Waits' \subseteq Waits
    BY <1>2, <1>3, LineSends DEF PageSound
  <1>5. PageSound'
    BY <1>4, PageStays DEF PageSound
  <1>6. ClearInv'
    BY <1>3, ClearSends
  <1> QED BY <1>5, <1>6

LEMMA PageAsks ==
  ASSUME Web!WebInv, PageSound, ClearInv,
         Web!Request \/ Web!Abort \/ \E call \in page.running : Web!ToolDone(call)
  PROVE  PageSound' /\ ClearInv'
  <1>0. /\ DOMAIN page = {"session", "started", "sent", "uploading", "running"}
        /\ DOMAIN seen = {"here", "runs", "broken", "missed", "events", "echoes"}
    BY DEF PageSound, PageInv
  <1>1. \A x, n : Web!Frame(x, n).type = x
    BY DEF Web!Frame
  <1>2. \A x, n : x # "prompt" /\ x # "message" =>
          Web!Frame(x, n).type # "prompt" /\ Web!Frame(x, n).type # "message"
    BY <1>1
  <1>3. CASE Web!Request \/ Web!Abort
    <2>1. PICK x, n : /\ Web!Send(<<Web!Frame(x, n)>>)
                     /\ x \in {"request", "abort"}
      BY <1>3 DEF Web!Request, Web!Abort
    <2>2. /\ UNCHANGED <<conn, down, server, agent, saving, saved, page>>
          /\ seen' = [seen EXCEPT !.events = @ + 1]
      BY <1>3 DEF Web!Request, Web!Abort, Web!Counted, Web!store
    <2>3. /\ DOMAIN seen' = DOMAIN seen /\ seen'.here = seen.here /\ seen'.runs = seen.runs
          /\ seen'.echoes = seen.echoes /\ seen'.broken = seen.broken
      BY <1>0, <2>2
    <2>4. Web!Frame(x, n).type # "prompt" /\ Web!Frame(x, n).type # "message"
      BY <1>2, <2>1
    <2> QED BY <2>1, <2>2, <2>3, <2>4, PageTells
  <1>4. ASSUME NEW call \in page.running, Web!ToolDone(call) PROVE PageSound' /\ ClearInv'
    <2>1. /\ Web!Send(<<Web!Frame("tool_result", call)>>)
          /\ page' = [page EXCEPT !.running = @ \ {call}]
          /\ UNCHANGED <<conn, down, server, agent, saving, saved, seen>>
      BY <1>4 DEF Web!ToolDone, Web!store
    <2>2. DOMAIN page' = DOMAIN page /\ page'.sent = page.sent /\ page'.uploading = page.uploading
      BY <1>0, <2>1
    <2>3. /\ Web!Frame("tool_result", call).type # "prompt"
          /\ Web!Frame("tool_result", call).type # "message"
      BY <1>2
    <2> QED BY <2>1, <2>2, <2>3, PageTells
  <1> QED BY <1>3, <1>4

LEMMA PageShows ==
  ASSUME Web!WebInv, PageSound, ClearInv,
         Web!NewSession \/ \E s \in Web!Sessions : Web!LoadSession(s)
  PROVE  PageSound' /\ ClearInv'
  <1>0. /\ DOMAIN page = {"session", "started", "sent", "uploading", "running"}
        /\ DOMAIN seen = {"here", "runs", "broken", "missed", "events", "echoes"}
        /\ DOMAIN agent = {"messages", "streaming", "pending", "suppress"}
        /\ page.sent \in Nat /\ page.uploading \subseteq 1..page.sent
    BY DEF PageSound, PageInv
  <1>1. \E session, messages, f : /\ Web!Shows(session, messages, <<f>>)
                                  /\ SaysFrom(messages, Sent)
                                  /\ f.type # "prompt" /\ f.type # "message"
    <2>1. CASE Web!NewSession
      <3> DEFINE f == Web!Frame("new_session", 0)
      <3>1. f.type = "new_session"
        BY DEF Web!Frame
      <3>2. Web!Shows(page.started + 1, <<>>, <<f>>)
        BY <2>1 DEF Web!NewSession
      <3>3. SaysFrom(<<>>, Sent)
        BY ListedEmpty
      <3> HIDE DEF f
      <3> QED BY <3>1, <3>2, <3>3
    <2>2. ASSUME NEW s \in Web!Sessions, Web!LoadSession(s)
          PROVE  \E session, messages, f : /\ Web!Shows(session, messages, <<f>>)
                                           /\ SaysFrom(messages, Sent)
                                           /\ f.type # "prompt" /\ f.type # "message"
      <3> DEFINE f == Web!WithMessages("set_messages", 0, saved[s])
      <3>1. f.type = "set_messages"
        BY DEF Web!WithMessages
      <3>2. Web!Shows(s, saved[s], <<f>>)
        BY <2>2 DEF Web!LoadSession
      <3>3. SaysFrom(saved[s], Sent)
        BY DEF PageSound, PageInv
      <3> HIDE DEF f
      <3> QED BY <3>1, <3>2, <3>3
    <2> QED BY <2>1, <2>2
  <1>2. PICK session, messages, f : /\ Web!Shows(session, messages, <<f>>)
                                    /\ SaysFrom(messages, Sent)
                                    /\ f.type # "prompt" /\ f.type # "message"
    BY <1>1
  <1>3. /\ agent' = [agent EXCEPT !.messages = messages, !.streaming = FALSE, !.pending = {}]
        /\ saving' \in {saving, messages} /\ Web!Send(<<f>>)
        /\ seen' = [seen EXCEPT !.here = {}, !.runs = 0, !.events = @ + 1]
        /\ UNCHANGED <<conn, down, saved, server>>
    BY <1>2 DEF Web!Shows, Web!Persists
  <1>4. DOMAIN page' = DOMAIN page /\ page'.sent = page.sent /\ page'.uploading = page.uploading
    BY <1>0, <1>2 DEF Web!Shows
  <1>5. /\ agent'.messages = messages /\ ~agent'.streaming /\ agent'.pending = {}
        /\ agent'.suppress = agent.suppress /\ DOMAIN agent' = DOMAIN agent
        /\ DOMAIN seen' = DOMAIN seen /\ seen'.here = {} /\ seen'.runs = 0
        /\ seen'.echoes = seen.echoes /\ seen'.broken = seen.broken
    BY <1>0, <1>3
  <1>6. Sent' = Sent
    BY <1>4 DEF Sent
  <1>7. Listed(<<f>>) /\ Single(<<f>>) /\ Numbers(<<f>>) = {}
    BY <1>2, NumbersOne DEF Announces
  <1> DEFINE frames == <<f>>
  <1>8. Web!Send(frames) /\ Listed(frames) /\ Single(frames) /\ Numbers(frames) = {}
    BY <1>3, <1>7
  <1> HIDE DEF frames
  <1>9. LineInv' /\ Waits' \subseteq Waits
    BY <1>3, <1>6, <1>8, LineSends DEF PageSound
  <1>10. 0 \notin Waits'
    <2>1. 0 \notin Sent
      BY <1>0 DEF Sent
    <2> QED BY <1>9, <2>1 DEF PageSound, LineInv
  <1>11. PageInv'
    BY <1>0, <1>2, <1>3, <1>4, <1>5, <1>6, <1>10 DEF PageSound, PageInv
  <1>12. /\ Cardinality(Waits') <= Cardinality(Waits) /\ Cardinality(Waits') \in Nat
         /\ Cardinality(Waits) \in Nat /\ agent.suppress \in Nat
    BY <1>9, WaitsFinite, FS_Subset, FS_CardinalityType DEF PageSound, PageInv
  <1>13. EchoInv'
    BY <1>5, <1>12 DEF PageSound, EchoInv
  <1>14. Web!SaidOnce'
    BY <1>5 DEF Web!SaidOnce
  <1>15. ClearInv'
    BY <1>3, <1>5, <1>8, ClearSends
  <1> QED BY <1>9, <1>11, <1>13, <1>14, <1>15 DEF PageSound

\* A prompt is shown, sent and counted.
LEMMA PageSends ==
  ASSUME Web!WebInv, PageSound, ClearInv, NEW n \in page.uploading, Web!SendMessage(n)
  PROVE  PageSound' /\ ClearInv'
  <1> DEFINE ms == agent.messages  m == Web!User(n)  f == Web!Frame("prompt", n)
             W == Waits \cup {n}
  <1>0. /\ DOMAIN page = {"session", "started", "sent", "uploading", "running"}
        /\ DOMAIN seen = {"here", "runs", "broken", "missed", "events", "echoes"}
        /\ DOMAIN agent = {"messages", "streaming", "pending", "suppress"}
        /\ page.sent \in Nat /\ page.uploading \subseteq 1..page.sent /\ agent.suppress \in Nat
        /\ SaysFrom(ms, Sent) /\ SaysFrom(saving, Sent) /\ Waits \subseteq Sent
        /\ seen.runs \in Sent \cup {0} /\ seen.runs \notin Waits /\ seen.here \subseteq Sent
    BY DEF PageSound, PageInv, LineInv
  <1>1. /\ page' = [page EXCEPT !.uploading = @ \ {n}]
        /\ agent' = [agent EXCEPT !.messages = Append(@, m), !.suppress = @ + 1,
                                  !.streaming = conn.open]
        /\ Web!Send(<<f>>)
        /\ seen' = [seen EXCEPT !.here = @ \cup {n}, !.echoes = Web!CountsNext]
        /\ saving' \in {saving, Append(saving, m)}
        /\ UNCHANGED <<conn, down, saved, server>>
    BY DEF Web!SendMessage, Web!Pushes
  <1>2. f.type = "prompt" /\ f.n = n
    BY DEF Web!Frame
  <1>m. m = Web!User(n)
    OBVIOUS
  <1> HIDE DEF f, m
  <1>3. /\ DOMAIN page' = DOMAIN page /\ page'.sent = page.sent
        /\ page'.uploading = page.uploading \ {n}
        /\ DOMAIN agent' = DOMAIN agent /\ agent'.messages = Append(ms, m)
        /\ agent'.suppress = agent.suppress + 1
        /\ DOMAIN seen' = DOMAIN seen /\ seen'.here = seen.here \cup {n}
        /\ seen'.runs = seen.runs /\ seen'.broken = seen.broken
        /\ seen'.echoes = Web!CountsNext
    BY <1>0, <1>1
  <1>4. Sent' = Sent \cup {n} /\ n \notin Sent /\ n # 0 /\ n \in 1..page.sent
    BY <1>0, <1>3 DEF Sent
  <1> DEFINE frames == <<f>>
  <1>5. /\ Web!Send(frames) /\ Listed(frames) /\ Single(frames) /\ Numbers(frames) = {n}
        /\ Prompted(frames)
    BY <1>1, <1>2, NumbersOne DEF Announces
  <1> HIDE DEF frames
  <1>6. LineInv' /\ Waits' \subseteq W
    BY <1>1, <1>4, <1>5, LineSends DEF PageSound
  <1>7. ClearInv'
    BY <1>1, <1>3, <1>5, ClearSends
  <1>8. /\ IsFiniteSet(Waits) /\ Cardinality(Waits) \in Nat /\ n \notin Waits
        /\ IsFiniteSet(W) /\ Cardinality(W) = Cardinality(Waits) + 1
    BY <1>0, <1>4, WaitsFinite, FS_AddElement DEF PageSound
  <1>9. Cardinality(Waits') <= Cardinality(Waits) + 1 /\ Cardinality(Waits') \in Nat
    BY <1>6, <1>8, FS_Subset, FS_CardinalityType
  <1>10. Listed(ms) /\ Listed(saving)
    BY <1>0 DEF SaysFrom
  <1> HIDE DEF ms, W
  <1>11. /\ SaysFrom(Append(ms, m), Sent') /\ SaysFrom(saving', Sent')
         /\ \A s \in Web!Sessions : SaysFrom(saved[s], Sent')
    <2>1. m.role = "user" /\ \E k \in Sent' : m = Web!User(k)
      BY <1>4, <1>m, UsersDiffer
    <2>2. SaysFrom(ms, Sent') /\ SaysFrom(saving, Sent')
      BY <1>0, <1>4, SaysMore
    <2>3. \A s \in Web!Sessions : SaysFrom(saved[s], Sent')
      BY <1>4, SaysMore DEF PageSound, PageInv
    <2>4. ASSUME NEW u, Listed(u), SaysFrom(u, Sent') PROVE SaysFrom(Append(u, m), Sent')
      BY <2>1, <2>4, SaysAppend
    <2> QED BY <1>1, <1>10, <2>2, <2>3, <2>4
  <1>12. Web!CountsNext \in {"counted", "dropped", "wrong"}
    BY DEF Web!CountsNext, PageSound, PageInv
  <1>13. seen.runs # n /\ seen.runs \in Sent' \cup {0} /\ seen.runs \notin Waits'
    BY <1>0, <1>4, <1>6 DEF W
  <1>14. PageInv'
    <2>1. /\ agent'.suppress \in Nat /\ page'.sent \in Nat
          /\ page'.uploading \subseteq 1..page'.sent /\ seen'.here \subseteq Sent'
      BY <1>0, <1>3, <1>4
    <2>2. /\ DOMAIN saved' = Web!Sessions /\ \A s \in Web!Sessions : SaysFrom(saved'[s], Sent')
      BY <1>1, <1>11 DEF PageSound, PageInv
    <2> QED BY <1>0, <1>3, <1>11, <1>12, <1>13, <2>1, <2>2 DEF PageInv
  <1>15. /\ \A k : k # n => Web!Places(Append(ms, m), k) = Web!Places(ms, k)
         /\ Web!Places(ms, n) = {}
         /\ \E k : Web!Places(Append(ms, m), n) = {k}
    <2>1. \A k : k # n => Web!Places(Append(ms, m), k) = Web!Places(ms, k)
      BY <1>10, <1>m, SaysAppend, UsersDiffer
    <2>2. Web!Places(ms, n) = {}
      BY <1>0, <1>4, SaysNone DEF ms
    <2>3. \E k : Web!Places(Append(ms, m), n) = Web!Places(ms, n) \cup {k}
      <3>1. \A j : m = Web!User(j) =>
              \E k : k \notin DOMAIN ms /\ Web!Places(Append(ms, m), j) = Web!Places(ms, j) \cup {k}
        BY <1>10, SaysAppend
      <3> QED BY <1>m, <3>1
    <2> QED BY <2>1, <2>2, <2>3
  <1>16. /\ seen'.echoes = "counted" => seen.echoes = "counted" \/ (agent.suppress = 0 /\ Waits = {})
         /\ seen'.echoes # "dropped"
         /\ seen'.echoes # "wrong" => seen.echoes # "wrong"
    <2>1. Web!Awaited(down) <=> Waits # {}
      BY AwaitedIs DEF Waits
    <2>2. seen.echoes = "dropped" => agent.suppress = 0
      BY DEF PageSound, EchoInv
    <2> QED BY <1>3, <2>1, <2>2 DEF Web!CountsNext
  <1>17. EchoInv'
    <2>1. ASSUME seen'.echoes = "counted" PROVE Cardinality(Waits') <= agent'.suppress
      <3>1. CASE seen.echoes = "counted"
        <4>1. Cardinality(Waits) <= agent.suppress
          BY <3>1 DEF PageSound, EchoInv
        <4> QED BY <1>0, <1>3, <1>8, <1>9, <4>1
      <3>2. CASE agent.suppress = 0 /\ Waits = {}
        BY <1>3, <1>8, <1>9, <3>2, FS_EmptySet
      <3> QED BY <1>16, <2>1, <3>1, <3>2
    <2>2. ASSUME seen'.echoes = "counted", NEW k \in Waits' \cap seen'.here
          PROVE  Web!Places(Append(ms, m), k) # {}
      <3>1. CASE k = n
        BY <1>15, <3>1
      <3>2. CASE k # n
        <4>1. k \in Waits \cap seen.here
          BY <1>3, <1>6, <2>2, <3>2 DEF W
        <4>2. Web!Places(ms, k) # {}
          BY <1>16, <2>2, <4>1 DEF PageSound, EchoInv, ms
        <4> QED BY <1>15, <3>2, <4>2
      <3> QED BY <3>1, <3>2
    <2> QED BY <1>3, <1>16, <2>1, <2>2 DEF EchoInv
  <1>18. Web!SaidOnce'
    <2> SUFFICES ASSUME seen'.echoes # "wrong"
                 PROVE  /\ \A k \in seen'.here : \A i, j \in Web!Places(Append(ms, m), k) : i = j
                        /\ seen.runs \in seen'.here => Web!Places(Append(ms, m), seen.runs) # {}
      BY <1>3 DEF Web!SaidOnce
    <2>1. /\ \A k \in seen.here : \A i, j \in Web!Places(ms, k) : i = j
          /\ seen.runs \in seen.here => Web!Places(ms, seen.runs) # {}
      BY <1>16 DEF PageSound, Web!SaidOnce, ms
    <2>2. \A k \in seen'.here : k = n \/ (k # n /\ k \in seen.here)
      BY <1>3
    <2>3. \A k \in seen'.here : \A i, j \in Web!Places(Append(ms, m), k) : i = j
      <3> SUFFICES ASSUME NEW k \in seen'.here
                   PROVE  \A i, j \in Web!Places(Append(ms, m), k) : i = j
        OBVIOUS
      <3>1. CASE k = n
        BY <1>15, <3>1
      <3>2. CASE k # n
        BY <1>15, <2>1, <2>2, <3>2
      <3> QED BY <3>1, <3>2
    <2> QED BY <1>13, <1>15, <2>1, <2>2, <2>3
  <1> QED BY <1>6, <1>7, <1>14, <1>17, <1>18 DEF PageSound

\* A frame that the page takes from the line: a prompt is announced no more, and
\* what an agent_end tells of does not wait.
LEMMA LineReceives ==
  ASSUME Web!WebInv, PageSound, down # <<>>, down' = Tail(down),
         UNCHANGED <<conn, sendQueue, up, server>>, Sent' = Sent
  PROVE  LET f == Head(down) IN
         /\ LineInv' /\ Waits' \subseteq Waits
         /\ f.type = "message" => f.n \in Waits /\ f.n \notin Waits' /\ f.n \in Sent
         /\ f.type = "agent_end" =>
              \E n \in Sent : n \notin Waits' /\ SaysOnly(f.messages, n)
  <1> DEFINE f == Head(down)  t == Tail(down)
  <1>0. Listed(down)
    BY WebQueues
  <1>1. /\ Listed(t) /\ f = down[1] /\ 1 \in DOMAIN down
        /\ Numbers(down) = Numbers(t) \cup (IF Announces(f) THEN {f.n} ELSE {})
        /\ Single(down) => Single(t) /\ (Announces(f) => f.n \notin Numbers(t))
    BY <1>0, NumbersTail
  <1>2. /\ \A i \in DOMAIN t : i \in Nat /\ i > 0 /\ i + 1 \in DOMAIN down /\ t[i] = down[i + 1]
    BY <1>0, TailIs
  <1>3. down' = t
    OBVIOUS
  <1> HIDE DEF f, t
  <1>4. Deferred' = Deferred /\ (Running' <=> Running) /\ Asked' = Asked
    BY DEF Deferred, Running, Asked
  <1>5. Waits' = Asked \cup Numbers(t) /\ Waits = Asked \cup Numbers(down) /\ Waits \subseteq Sent
        /\ Asked \cap Numbers(down) = {} /\ Single(down)
    BY <1>3, <1>4 DEF Waits, PageSound, LineInv
  <1>6. ASSUME NEW i \in DOMAIN t, t[i].type = "agent_end"
        PROVE  \E n \in Sent : /\ n \notin Asked /\ SaysOnly(t[i].messages, n)
                               /\ \A j \in DOMAIN t : j > i /\ Announces(t[j]) => t[j].n # n
    <2>1. PICK n \in Sent :
            /\ n \notin Asked /\ SaysOnly(down[i + 1].messages, n)
            /\ \A j \in DOMAIN down : j > i + 1 /\ Announces(down[j]) => down[j].n # n
      BY <1>2, <1>6 DEF PageSound, LineInv
    <2>2. \A j \in DOMAIN t : j > i => j + 1 > i + 1
      BY <1>2
    <2> QED BY <1>2, <1>6, <2>1, <2>2
  <1>7. LineInv'
    <2>1. conn.at # "up" => t = <<>>
      BY DEF PageSound, LineInv
    <2>2. Numbers(t) \subseteq Numbers(down) /\ Single(t)
      BY <1>1, <1>5
    <2>3. /\ Asked' \cap Numbers(t) = {} /\ Waits' \subseteq Sent'
      BY <1>4, <1>5, <2>2
    <2>4. Running => /\ server[conn.n].run \in Sent /\ server[conn.n].run \notin Asked
                     /\ SaysOnly(server[conn.n].new, server[conn.n].run)
      BY DEF PageSound, LineInv
    <2>5. /\ Single(sendQueue) /\ Single(up) /\ Single(Deferred)
          /\ Numbers(sendQueue) \cap (Numbers(up) \cup Numbers(Deferred)) = {}
          /\ Numbers(up) \cap Numbers(Deferred) = {}
          /\ conn.at # "up" => up = <<>>
      BY DEF PageSound, LineInv
    <2> QED BY <1>3, <1>4, <1>6, <2>1, <2>2, <2>3, <2>4, <2>5 DEF LineInv
  <1>8. f.type = "message" => f.n \in Waits /\ f.n \notin Waits' /\ f.n \in Sent
    BY <1>1, <1>5 DEF Announces
  <1>9. ASSUME f.type = "agent_end"
        PROVE  \E n \in Sent : n \notin Waits' /\ SaysOnly(f.messages, n)
    <2>1. PICK n \in Sent :
            /\ n \notin Asked /\ SaysOnly(down[1].messages, n)
            /\ \A j \in DOMAIN down : j > 1 /\ Announces(down[j]) => down[j].n # n
      BY <1>1, <1>9 DEF PageSound, LineInv
    <2>2. n \notin Numbers(t)
      BY <1>2, <2>1 DEF Numbers
    <2> QED BY <1>1, <1>5, <2>1, <2>2
  <1> QED BY <1>1, <1>5, <1>7, <1>8, <1>9 DEF f

\* ... and of what an agent_end clears, one is still to come.
LEMMA ClearReceives ==
  ASSUME Web!WebInv, ClearInv, down # <<>>, down' = Tail(down),
         UNCHANGED <<conn, sendQueue, up, server>>, seen'.broken = seen.broken,
         Head(down).type = "agent_end" =>
           ~agent'.streaming /\ agent'.pending = {} /\ ~(agent'.suppress > 0),
         agent'.streaming \/ agent'.pending # {} \/ agent'.suppress > 0 =>
           \/ agent.streaming \/ agent.pending # {} \/ agent.suppress > 0
           \/ Head(down).type \in Starts
  PROVE  ClearInv'
  <1> DEFINE f == Head(down)  t == Tail(down)
  <1> SUFFICES ASSUME ~seen.broken PROVE ClearInv'
    BY DEF ClearInv
  <1>0. Listed(down)
    BY WebQueues
  <1>1. /\ Listed(t) /\ f = down[1] /\ 1 \in DOMAIN down
        /\ EndIn(down, 0) => f.type = "agent_end" \/ EndIn(t, 0)
    BY <1>0, NumbersTail
  <1>2. /\ \A i \in DOMAIN t : i \in Nat /\ i > 0 /\ i + 1 \in DOMAIN down /\ t[i] = down[i + 1]
        /\ \A i \in DOMAIN down : i = 1 \/ (i \in Nat /\ i > 1 /\ i - 1 \in DOMAIN t
                                              /\ t[i - 1] = down[i])
    BY <1>0, TailIs
  <1>3. down' = t
    OBVIOUS
  <1>4. f = Head(down)
    OBVIOUS
  <1> HIDE DEF f, t
  <1>5. /\ conn.at # "lost" /\ (conn.at = "connecting" => conn.n = 0)
        /\ agent.streaming \/ agent.pending # {} \/ agent.suppress > 0 => Comes
        /\ \A i \in DOMAIN down : down[i].type \in Starts => Running \/ EndIn(down, i)
    BY DEF ClearInv, Starts
  <1>6. Deferred' = Deferred /\ (Running' <=> Running)
    BY DEF Deferred, Running
  <1>7. ASSUME NEW i \in DOMAIN t \cup {0}, EndIn(down, i + 1) PROVE EndIn(t, i)
    <2>1. PICK j \in DOMAIN down : j > i + 1 /\ down[j].type = "agent_end"
      BY <1>7 DEF EndIn
    <2>2. i \in Nat
      BY <1>2
    <2>3. j # 1
      BY <2>1, <2>2
    <2>4. j \in Nat /\ j - 1 \in DOMAIN t /\ t[j - 1] = down[j]
      BY <1>2, <2>3
    <2>5. j - 1 > i
      BY <2>1, <2>2, <2>4
    <2> QED BY <2>1, <2>4, <2>5 DEF EndIn
  <1>8. \A i \in DOMAIN t : t[i].type \in Starts => Running' \/ EndIn(t, i)
    BY <1>2, <1>5, <1>6, <1>7
  <1>9. f.type \in Starts => Running' \/ EndIn(t, 0)
    <2>1. 0 + 1 = 1
      OBVIOUS
    <2> QED BY <1>1, <1>5, <1>6, <1>7, <2>1
  <1>10. f.type # "agent_end" /\ Comes => Comes'
    BY <1>1, <1>3, <1>6 DEF Comes
  <1>11. Running' \/ EndIn(t, 0) => Comes'
    BY <1>3 DEF Comes
  <1>12. agent'.streaming \/ agent'.pending # {} \/ agent'.suppress > 0 => Comes'
    BY <1>4, <1>5, <1>9, <1>10, <1>11
  <1> QED BY <1>3, <1>5, <1>8, <1>12 DEF ClearInv, Starts

\* A frame after which the page says what it said.
LEMMA PageKeeps ==
  ASSUME Web!WebInv, PageSound, LineInv', Waits' \subseteq Waits, Sent' = Sent,
         DOMAIN page' = DOMAIN page, page'.sent = page.sent, page'.uploading = page.uploading,
         DOMAIN agent' = DOMAIN agent, agent'.suppress = agent.suppress,
         SaysFrom(agent'.messages, Sent),
         \A n : Web!Places(agent'.messages, n) = Web!Places(agent.messages, n),
         saving' \in {saving, agent'.messages}, saved' = saved,
         DOMAIN seen' = DOMAIN seen, seen'.here = seen.here, seen'.runs = seen.runs,
         seen'.echoes = seen.echoes
  PROVE  PageSound'
  <1>1. /\ Cardinality(Waits') <= Cardinality(Waits) /\ Cardinality(Waits') \in Nat
        /\ Cardinality(Waits) \in Nat /\ agent.suppress \in Nat
    BY WaitsFinite, FS_Subset, FS_CardinalityType DEF PageSound, PageInv
  <1>2. PageInv'
    BY DEF PageSound, PageInv
  <1>3. EchoInv'
    BY <1>1 DEF PageSound, EchoInv
  <1>4. Web!SaidOnce'
    BY DEF PageSound, Web!SaidOnce
  <1> QED BY <1>2, <1>3, <1>4 DEF PageSound

LEMMA PageReceives ==
  ASSUME Web!WebInv, PageSound, ClearInv, Web!Receive
  PROVE  PageSound' /\ ClearInv'
  <1> DEFINE f == Head(down)  ms == agent.messages
  <1>0. /\ DOMAIN page = {"session", "started", "sent", "uploading", "running"}
        /\ DOMAIN seen = {"here", "runs", "broken", "missed", "events", "echoes"}
        /\ DOMAIN agent = {"messages", "streaming", "pending", "suppress"}
        /\ page.sent \in Nat /\ agent.suppress \in Nat
        /\ SaysFrom(ms, Sent) /\ SaysFrom(saving, Sent) /\ seen.here \subseteq Sent
        /\ \A s \in Web!Sessions : SaysFrom(saved[s], Sent)
    BY DEF PageSound, PageInv
  <1>1. /\ down # <<>> /\ down' = Tail(down) /\ agent' = Web!Handled(f)
        /\ saving' \in {saving, agent'.messages}
        /\ UNCHANGED <<conn, sendQueue, up, saved, server>>
        /\ page' \in {page, [page EXCEPT !.running = @ \cup {f.n}]}
        /\ seen' = [seen EXCEPT !.runs = CASE f.type = "message" -> f.n
                                           [] f.type = "agent_end" -> 0
                                           [] OTHER -> @,
                                !.echoes = IF f.type # "agent_end" THEN @
                                           ELSE IF Web!Awaited(Tail(down)) THEN "dropped"
                                                                          ELSE "counted"]
    BY DEF Web!Receive, Web!Persists
  <1>2. f.type \in Web!DownKinds
    BY <1>1, QueueTail DEF Web!WebInv, Web!FramesOK
  <1>3. /\ DOMAIN page' = DOMAIN page /\ page'.sent = page.sent
        /\ page'.uploading = page.uploading
        /\ DOMAIN seen' = DOMAIN seen /\ seen'.here = seen.here /\ seen'.broken = seen.broken
    BY <1>0, <1>1
  <1>4. Sent' = Sent
    BY <1>3 DEF Sent
  <1>5. /\ LineInv' /\ Waits' \subseteq Waits
        /\ f.type = "message" => f.n \in Waits /\ f.n \notin Waits' /\ f.n \in Sent
        /\ f.type = "agent_end" =>
             \E n \in Sent : n \notin Waits' /\ SaysOnly(f.messages, n)
    BY <1>1, <1>4, LineReceives
  <1>6. Listed(ms)
    BY <1>0 DEF SaysFrom
  <1>f. f = Head(down)
    OBVIOUS
  <1> HIDE DEF f
  <1>7. CASE f.type \in {"agent_start", "tool_start", "tool_end", "response", "turn_end"}
    <2>1. seen'.runs = seen.runs /\ seen'.echoes = seen.echoes
      BY <1>0, <1>1, <1>7
    <2>2. CASE f.type # "turn_end"
      <3>1. /\ DOMAIN agent' = DOMAIN agent /\ agent'.messages = ms
            /\ agent'.suppress = agent.suppress
            /\ agent'.streaming # agent.streaming => f.type = "agent_start"
            /\ agent'.pending \subseteq agent.pending \/ f.type = "tool_start"
        <4>1. CASE f.type = "agent_start"
          BY <1>0, <1>1, <4>1 DEF Web!Handled
        <4>2. CASE f.type = "tool_start"
          BY <1>0, <1>1, <4>2 DEF Web!Handled
        <4>3. CASE f.type = "tool_end"
          BY <1>0, <1>1, <4>3 DEF Web!Handled
        <4>4. CASE f.type = "response"
          BY <1>1, <4>4 DEF Web!Handled
        <4> QED BY <1>7, <2>2, <4>1, <4>2, <4>3, <4>4
      <3>2. PageSound'
        BY <1>0, <1>1, <1>3, <1>4, <1>5, <2>1, <3>1, PageKeeps
      <3>3. ClearInv'
        BY <1>1, <1>3, <1>7, <1>f, <3>1, ClearReceives DEF Starts
      <3> QED BY <3>2, <3>3
    <2>3. CASE f.type = "turn_end"
      <3> DEFINE a == Web!Answer(f.n, f.k)
      <3>1. a.role = "assistant" /\ \A n : a # Web!User(n)
        BY UsersDiffer DEF Web!Answer, Web!User
      <3>2. agent' = [agent EXCEPT !.messages = Append(@, a)]
        BY <1>1, <2>3 DEF Web!Handled
      <3> HIDE DEF a
      <3>3. /\ DOMAIN agent' = DOMAIN agent /\ agent'.messages = Append(ms, a)
            /\ agent'.suppress = agent.suppress /\ agent'.streaming = agent.streaming
            /\ agent'.pending = agent.pending
        BY <1>0, <3>2
      <3>4. /\ SaysFrom(Append(ms, a), Sent)
            /\ \A n : Web!Places(Append(ms, a), n) = Web!Places(ms, n)
        BY <1>0, <1>6, <3>1, SaysAppend
      <3>5. PageSound'
        BY <1>1, <1>3, <1>4, <1>5, <2>1, <3>3, <3>4, PageKeeps
      <3>6. ClearInv'
        BY <1>1, <1>3, <1>7, <1>f, <3>3, ClearReceives
      <3> QED BY <3>5, <3>6
    <2> QED BY <2>2, <2>3
  <1>8. CASE f.type = "message"
    <2>0. /\ seen'.runs = f.n /\ seen'.echoes = seen.echoes
      BY <1>0, <1>1, <1>8
    <2>1. /\ IsFiniteSet(Waits) /\ Cardinality(Waits) \in Nat
      BY WaitsFinite DEF PageSound
    <2>2. /\ Cardinality(Waits') <= Cardinality(Waits) - 1 /\ Cardinality(Waits') \in Nat
      <3> DEFINE W == Waits \ {f.n}
      <3>1. Waits' \subseteq W /\ f.n \in Waits
        BY <1>5, <1>8
      <3>2. IsFiniteSet(W) /\ Cardinality(W) = Cardinality(Waits) - 1
        BY <2>1, <3>1, FS_RemoveElement
      <3> HIDE DEF W
      <3> QED BY <3>1, <3>2, FS_Subset, FS_CardinalityType
    <2>3. CASE agent.suppress > 0
      <3>1. agent' = [agent EXCEPT !.suppress = @ - 1]
        BY <1>1, <1>8, <2>3 DEF Web!Handled, Web!Echo
      <3>2. /\ DOMAIN agent' = DOMAIN agent /\ agent'.messages = ms
            /\ agent'.suppress = agent.suppress - 1 /\ agent'.suppress \in Nat
            /\ agent'.streaming = agent.streaming /\ agent'.pending = agent.pending
        <4>1. agent.suppress - 1 \in Nat
          BY <1>0, <2>3
        <4> QED BY <1>0, <3>1, <4>1
      <3>3. PageInv'
        BY <1>0, <1>1, <1>3, <1>4, <1>5, <1>8, <2>0, <3>2 DEF PageSound, PageInv
      <3>4. EchoInv'
        <4>1. seen.echoes = "counted" => Cardinality(Waits) - 1 <= agent.suppress - 1
          BY <1>0, <2>1 DEF PageSound, EchoInv
        <4>2. seen.echoes = "counted" => Cardinality(Waits') <= agent.suppress - 1
          BY <1>0, <2>1, <2>2, <4>1
        <4>3. seen.echoes # "dropped"
          BY <2>3 DEF PageSound, EchoInv
        <4> QED BY <1>3, <1>5, <2>0, <3>2, <4>2, <4>3 DEF PageSound, EchoInv
      <3>5. Web!SaidOnce'
        <4>1. seen.echoes # "dropped" /\ seen.echoes \in {"counted", "dropped", "wrong"}
          BY <2>3 DEF PageSound, EchoInv, PageInv
        <4>2. seen.echoes = "counted" /\ f.n \in seen.here => Web!Places(ms, f.n) # {}
          BY <1>5, <1>8 DEF PageSound, EchoInv
        <4> QED BY <1>3, <2>0, <3>2, <4>1, <4>2 DEF PageSound, Web!SaidOnce
      <3>6. ClearInv'
        BY <1>0, <1>1, <1>3, <1>8, <1>f, <2>3, <3>2, ClearReceives
      <3> QED BY <1>5, <3>3, <3>4, <3>5, <3>6 DEF PageSound
    <2>4. CASE ~(agent.suppress > 0)
      <3> DEFINE m == Web!User(f.n)
      <3>1. agent' = [agent EXCEPT !.messages = Append(@, m)]
        BY <1>1, <1>8, <2>4 DEF Web!Handled, Web!Echo
      <3>m. m = Web!User(f.n)
        OBVIOUS
      <3> HIDE DEF m
      <3>2. /\ DOMAIN agent' = DOMAIN agent /\ agent'.messages = Append(ms, m)
            /\ agent'.suppress = agent.suppress
            /\ agent'.streaming = agent.streaming /\ agent'.pending = agent.pending
        BY <1>0, <3>1
      <3>3. SaysFrom(Append(ms, m), Sent)
        BY <1>0, <1>5, <1>6, <1>8, <3>m, SaysAppend
      <3>4. PageInv'
        <4>1. saved' = saved /\ saving' \in {saving, Append(ms, m)}
          BY <1>1, <3>2
        <4>2. SaysFrom(saving', Sent)
          BY <1>0, <3>3, <4>1
        <4>3. seen'.runs \in Sent /\ seen'.runs \notin Waits'
          BY <1>5, <1>8, <2>0
        <4> QED BY <1>3, <1>4, <2>0, <3>2, <3>3, <4>1, <4>2, <4>3 DEF PageSound, PageInv
      <3>5. /\ \A k : k # f.n => Web!Places(Append(ms, m), k) = Web!Places(ms, k)
            /\ \E k : Web!Places(Append(ms, m), f.n) = Web!Places(ms, f.n) \cup {k}
        <4>1. \A j : m = Web!User(j) =>
                \E k : k \notin DOMAIN ms /\ Web!Places(Append(ms, m), j) = Web!Places(ms, j) \cup {k}
          BY <1>6, SaysAppend
        <4>2. \A j : m # Web!User(j) => Web!Places(Append(ms, m), j) = Web!Places(ms, j)
          BY <1>6, SaysAppend
        <4>3. \A j : j # f.n => m # Web!User(j)
          BY <3>m, UsersDiffer
        <4> QED BY <3>m, <4>1, <4>2, <4>3
      <3>6. seen.echoes # "counted"
        BY <1>0, <2>1, <2>2, <2>4 DEF PageSound, EchoInv
      <3>7. seen.echoes = "dropped" =>
              /\ agent.suppress = 0
              /\ \A k \in Waits \cap seen.here : Web!Places(ms, k) = {}
        BY DEF PageSound, EchoInv
      <3>8. EchoInv'
        BY <1>3, <1>5, <1>8, <2>0, <3>2, <3>5, <3>6, <3>7 DEF EchoInv
      <3>9. Web!SaidOnce'
        <4> SUFFICES ASSUME seen.echoes = "dropped"
                     PROVE  /\ \A n \in seen.here : \A i, j \in Web!Places(Append(ms, m), n) : i = j
                            /\ Web!Places(Append(ms, m), f.n) # {}
          BY <1>3, <2>0, <3>2, <3>6 DEF Web!SaidOnce, PageSound, PageInv
        <4>1. \A n \in seen.here : \A i, j \in Web!Places(ms, n) : i = j
          BY DEF PageSound, Web!SaidOnce
        <4>2. f.n \in seen.here => Web!Places(ms, f.n) = {}
          BY <1>5, <1>8, <3>7
        <4>3. ASSUME NEW n \in seen.here PROVE \A i, j \in Web!Places(Append(ms, m), n) : i = j
          <5>1. CASE n = f.n
            BY <3>5, <4>2, <5>1
          <5>2. CASE n # f.n
            BY <3>5, <4>1, <5>2
          <5> QED BY <5>1, <5>2
        <4> QED BY <3>5, <4>3
      <3>10. ClearInv'
        BY <1>1, <1>3, <1>8, <1>f, <3>2, ClearReceives
      <3> QED BY <1>5, <3>4, <3>8, <3>9, <3>10 DEF PageSound
    <2> QED BY <2>3, <2>4
  <1>9. CASE f.type = "agent_end"
    <2>1. PICK n \in Sent : n \notin Waits' /\ SaysOnly(f.messages, n)
      BY <1>5, <1>9
    <2>2. agent' = [agent EXCEPT !.messages = f.messages, !.streaming = FALSE, !.pending = {},
                                 !.suppress = 0]
      BY <1>1, <1>9 DEF Web!Handled, Web!AgentEnds
    <2>3. /\ DOMAIN agent' = DOMAIN agent /\ agent'.messages = f.messages
          /\ ~agent'.streaming /\ agent'.pending = {} /\ agent'.suppress = 0
      BY <1>0, <2>2
    <2>4. /\ seen'.runs = 0
          /\ seen'.echoes = IF Web!Awaited(Tail(down)) THEN "dropped" ELSE "counted"
      BY <1>0, <1>1, <1>9
    <2>5. Web!Awaited(Tail(down)) <=> Waits' # {}
      <3>1. Asked' = Asked
        BY <1>1 DEF Asked, Deferred
      <3> QED BY <1>1, <3>1, AwaitedIs DEF Waits
    <2>6. /\ \A m : \A i, j \in Web!Places(f.messages, m) : i = j
          /\ \A m : m # n => Web!Places(f.messages, m) = {}
          /\ SaysFrom(f.messages, Sent)
      BY <2>1, SaysOnlyPlaces
    <2>7. 0 \notin Sent /\ 0 \notin Waits'
      <3>1. 0 \notin Sent
        BY <1>0 DEF Sent
      <3> QED BY <1>5, <3>1 DEF PageSound, LineInv
    <2>8. PageInv'
      BY <1>0, <1>1, <1>3, <1>4, <2>3, <2>4, <2>6, <2>7 DEF PageSound, PageInv
    <2>9. EchoInv'
      <3>1. ASSUME Waits' = {} PROVE Cardinality(Waits') <= 0
        BY <3>1, FS_EmptySet
      <3>2. \A m \in Waits' : Web!Places(f.messages, m) = {}
        BY <2>1, <2>6
      <3> QED BY <2>3, <2>4, <2>5, <3>1, <3>2 DEF EchoInv
    <2>10. Web!SaidOnce'
      BY <1>0, <1>3, <2>3, <2>4, <2>6, <2>7 DEF Web!SaidOnce
    <2>11. ClearInv'
      <3>1. ~(agent'.suppress > 0)
        BY <2>3
      <3> QED BY <1>1, <1>3, <1>f, <2>3, <3>1, ClearReceives
    <2> QED BY <1>5, <2>8, <2>9, <2>10, <2>11 DEF PageSound
  <1> QED BY <1>2, <1>7, <1>8, <1>9 DEF Web!DownKinds

LEMMA PageStep ==
  ASSUME Web!WebInv, PageSound, ClearInv, Web!Next
  PROVE  PageSound' /\ ClearInv'
  <1>1. CASE Web!Network
    BY <1>1, PageOpens, PageDrops, PageCloses DEF Web!Network
  <1>2. CASE Web!Person
    BY <1>2, PageSubmits, PageAsks, PageShows DEF Web!Person
  <1>3. CASE Web!Page
    BY <1>3, PageWaits, PageSaves, PageReceives, PageSends, PageAsks DEF Web!Page
  <1>4. ASSUME NEW c \in Web!Conns,
               Web!Dispatcher(c) \/ Web!ModelEnds(c) \/ Web!ModelCalls(c) \/ Web!RunFails(c)
        PROVE  PageSound' /\ ClearInv'
    <2>1. ServerDoes(c)
      BY <1>4, PageTakes, PageInbound, PageRuns DEF Web!Dispatcher
    <2>2. PICK s, frames : /\ Moves(c, s, frames)
                           /\ c = conn.n => Flows(c, s, frames) /\ Clears(c, s, frames)
      BY <2>1 DEF ServerDoes
    <2> QED BY <2>2, PageServes, ClearServes
  <1> QED BY <1>1, <1>2, <1>3, <1>4 DEF Web!Next

LEMMA PageStarts ==
  ASSUME Web!Init
  PROVE  PageSound /\ ClearInv
  <1>1. /\ conn = [n |-> 0, at |-> "connecting", open |-> FALSE]
        /\ sendQueue = <<>> /\ up = <<>> /\ down = <<>>
        /\ agent = [messages |-> <<>>, streaming |-> FALSE, pending |-> {}, suppress |-> 0]
        /\ page = [session |-> 1, started |-> 1, sent |-> 0, uploading |-> {}, running |-> {}]
        /\ saving = <<>> /\ saved = [s \in Web!Sessions |-> <<>>]
        /\ seen = [here |-> {}, runs |-> 0, broken |-> FALSE, missed |-> {}, events |-> 0,
                   echoes |-> "counted"]
    BY DEF Web!Init
  <1>2. conn.n \notin Web!Conns
    BY <1>1, FrontEndsAssumption DEF Web!Conns
  <1>3. Deferred = <<>> /\ ~Running
    BY <1>2 DEF Deferred, Running
  <1>4. Numbers(<<>>) = {} /\ Single(<<>>) /\ DOMAIN <<>> = {}
        /\ \A N : SaysFrom(<<>>, N)
    BY ListedEmpty
  <1>5. Asked = {} /\ Waits = {} /\ Sent = {}
    <2>1. Asked = {} /\ Waits = {}
      BY <1>1, <1>3, <1>4 DEF Asked, Waits
    <2>2. 1..page.sent = {}
      BY <1>1
    <2> QED BY <2>1, <2>2 DEF Sent
  <1>6. LineInv
    BY <1>1, <1>3, <1>4, <1>5 DEF LineInv
  <1>7. PageInv
    BY <1>1, <1>4, <1>5 DEF PageInv
  <1>8. EchoInv
    BY <1>1, <1>5, FS_EmptySet DEF EchoInv
  <1>9. Web!SaidOnce
    BY <1>1 DEF Web!SaidOnce
  <1>10. ClearInv
    BY <1>1, <1>4 DEF ClearInv
  <1> QED BY <1>6, <1>7, <1>8, <1>9, <1>10 DEF PageSound

PageHolds == subject = "web" => PageSound /\ ClearInv

\* What the user said is on the page once, but while a prompt's echo is taken for
\* another's, and when all is quiet the page takes the next prompt (WebUi), however
\* often the socket is lost, the session is changed or a save is under way.
THEOREM PageFollows == MCSpec => []PageFollowsServer
  <1>1. MCInit => PageHolds
    BY PageStarts DEF MCInit, PageHolds
  <1>2. ASSUME WebHolds, PageHolds, [MCNext]_<<subject, vars, slots>> PROVE PageHolds'
    <2>1. CASE WebStep
      BY <1>2, <2>1, PageStep DEF WebStep, WebHolds, PageHolds
    <2>2. CASE RpcStep \/ DriverStep \/ FramesStep \/ EditorStep
      BY <2>2 DEF RpcStep, DriverStep, FramesStep, EditorStep, PageHolds
    <2>3. CASE UNCHANGED <<subject, vars, slots>>
      <3>1. UNCHANGED <<subject, conn, sendQueue, up, down, agent, page, saving, saved,
                        server, seen>>
        BY <2>3 DEF slots, slots1_7, slots8_12, slots9_12
      <3> SUFFICES ASSUME PageSound, ClearInv PROVE PageSound' /\ ClearInv'
        BY <1>2, <3>1 DEF PageHolds
      <3>2. Sent' = Sent
        BY <3>1 DEF Sent
      <3>3. LineInv' /\ Waits' = Waits /\ ClearInv'
        BY <3>1, <3>2, LineStays
      <3> QED BY <3>1, <3>3, PageStays DEF PageSound
    <2> QED BY <1>2, <2>1, <2>2, <2>3 DEF MCNext
  <1>3. WebHolds /\ PageHolds => PageFollowsServer
    <2> SUFFICES ASSUME Web!WebInv, PageSound, ClearInv, Web!Quiet, ~seen.broken
                 PROVE  ~agent.streaming /\ agent.pending = {} /\ agent.suppress = 0
      BY DEF PageSound, WebHolds, PageHolds, PageFollowsServer, Web!PageFollowsServer,
         Web!QuietTakesPrompts
    <2>1. /\ sendQueue = <<>> /\ up = <<>> /\ down = <<>> /\ server[conn.n].at = "idle"
          /\ server[conn.n].deferred = <<>>
      BY DEF Web!Quiet, Web!Idle
    <2>2. Deferred = <<>> /\ ~Running
      BY <2>1 DEF Deferred, Running, Going
    <2>3. ~Comes
      BY <2>1, <2>2, ListedEmpty DEF Comes
    <2>4. agent.suppress \in Nat
      BY DEF PageSound, PageInv
    <2> QED BY <2>3, <2>4 DEF ClearInv
  <1> QED BY <1>1, <1>2, <1>3, WebStays, PTL DEF MCSpec

----------------------------------------------------------------------------
(* The frame scheduler. *)

signals == slot1
open    == slot2
await   == slot3
since   == slot4
left    == slot5
drawn   == slot6
age     == slot7
asked   == slot8
USE DEF signals, open, await, since, left, drawn, age, asked

\* The deferral, with the first m signals folded in.
ArmedSoFar(f, m) ==
  f = [n \in 0..m |-> IF n = 0 THEN left ELSE Frames!ArmDeferral(f[n - 1], signals[n])]

LEMMA ArmedSoFarExists == \A m \in Nat : \E f : ArmedSoFar(f, m)
  <1> DEFINE P == {m \in Nat : \E f : ArmedSoFar(f, m)}
  <1>1. 0 \in P
    <2> DEFINE f == [n \in 0..0 |-> left]
    <2>1. ArmedSoFar(f, 0)
      BY DEF ArmedSoFar
    <2> QED BY <2>1
  <1>2. ASSUME NEW m \in Nat, m \in P PROVE m + 1 \in P
    <2>1. PICK f : ArmedSoFar(f, m)
      BY <1>2
    <2> DEFINE g == [n \in 0..(m + 1) |->
                       IF n <= m THEN f[n] ELSE Frames!ArmDeferral(f[n - 1], signals[n])]
               h == [n \in 0..(m + 1) |->
                       IF n = 0 THEN left ELSE Frames!ArmDeferral(g[n - 1], signals[n])]
    <2>2. ASSUME NEW n \in 0..(m + 1) PROVE g[n] = h[n]
      <3>1. CASE n = 0
        <4>1. 0 \in 0..m /\ f[0] = left
          BY <2>1 DEF ArmedSoFar
        <4> QED BY <3>1, <4>1
      <3>2. CASE n # 0
        <4>1. n - 1 \in 0..m /\ g[n - 1] = f[n - 1]
          BY <3>2
        <4>2. h[n] = Frames!ArmDeferral(f[n - 1], signals[n])
          BY <3>2, <4>1
        <4>3. CASE n <= m
          <5>1. n \in 0..m /\ g[n] = f[n]
            BY <4>3
          <5>2. f[n] = Frames!ArmDeferral(f[n - 1], signals[n])
            BY <2>1, <3>2, <5>1 DEF ArmedSoFar
          <5> QED BY <4>2, <5>1, <5>2
        <4>4. CASE ~(n <= m)
          BY <3>2, <4>2, <4>4
        <4> QED BY <4>3, <4>4
      <3> QED BY <3>1, <3>2
    <2>3. g = h
      BY <2>2
    <2>4. ArmedSoFar(g, m + 1)
      BY <2>3 DEF ArmedSoFar
    <2> QED BY <2>4
  <1> HIDE DEF P
  <1>3. Nat \subseteq P
    BY <1>1, <1>2, SetInduction
  <1> QED BY <1>3 DEF P

\* What is folded in never pushes a deferral back, and arms one only for a delay asked for.
LEMMA ArmedTightens ==
  ASSUME signals \in Seq(asked), asked \subseteq Delays
  PROVE  /\ left \in Nat => Frames!Armed \in Nat /\ Frames!Armed <= left
         /\ left = Frames!Never => Frames!Armed \in asked \cup {Frames!Never}
  <1> DEFINE z == Len(signals)  f == CHOOSE g : ArmedSoFar(g, z)
             A == IF left \in Nat THEN 0..left ELSE asked \cup {Frames!Never}
             P == {n \in Nat : n <= z => f[n] \in A}
  <1>1. z \in Nat /\ \A n \in 1..z : signals[n] \in asked
    BY Elements
  <1>2. Frames!Armed = f[z]
    BY DEF Frames!Armed, ArmedSoFar
  <1>3. ArmedSoFar(f, z)
    BY <1>1, ArmedSoFarExists
  <1> HIDE DEF f, z
  <1> SUFFICES ASSUME left \in Nat \/ left = Frames!Never
               PROVE  f[z] \in A
    BY <1>2 DEF Frames!Never
  <1>4. 0 \in P
    <2>1. f[0] = left
      BY <1>1, <1>3 DEF ArmedSoFar
    <2> QED BY <2>1
  <1>5. ASSUME NEW n \in Nat, n \in P PROVE n + 1 \in P
    <2> SUFFICES ASSUME n + 1 <= z PROVE f[n + 1] \in A
      OBVIOUS
    <2>1. /\ n + 1 \in 0..z /\ n + 1 # 0 /\ n + 1 \in 1..z /\ (n + 1) - 1 = n /\ n <= z
      BY <1>1
    <2>2. f[n + 1] = Frames!ArmDeferral(f[n], signals[n + 1])
      BY <1>3, <2>1 DEF ArmedSoFar
    <2>3. f[n] \in A /\ signals[n + 1] \in asked /\ signals[n + 1] \in Nat
      BY <1>1, <1>5, <2>1, FramesAssumption
    <2> HIDE DEF P
    <2> QED BY <2>2, <2>3 DEF Frames!ArmDeferral, Frames!Never
  <1> HIDE DEF A, P
  <1>6. Nat \subseteq P
    BY <1>4, <1>5, SetInduction
  <1> QED BY <1>1, <1>6 DEF P

\* A request that is not drawn is as old as the last draw at most, while the next
\* one has to wait for it; and a deferral ends a delay asked for after that at most.
FrameInv ==
  /\ signals \in Seq(asked) /\ asked \subseteq Delays /\ open \in BOOLEAN
  /\ await \in {"idle", "deferred", "budget", "ended"}
  /\ since \in (0..Interval) \cup {Frames!Never}
  /\ age \in Nat \cup {Frames!Never}
  /\ age # Frames!Never => asked # {}
  /\ drawn \in Nat /\ drawn >= Interval
  /\ await = "idle" => age = IF signals = <<>> THEN Frames!Never ELSE 0
  /\ await \in {"idle", "budget"} => left = Frames!Never
  /\ await \in {"deferred", "budget"} => age \in Nat
  /\ await = "deferred" => left \in Nat /\ \E delay \in asked : age + left <= Interval + delay
  /\ await = "budget" => since # Frames!Never /\ age <= since
  /\ await = "deferred" /\ since # Frames!Never /\ since < Interval => age <= since

LEMMA FrameStarts == Frames!Init => FrameInv
  BY FramesAssumption DEF Frames!Init, FrameInv, Frames!Never

LEMMA FrameRequests ==
  ASSUME FrameInv, NEW delay \in Delays, Frames!Request(delay)
  PROVE  FrameInv'
  <1>1. /\ signals' = Append(signals, delay)
        /\ age' = IF age = Frames!Never THEN 0 ELSE age
        /\ asked' = asked \cup {delay}
        /\ UNCHANGED <<open, await, since, left, drawn>>
    BY DEF Frames!Request
  <1>2. signals' \in Seq(asked') /\ signals' # <<>>
    <2>1. signals \in Seq(asked')
      <3>1. DOMAIN signals = 1..Len(signals) /\ Len(signals) \in Nat
              /\ \A k \in DOMAIN signals : signals[k] \in asked
        BY Elements DEF FrameInv
      <3> QED BY <1>1, <3>1 DEF FrameInv
    <2> QED BY <1>1, <2>1
  <1>a. asked' \subseteq Delays /\ asked \subseteq asked' /\ asked' # {}
    BY <1>1 DEF FrameInv
  <1>3. await = "idle" => age' = 0
    BY <1>1 DEF FrameInv
  <1>4. await \in {"deferred", "budget"} => age' = age
    BY <1>1, FramesAssumption DEF FrameInv, Frames!Never
  <1>5. age' \in Nat
    BY <1>1 DEF FrameInv
  <1>6. await = "deferred" => \E d \in asked' : age' + left' <= Interval + d
    BY <1>1, <1>4, <1>a DEF FrameInv
  <1> QED BY <1>1, <1>2, <1>a, <1>3, <1>4, <1>5, <1>6 DEF FrameInv

\* The actor goes on to sleep, to draw or to wait for its budget.
LEMMA FrameContinues ==
  ASSUME FrameInv, Frames!Wake, Frames!Continue
  PROVE  FrameInv'
  <1>0. Frames!Ready /\ signals' = <<>> /\ open' = open
    BY DEF Frames!Wake
  <1>1. /\ left \in Nat => Frames!Armed \in Nat /\ Frames!Armed <= left
        /\ left = Frames!Never => Frames!Armed \in asked \cup {Frames!Never}
    BY ArmedTightens DEF FrameInv
  <1>2. await \in {"idle", "deferred", "budget"} /\ age \in Nat
    <2>1. open
      BY DEF Frames!Continue
    <2>2. await # "ended"
      BY <1>0 DEF Frames!Ready
    <2>3. await = "idle" => signals # <<>>
      BY <1>0, <2>1 DEF Frames!Ready
    <2> QED BY <2>1, <2>2, <2>3 DEF FrameInv
  <1>a. Frames!Armed \in Int
    <2>1. left \in Nat \/ left = Frames!Never
      BY <1>2 DEF FrameInv
    <2>2. Frames!Armed \in Nat \/ Frames!Armed \in asked \/ Frames!Armed = Frames!Never
      BY <1>1, <2>1
    <2>3. \A d \in asked : d \in Nat
      BY FramesAssumption DEF FrameInv
    <2> QED BY <2>2, <2>3 DEF Frames!Never
  <1>3. since # Frames!Never /\ since < Interval => age <= since
    BY <1>2, FramesAssumption DEF FrameInv, Frames!Never
  <1>4. signals' = <<>> /\ open' = open /\ \A d \in SUBSET Delays : <<>> \in Seq(d)
    BY <1>0
  <1>5. CASE Frames!Armed > 0
    <2>1. await' = "deferred" /\ left' = Frames!Armed /\ UNCHANGED <<since, drawn, age, asked>>
      BY <1>a, <1>5 DEF Frames!Continue
    <2>2. left' \in Nat /\ \E delay \in asked : age + left' <= Interval + delay
      <3>n. age \in Nat /\ Interval \in Nat
        BY <1>2, FramesAssumption
      <3>1. CASE await = "deferred"
        <4>1. left \in Nat /\ left' \in Nat /\ left' <= left
          BY <1>1, <2>1, <3>1 DEF FrameInv
        <4>2. \A d \in Nat : age + left <= Interval + d => age + left' <= Interval + d
          <5>1. \A a, l, m, n, d \in Nat : m <= l /\ a + l <= n + d => a + m <= n + d
            OBVIOUS
          <5> QED BY <3>n, <4>1, <5>1, Zenon
        <4>3. PICK delay \in asked : age + left <= Interval + delay
          BY <3>1 DEF FrameInv
        <4>4. delay \in Nat
          BY FramesAssumption DEF FrameInv
        <4> QED BY <4>1, <4>2, <4>3, <4>4, Zenon
      <3>2. CASE await \in {"idle", "budget"}
        <4>1. left = Frames!Never
          BY <3>2 DEF FrameInv
        <4>2. left' \in asked
          BY <1>1, <1>5, <2>1, <4>1 DEF Frames!Never
        <4>3. left' \in Nat
          BY <4>2, FramesAssumption DEF FrameInv
        <4>4. age <= Interval
          BY <1>2, <3>2, FramesAssumption DEF FrameInv, Frames!Never
        <4>5. age + left' <= Interval + left'
          <5>1. \A a, n, d \in Nat : a <= n => a + d <= n + d
            OBVIOUS
          <5> QED BY <3>n, <4>3, <4>4, <5>1, Zenon
        <4> QED BY <4>2, <4>3, <4>5
      <3> QED BY <1>2, <3>1, <3>2
    <2> QED BY <1>2, <1>3, <1>4, <2>1, <2>2 DEF FrameInv
  <1>6. CASE Frames!Armed <= 0 /\ ~Frames!DecideElapsed
    <2>1. await' = "budget" /\ left' = Frames!Never /\ UNCHANGED <<since, drawn, age, asked>>
      BY <1>a, <1>6 DEF Frames!Continue
    <2>2. since # Frames!Never /\ age <= since
      BY <1>3, <1>6, FramesAssumption DEF Frames!DecideElapsed, FrameInv, Frames!Never
    <2> QED BY <1>2, <1>4, <2>1, <2>2 DEF FrameInv
  <1>7. CASE Frames!Armed <= 0 /\ Frames!DecideElapsed
    <2>1. left' = Frames!Never /\ Frames!Draw("idle")
      BY <1>a, <1>7 DEF Frames!Continue
    <2>2. CASE await' = "ended" /\ UNCHANGED <<since, drawn, age, asked>>
      BY <1>2, <1>4, <2>2 DEF FrameInv
    <2>3. CASE /\ await' = "idle" /\ since' = 0 /\ age' = Frames!Never /\ asked' = {}
               /\ drawn' = IF since = Frames!Never THEN Interval ELSE since
      <3>1. drawn' \in Nat /\ drawn' >= Interval
        BY <1>7, <2>3, FramesAssumption DEF FrameInv, Frames!DecideElapsed
      <3>2. since' \in 0..Interval
        BY <2>3, FramesAssumption
      <3>3. age' = IF signals' = <<>> THEN Frames!Never ELSE 0
        BY <1>0, <2>3
      <3>4. signals' \in Seq(asked') /\ asked' \subseteq Delays
        BY <1>4, <2>3
      <3> QED BY <1>4, <2>1, <2>3, <3>1, <3>2, <3>3, <3>4 DEF FrameInv
    <2> QED BY <2>1, <2>2, <2>3 DEF Frames!Draw
  <1> QED BY <1>a, <1>5, <1>6, <1>7

LEMMA FrameFinishes ==
  ASSUME FrameInv, Frames!Wake, Frames!Finish
  PROVE  FrameInv'
  <1>1. await' = "ended"
    BY DEF Frames!Finish, Frames!Draw
  <1>2. \/ UNCHANGED <<since, drawn, age, asked>>
        \/ /\ Frames!DecideElapsed /\ since' = 0 /\ age' = Frames!Never /\ asked' = {}
           /\ drawn' = IF since = Frames!Never THEN Interval ELSE since
    BY DEF Frames!Finish, Frames!Draw
  <1>3. /\ since' \in (0..Interval) \cup {Frames!Never} /\ age' \in Nat \cup {Frames!Never}
        /\ drawn' \in Nat /\ drawn' >= Interval /\ (age' # Frames!Never => asked' # {})
    BY <1>2, FramesAssumption DEF FrameInv, Frames!DecideElapsed
  <1>4. signals' \in Seq(asked') /\ asked' \subseteq Delays /\ open' = open
    <2>1. signals' = <<>> /\ open' = open
      BY DEF Frames!Wake
    <2> QED BY <1>2, <2>1 DEF FrameInv
  <1> QED BY <1>1, <1>3, <1>4 DEF FrameInv

LEMMA FrameTicks ==
  ASSUME FrameInv, Frames!Tick
  PROVE  FrameInv'
  <1>1. /\ since' = IF since \in {Frames!Never, Interval} THEN since ELSE since + 1
        /\ left' = IF left \in {Frames!Never, 0} THEN left ELSE left - 1
        /\ age' = IF age = Frames!Never THEN Frames!Never ELSE age + 1
        /\ UNCHANGED <<signals, open, await, drawn, asked>> /\ await # "ended" /\ ~Frames!Ready
    BY DEF Frames!Tick
  <1>2. /\ signals = <<>> /\ (await = "deferred" => left # 0)
        /\ (await = "budget" => since # Interval)
    BY <1>1 DEF Frames!Ready
  <1>3. /\ since' \in (0..Interval) \cup {Frames!Never} /\ age' \in Nat \cup {Frames!Never}
        /\ (since # Frames!Never /\ since # Interval => since' = since + 1)
        /\ (since' # Frames!Never /\ since' < Interval =>
              since # Frames!Never /\ since < Interval /\ since' = since + 1)
    BY <1>1, FramesAssumption DEF FrameInv, Frames!Never
  <1>4. CASE await = "idle"
    BY <1>1, <1>2, <1>3, <1>4 DEF FrameInv
  <1>5. CASE await = "budget"
    <2>1. age' = age + 1 /\ age \in Nat /\ left' = Frames!Never
      BY <1>1, <1>5 DEF FrameInv, Frames!Never
    <2>2. since' = since + 1 /\ since' # Frames!Never /\ age' <= since'
      BY <1>2, <1>3, <1>5, <2>1, FramesAssumption DEF FrameInv, Frames!Never
    <2> QED BY <1>1, <1>3, <1>5, <2>1, <2>2 DEF FrameInv
  <1>6. CASE await = "deferred"
    <2>1. age' = age + 1 /\ age \in Nat
      BY <1>1, <1>6 DEF FrameInv, Frames!Never
    <2>2. left \in Nat /\ left' = left - 1 /\ left' \in Nat
      BY <1>1, <1>2, <1>6 DEF FrameInv, Frames!Never
    <2>3. PICK delay \in asked : age + left <= Interval + delay
      BY <1>6 DEF FrameInv
    <2>4. age' + left' <= Interval + delay
      BY <2>1, <2>2, <2>3, FramesAssumption
    <2>5. since' # Frames!Never /\ since' < Interval => age' <= since'
      BY <1>3, <1>6, <2>1, FramesAssumption DEF FrameInv, Frames!Never
    <2> QED BY <1>1, <1>3, <1>6, <2>1, <2>2, <2>4, <2>5 DEF FrameInv
  <1> QED BY <1>1, <1>4, <1>5, <1>6 DEF FrameInv

LEMMA FrameSteps ==
  ASSUME FrameInv, Frames!Next
  PROVE  FrameInv'
  <1>1. CASE Frames!Close
    BY <1>1 DEF Frames!Close, FrameInv
  <1>2. CASE Frames!Wake
    BY <1>2, FrameFinishes, FrameContinues DEF Frames!Wake
  <1> QED BY <1>1, <1>2, FrameRequests, FrameTicks DEF Frames!Next

FramesHold == subject = "frames" => FrameInv

\* Draws keep their distance, and no request waits longer than an interval and the
\* longest of the delays asked for while it waits, however many come (FrameScheduler).
THEOREM FramesAreDrawnInTime == MCSpec => [](subject = "frames" => Frames!DrawnInTime)
  <1>1. MCInit => FramesHold
    BY FrameStarts DEF MCInit, FramesHold
  <1>2. ASSUME FramesHold, [MCNext]_<<subject, vars, slots>> PROVE FramesHold'
    <2>1. CASE FramesStep
      BY <1>2, <2>1, FrameSteps DEF FramesStep, FramesHold
    <2>2. CASE RpcStep \/ DriverStep \/ EditorStep \/ WebStep
      BY <2>2 DEF RpcStep, DriverStep, EditorStep, WebStep, FramesHold
    <2>3. CASE UNCHANGED <<subject, vars, slots>>
      BY <1>2, <2>3 DEF slots, slots1_7, slots8_12, FramesHold, FrameInv
    <2> QED BY <1>2, <2>1, <2>2, <2>3 DEF MCNext
  <1>3. FramesHold => (subject = "frames" => Frames!DrawnInTime)
    <2> SUFFICES ASSUME FrameInv PROVE Frames!DrawnInTime
      BY DEF FramesHold
    <2>1. ASSUME await # "ended", age # Frames!Never
          PROVE  \E delay \in asked : age <= Interval + delay
      <3>1. CASE await = "deferred"
        <4>1. PICK delay \in asked : age + left <= Interval + delay
          BY <3>1 DEF FrameInv
        <4>2. age <= Interval + delay
          BY <2>1, <3>1, <4>1, FramesAssumption DEF FrameInv
        <4> QED BY <4>2
      <3>2. CASE await \in {"idle", "budget"}
        <4>1. age \in Int /\ age <= Interval
          BY <3>2, FramesAssumption DEF FrameInv, Frames!Never
        <4>2. PICK delay \in asked : delay \in Nat
          BY <2>1, FramesAssumption DEF FrameInv
        <4>3. age <= Interval + delay
          BY <4>1, <4>2, FramesAssumption
        <4> QED BY <4>3
      <3> QED BY <2>1, <3>1, <3>2 DEF FrameInv
    <2> QED BY <2>1 DEF FrameInv, Frames!DrawnInTime
  <1> QED BY <1>1, <1>2, <1>3, PTL DEF MCSpec

================================================================================
