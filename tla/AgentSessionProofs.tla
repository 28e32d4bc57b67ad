------------------------- MODULE AgentSessionProofs -------------------------
(***************************************************************************)
(* Proofs about AgentSession, for every bound, queue mode and combination  *)
(* of faults: its types, what a cancelled or failed send leaves behind,    *)
(* and what the journals hold.                                             *)
(***************************************************************************)
EXTENDS AgentSession, SequenceLemmas

Running == {"poll", "request", "stream", "stop", "turn_end"}
SinkItem == [kind: Kinds, msg: Message]

----------------------------------------------------------------------------
(* Messages and entries. *)

LEMMA MadeMessage ==
  ASSUME TypeOK, NEW k \in Nat, Room(k), NEW j \in 1..k, NEW by \in Authors
  PROVE  /\ Msg(j, by) \in Message /\ Msg(j, by).n = next + j
         /\ Msg(j, by).by = by /\ Msg(j, by).sid = sid
  <1>1. next \in 0..MaxMessages /\ MaxMessages \in Nat /\ MaxSessions \in Nat
    BY SessionAssumption DEF TypeOK
  <1>2. next + j \in 1..MaxMessages
    BY <1>1 DEF Room
  <1>3. sid \in 1..MaxSessions
    BY <1>1 DEF TypeOK
  <1> QED BY <1>2, <1>3 DEF Msg, Message

LEMMA EntryOfMessage ==
  ASSUME NEW m \in Message, NEW kind \in Kinds
  PROVE  /\ EntryOf(kind, m) \in Entry /\ EntryOf(kind, m).id = m.n
         /\ EntryOf(kind, m).sid = m.sid /\ EntryOf(kind, m).kind = kind
         /\ EntryOf(kind, m).by = m.by
  BY DEF EntryOf, Message, Entry

LEMMA EntriesOfMessages ==
  ASSUME NEW kind \in Kinds, NEW ms \in Seq(Message)
  PROVE  /\ AsEntries(kind, ms) \in Seq(Entry) /\ Len(AsEntries(kind, ms)) = Len(ms)
         /\ \A i \in 1..Len(ms) : AsEntries(kind, ms)[i] = EntryOf(kind, ms[i])
  <1>1. /\ DOMAIN ms = 1..Len(ms) /\ Len(ms) \in Nat
        /\ \A i \in 1..Len(ms) : ms[i] \in Message
    BY Elements
  <1>2. \A i \in 1..Len(ms) : EntryOf(kind, ms[i]) \in Entry
    BY <1>1, EntryOfMessage
  <1> QED BY <1>1, <1>2 DEF AsEntries

\* Messages that are entries again, as build_context makes them.
Messages(es) == [i \in DOMAIN es |-> MessageOf(es[i])]

LEMMA MessagesOfEntries ==
  ASSUME NEW es \in Seq(Entry)
  PROVE  /\ Messages(es) \in Seq(Message) /\ Len(Messages(es)) = Len(es)
         /\ \A i \in 1..Len(es) : Messages(es)[i] = MessageOf(es[i])
  <1>1. /\ DOMAIN es = 1..Len(es) /\ Len(es) \in Nat
        /\ \A i \in 1..Len(es) : es[i] \in Entry
    BY Elements
  <1>2. \A e \in Entry : MessageOf(e) \in Message
    BY DEF MessageOf, Message, Entry
  <1>3. \A i \in 1..Len(es) : MessageOf(es[i]) \in Message
    BY <1>1, <1>2
  <1> QED BY <1>1, <1>3 DEF Messages

\* first_kept_id names no entry: a compaction keeps nothing, and without one
\* the context is every entry that is a message to the model.
LEMMA BuildContextIs ==
  ASSUME NEW es \in Seq(Entry)
  PROVE  BuildContext(es) =
           IF \E i \in 1..Len(es) : es[i].kind = "compaction" THEN <<>>
           ELSE Messages(Those(es, InContext))
  <1> DEFINE I == {i \in 1..Len(es) : es[i].kind = "compaction"}
             c == SelectLastInSeq(es, LAMBDA e : e.kind = "compaction")
             J == {i \in 1..Len(es) : InContext(es[i]) /\ es[i].id = es[c].firstKept}
             from == IF c = 0 THEN 1
                     ELSE SelectInSeq(es, LAMBDA e : InContext(e)
                                                     /\ e.id = es[c].firstKept)
             kept == IF from = 0 THEN <<>>
                     ELSE Those(SubSeq(es, from, Len(es)), InContext)
  <1>1. /\ Len(es) \in Nat /\ DOMAIN es = 1..Len(es)
        /\ \A i \in 1..Len(es) : es[i] \in Entry
    BY Elements
  <1>2. BuildContext(es) = [i \in DOMAIN kept |-> MessageOf(kept[i])]
    BY DEF BuildContext
  <1>3. c = IF I # {} THEN Max(I) ELSE 0
    BY DEF SelectLastInSeq
  <1>4. c # 0 => from = IF J # {} THEN Min(J) ELSE 0
    BY DEF SelectInSeq
  <1> HIDE DEF c, from
  <1>5. CASE I = {}
    <2>1. from = 1
      BY <1>3, <1>5 DEF from
    <2>2. SubSeq(es, 1, Len(es)) = es
      BY <1>1
    <2>3. kept = Those(es, InContext)
      <3>1. SubSeq(es, from, Len(es)) = es /\ from # 0
        BY <2>1, <2>2
      <3> QED BY <3>1, Zenon DEF Those
    <2> QED BY <1>2, <1>5, <2>3 DEF Messages
  <1>6. CASE I # {}
    <2>1. I \subseteq 0..Len(es)
      BY <1>1
    <2>2. c \in 1..Len(es)
      <3> HIDE DEF I
      <3>1. Max(I) \in I
        BY <1>1, <1>6, <2>1, MaxOfPlaces
      <3> QED BY <1>3, <1>6, <3>1 DEF I
    <2>3. \A i \in 1..Len(es) : es[i].id # es[c].firstKept
      BY <1>1, <2>2, SessionAssumption DEF Entry, NoEntry
    <2>4. J = {} /\ c # 0
      BY <2>2, <2>3
    <2>5. from = 0
      BY <1>4, <2>4
    <2>6. kept = <<>>
      BY <2>5
    <2>7. BuildContext(es) = <<>>
      BY <1>2, <2>6
    <2> QED BY <1>6, <2>7
  <1> QED BY <1>5, <1>6

LEMMA BuildContextType ==
  ASSUME NEW es \in Seq(Entry)
  PROVE  BuildContext(es) \in Seq(Message)
  <1>1. Those(es, InContext) \in Seq(Entry)
    BY KeepInSeq DEF Those
  <1>2. Messages(Those(es, InContext)) \in Seq(Message)
    BY <1>1, MessagesOfEntries
  <1>3. <<>> \in Seq(Message)
    OBVIOUS
  <1> QED BY <1>2, <1>3, BuildContextIs

\* The entries of a step that reach the store.
SavedOf(es, saved) == Keep(es, {e \in ToSet(es) : e.id \in saved})

\* What a journal step does to the journals.
LEMMA JournalTypes ==
  ASSUME TypeOK, NEW es \in Seq(Entry), NEW saved, Journal(es, saved)
  PROVE  /\ entries' \in Seq(Entry) /\ entries' = entries \o es
         /\ store' \in Seq(Seq(Entry)) /\ Len(store') = Len(store)
         /\ sid' = sid /\ lineage' = lineage
         /\ SavedOf(es, saved) \in Seq(Entry)
         /\ store' = [store EXCEPT ![sid] = store[sid] \o SavedOf(es, saved)]
  <1> DEFINE k == SavedOf(es, saved)
  <1>1. k \in Seq(Entry)
    BY KeepInSeq DEF SavedOf
  <1>2. /\ entries' = entries \o es /\ store' = [store EXCEPT ![sid] = @ \o k]
        /\ sid' = sid /\ lineage' = lineage
    BY DEF Journal, Those, SavedOf
  <1> HIDE DEF k
  <1>3. /\ entries \in Seq(Entry) /\ store \in Seq(Seq(Entry)) /\ sid \in 1..Len(store)
        /\ store[sid] \in Seq(Entry)
    BY DEF TypeOK
  <1>4. store[sid] \o k \in Seq(Entry) /\ entries \o es \in Seq(Entry)
    BY <1>1, <1>3
  <1>5. store' = [store EXCEPT ![sid] = store[sid] \o k]
    BY <1>2
  <1>6. store' \in Seq(Seq(Entry)) /\ Len(store') = Len(store)
    BY <1>3, <1>4, <1>5, ExceptSeq
  <1> QED BY <1>1, <1>2, <1>4, <1>5, <1>6 DEF k

----------------------------------------------------------------------------
(* The pieces of a turn. *)

LEMMA DrainedParts ==
  ASSUME NEW q \in Seq(Message)
  PROVE  /\ Drained(q) \in Seq(Message) /\ Rest(q) \in Seq(Message)
         /\ Drained(q) \o Rest(q) = q
  <1>1. CASE Mode = "All" \/ q = <<>>
    <2>1. q \o <<>> = q /\ <<>> \in Seq(Message)
      OBVIOUS
    <2> QED BY <1>1, <2>1 DEF Drained, Rest
  <1>2. CASE ~(Mode = "All" \/ q = <<>>)
    <2>1. /\ <<Head(q)>> \in Seq(Message) /\ Tail(q) \in Seq(Message)
          /\ <<Head(q)>> \o Tail(q) = q
      BY <1>2
    <2> QED BY <1>2, <2>1 DEF Drained, Rest
  <1> QED BY <1>1, <1>2

LEMMA PromptsParts ==
  ASSUME TypeOK, NEW c \in BOOLEAN, NEW i \in 1..Len(Prompts(c)), Room(i)
  PROVE  /\ Len(Prompts(c)) \in 1..2
         /\ SubSeq(Prompts(c), 1, i) \in Seq(Message)
         /\ Len(SubSeq(Prompts(c), 1, i)) = i
         /\ \A j \in 1..i : \E by \in {"context", "user"} :
              SubSeq(Prompts(c), 1, i)[j] = Msg(j, by)
  <1>1. Len(Prompts(c)) = IF c THEN 2 ELSE 1
    BY DEF Prompts
  <1>2. \A j \in 1..i : \E by \in {"context", "user"} : Prompts(c)[j] = Msg(j, by)
    BY <1>1 DEF Prompts
  <1>3. i \in Nat
    BY <1>1
  <1>4. \A j \in 1..i : Prompts(c)[j] \in Message
    BY <1>2, <1>3, MadeMessage DEF Authors
  <1>5. /\ SubSeq(Prompts(c), 1, i) \in Seq(Message)
        /\ Len(SubSeq(Prompts(c), 1, i)) = i
        /\ \A j \in 1..i : SubSeq(Prompts(c), 1, i)[j] = Prompts(c)[j]
    BY <1>1, <1>3, <1>4, SubSeqProperties
  <1> QED BY <1>1, <1>2, <1>5

LEMMA AllPrompts ==
  ASSUME TypeOK, NEW c \in BOOLEAN, Room(Len(Prompts(c)))
  PROVE  /\ Prompts(c) \in Seq(Message) /\ Len(Prompts(c)) \in 1..2
         /\ \A j \in 1..Len(Prompts(c)) : \E by \in {"context", "user"} :
              Prompts(c)[j] = Msg(j, by)
  <1>1. Len(Prompts(c)) \in 1..2
    BY DEF Prompts
  <1>2. \A j \in 1..Len(Prompts(c)) : \E by \in {"context", "user"} :
          Prompts(c)[j] = Msg(j, by)
    BY DEF Prompts
  <1>3. \A j \in 1..Len(Prompts(c)) : Prompts(c)[j] \in Message
    BY <1>1, <1>2, MadeMessage DEF Authors
  <1>4. Prompts(c) \in Seq(Message)
    BY <1>3 DEF Prompts
  <1> QED BY <1>1, <1>2, <1>4

\* The messages that a run adds after its prompts.
AfterPrompts(ms) == SubSeq(ms, promptsLen + 1, Len(ms))

LEMMA AfterPromptsParts ==
  ASSUME TypeOK, NEW new \in Seq(Message)
  PROVE  /\ AfterPrompts(produced) \in Seq(Message)
         /\ Len(AfterPrompts(produced)) = Len(produced) - promptsLen
         /\ \A i \in 1..(Len(produced) - promptsLen) :
              AfterPrompts(produced)[i] = produced[promptsLen + i]
         /\ AfterPrompts(produced \o new) = AfterPrompts(produced) \o new
         /\ SubSeq(produced \o new, promptsLen + 1, Len(produced) + Len(new))
              = AfterPrompts(produced) \o new
  <1>1. /\ produced \in Seq(Message) /\ promptsLen \in Nat /\ Len(produced) \in Nat
        /\ promptsLen <= Len(produced) /\ Len(new) \in Nat
        /\ Len(produced \o new) = Len(produced) + Len(new)
    BY DEF TypeOK
  <1> DEFINE a == promptsLen + 1  z == Len(produced)  y == Len(new)
             l == SubSeq(produced, a, z)  w == produced \o new
             r == SubSeq(w, a, z + y)
  <1>2. /\ l \in Seq(Message) /\ Len(l) = z - promptsLen
        /\ \A i \in 1..(z - promptsLen) : l[i] = produced[promptsLen + i]
    <2>1. \A i \in a..z : produced[i] \in Message
      BY <1>1
    <2>2. a \in Int /\ z \in Int /\ (a <= z \/ z - promptsLen = 0)
      BY <1>1
    <2>3. /\ l \in Seq(Message) /\ Len(l) = IF a <= z THEN z - a + 1 ELSE 0
          /\ \A i \in 1..(z - a + 1) : l[i] = produced[a + i - 1]
      BY <2>1, <2>2, SubSeqProperties
    <2> HIDE DEF l
    <2>4. z - a + 1 = z - promptsLen
      BY <1>1
    <2>5. \A i \in 1..(z - promptsLen) : a + i - 1 = promptsLen + i
      BY <1>1
    <2> QED BY <1>1, <2>2, <2>3, <2>4, <2>5
  <1>3. /\ r \in Seq(Message) /\ Len(r) = (z + y) - promptsLen
        /\ \A i \in 1..((z + y) - promptsLen) : r[i] = w[promptsLen + i]
    <2>1. w \in Seq(Message) /\ Len(w) = z + y
      BY <1>1
    <2> HIDE DEF w
    <2>2. \A i \in a..(z + y) : w[i] \in Message
      BY <1>1, <2>1
    <2>3. a \in Int /\ z + y \in Int /\ (a <= z + y \/ (z + y) - promptsLen = 0)
      BY <1>1
    <2>4. /\ r \in Seq(Message) /\ Len(r) = IF a <= z + y THEN (z + y) - a + 1 ELSE 0
          /\ \A i \in 1..((z + y) - a + 1) : r[i] = w[a + i - 1]
      BY <2>2, <2>3, SubSeqProperties
    <2> HIDE DEF r
    <2>5. (z + y) - a + 1 = (z + y) - promptsLen
      BY <1>1
    <2>6. \A i \in 1..((z + y) - promptsLen) : a + i - 1 = promptsLen + i
      BY <1>1
    <2> QED BY <1>1, <2>3, <2>4, <2>5, <2>6
  <1>4. /\ \A i \in 1..z : w[i] = produced[i]
        /\ \A i \in 1..y : w[z + i] = new[i]
    <2>1. \A i \in 1..(z + y) : w[i] = IF i <= z THEN produced[i]
                                      ELSE new[i - z]
      BY <1>1, ConcatProperties
    <2> HIDE DEF w
    <2>2. z \in Nat /\ y \in Nat
      BY <1>1
    <2>3. \A i \in 1..z : w[i] = produced[i]
      <3> HIDE DEF z, y
      <3> QED BY <2>1, <2>2
    <2>4. ASSUME NEW i \in 1..y PROVE w[z + i] = new[i]
      <3>1. z + i \in 1..(z + y) /\ ~(z + i <= z) /\ (z + i) - z = i
        <4> HIDE DEF z, y
        <4> QED BY <2>2
      <3>2. w[z + i] = new[(z + i) - z]
        BY <2>1, <3>1, Zenon
      <3> QED BY <3>1, <3>2
    <2> QED BY <2>3, <2>4
  <1> HIDE DEF l, r, w
  <1>5. /\ l \o new \in Seq(Message) /\ Len(l \o new) = Len(l) + y
        /\ \A i \in 1..(Len(l) + y) :
             (l \o new)[i] = IF i <= Len(l) THEN l[i] ELSE new[i - Len(l)]
    <2>1. l \in Seq(Message)
      BY <1>2
    <2> QED BY <2>1, ConcatProperties, Zenon
  <1>6. /\ Len(l \o new) = (z - promptsLen) + y
        /\ \A i \in 1..((z - promptsLen) + y) :
             (l \o new)[i] = IF i <= z - promptsLen THEN l[i]
                             ELSE new[i - (z - promptsLen)]
    BY <1>2, <1>5, Zenon
  <1>7. ASSUME NEW i \in 1..((z - promptsLen) + y) PROVE r[i] = (l \o new)[i]
    <2>0. r[i] = w[promptsLen + i]
      BY <1>1, <1>3
    <2>1. CASE i <= z - promptsLen
      <3>1. promptsLen + i \in 1..z /\ i \in 1..(z - promptsLen)
        BY <1>1, <2>1
      <3> QED BY <1>2, <1>4, <1>6, <2>0, <2>1, <3>1
    <2>2. CASE ~(i <= z - promptsLen)
      <3>1. /\ i - (z - promptsLen) \in 1..y
            /\ promptsLen + i = z + (i - (z - promptsLen))
        BY <1>1, <2>2
      <3>2. w[z + (i - (z - promptsLen))] = new[i - (z - promptsLen)]
        BY <1>4, <3>1, Zenon
      <3>3. w[promptsLen + i] = new[i - (z - promptsLen)]
        BY <3>1, <3>2, Zenon
      <3>4. (l \o new)[i] = new[i - (z - promptsLen)]
        BY <1>6, <2>2, Zenon
      <3> QED BY <2>0, <3>3, <3>4, Zenon
    <2> QED BY <2>1, <2>2
  <1>8. r = l \o new
    <2>1. Len(r) = Len(l \o new) /\ \A i \in 1..Len(r) : r[i] = (l \o new)[i]
      <3>1. (z + y) - promptsLen = (z - promptsLen) + y
        BY <1>1
      <3>2. Len(r) = (z - promptsLen) + y
        BY <1>3, <3>1
      <3> QED BY <1>6, <1>7, <3>2, Zenon
    <2> QED BY <1>3, <1>5, <2>1, SeqEqual
  <1> QED BY <1>1, <1>2, <1>8 DEF AfterPrompts, l, r, w

\* The entries that extensions queued, as the end of a turn journals them.
Writes == [i \in DOMAIN sink |-> EntryOf(sink[i].kind, sink[i].msg)]

LEMMA WritesType ==
  ASSUME TypeOK
  PROVE  /\ Writes \in Seq(Entry) /\ Len(Writes) = Len(sink)
         /\ \A i \in 1..Len(sink) : Writes[i] = EntryOf(sink[i].kind, sink[i].msg)
  <1>1. /\ DOMAIN sink = 1..Len(sink) /\ Len(sink) \in Nat
        /\ \A i \in 1..Len(sink) : sink[i] \in SinkItem
    BY Elements DEF TypeOK, SinkItem
  <1>2. \A x \in SinkItem : EntryOf(x.kind, x.msg) \in Entry
    BY EntryOfMessage DEF SinkItem
  <1>3. \A i \in 1..Len(sink) : EntryOf(sink[i].kind, sink[i].msg) \in Entry
    BY <1>1, <1>2
  <1> QED BY <1>1, <1>3 DEF Writes

\* What the end of a turn leaves behind.
LEMMA TurnEnds ==
  ASSUME TypeOK, NEW ms \in Seq(Message), JournalTurn(ms)
  PROVE  /\ AsEntries("message", ms) \o Writes \in Seq(Entry)
         /\ \E saved : Journal(AsEntries("message", ms) \o Writes, saved)
         /\ entries' \in Seq(Entry)
         /\ entries' = entries \o (AsEntries("message", ms) \o Writes)
         /\ store' \in Seq(Seq(Entry)) /\ Len(store') = Len(store)
         /\ sid' = sid /\ lineage' = lineage
         /\ sink' = <<>> /\ tools' = TRUE /\ streaming' = FALSE
         /\ produced' = <<>> /\ promptsLen' = 0 /\ more' = FALSE /\ continuations' = 0
         /\ phase' \in {"idle", "autocompact"} /\ compacting' \in BOOLEAN
  <1>1. AsEntries("message", ms) \in Seq(Entry) /\ Writes \in Seq(Entry)
    BY EntriesOfMessages, WritesType DEF Kinds
  <1>2. AsEntries("message", ms) \o Writes \in Seq(Entry)
    BY <1>1
  <1>3. \E saved : Journal(AsEntries("message", ms) \o Writes, saved)
    BY Zenon DEF JournalTurn, Writes
  <1>4. PICK saved : Journal(AsEntries("message", ms) \o Writes, saved)
    BY <1>3
  <1>5. /\ entries' \in Seq(Entry)
        /\ entries' = entries \o (AsEntries("message", ms) \o Writes)
        /\ store' \in Seq(Seq(Entry)) /\ Len(store') = Len(store)
        /\ sid' = sid /\ lineage' = lineage
    BY <1>2, <1>4, JournalTypes, Zenon
  <1>6. /\ sink' = <<>> /\ tools' = TRUE /\ streaming' = FALSE
        /\ produced' = <<>> /\ promptsLen' = 0 /\ more' = FALSE /\ continuations' = 0
    BY DEF JournalTurn, EndRun
  <1>7. phase' \in {"idle", "autocompact"} /\ compacting' \in BOOLEAN
    <2>1. compacting \in BOOLEAN
      BY DEF TypeOK
    <2>2. \/ phase' = "idle" /\ compacting' = compacting
          \/ phase' = "autocompact" /\ compacting' = TRUE
      BY DEF JournalTurn
    <2> QED BY <2>1, <2>2
  <1> QED BY <1>2, <1>3, <1>5, <1>6, <1>7

LEMMA RunEnds ==
  ASSUME TypeOK, NEW new \in Seq(Message), EndTurn(new)
  PROVE  /\ AfterPrompts(produced) \o new \in Seq(Message)
         /\ JournalTurn(AfterPrompts(produced) \o new)
  <1>1. /\ AfterPrompts(produced) \in Seq(Message)
        /\ SubSeq(produced \o new, promptsLen + 1, Len(produced) + Len(new))
             = AfterPrompts(produced) \o new
    BY AfterPromptsParts
  <1>2. JournalTurn(AfterPrompts(produced) \o new)
    BY <1>1, Zenon DEF EndTurn
  <1> QED BY <1>1, <1>2

----------------------------------------------------------------------------
(* The control of a session. *)

AllUsers(q) == \A i \in DOMAIN q : q[i].by = "user"

\* A message streams only into a context, the follow-up hook runs only below its
\* bound, the tools are out exactly while the loop runs and then only is there
\* a run, an automatic compaction follows a finished turn, a cancelled run was
\* cancelled by an abort of its own send, and users alone fill the queues.
StreamHasContext == phase = "stream" => context # <<>>
HooksAreBounded  == phase = "turn_end" => continuations < MaxContinuations
ToolsFollowRun   == tools <=> phase \notin Running
RunsWhileRunning == phase \notin Running => produced = <<>> /\ promptsLen = 0
CompactsAfter    == phase = "autocompact" => ~streaming
AbortsAreOwn     == phase \in Running /\ cancelled => abortAsked
UsersQueue       == AllUsers(steering) /\ AllUsers(followUp)

\* TypeOK with one conjunct for each flag.
Types ==
  /\ phase \in Running \union {"hooks", "autocompact", "idle", "compact"}
  /\ context \in Seq(Message)
  /\ entries \in Seq(Entry)
  /\ store \in Seq(Seq(Entry)) /\ Len(store) \in 1..MaxSessions
  /\ sid \in 1..Len(store)
  /\ lineage \in Seq(SUBSET (1..MaxSessions)) /\ Len(lineage) = Len(store)
  /\ produced \in Seq(Message)
  /\ promptsLen \in 0..2 /\ promptsLen <= Len(produced)
  /\ more \in BOOLEAN /\ cancelled \in BOOLEAN /\ tools \in BOOLEAN
  /\ streaming \in BOOLEAN /\ compacting \in BOOLEAN /\ abortAsked \in BOOLEAN
  /\ continuations \in 0..MaxContinuations
  /\ steering \in Seq(Message) /\ followUp \in Seq(Message)
  /\ sink \in Seq(SinkItem)
  /\ next \in 0..MaxMessages

LEMMA TypesAreOK == TypeOK <=> Types
  <1>1. ASSUME TypeOK PROVE Types
    <2>1. /\ more \in BOOLEAN /\ cancelled \in BOOLEAN /\ tools \in BOOLEAN
          /\ streaming \in BOOLEAN /\ compacting \in BOOLEAN /\ abortAsked \in BOOLEAN
      BY <1>1 DEF TypeOK
    <2> QED BY <1>1, <2>1 DEF TypeOK, Types, Running, Sending, SinkItem
  <1>2. ASSUME Types PROVE TypeOK
    <2>1. {more, cancelled, tools, streaming, compacting, abortAsked} \subseteq BOOLEAN
      BY <1>2, Zenon DEF Types
    <2>2. phase \in Sending \union {"idle", "compact"} /\ sid \in DOMAIN store
      BY <1>2 DEF Types, Running, Sending
    <2> QED BY <1>2, <2>1, <2>2 DEF TypeOK, Types, SinkItem
  <1> QED BY <1>1, <1>2

Control == /\ StreamHasContext /\ HooksAreBounded /\ ToolsFollowRun
           /\ RunsWhileRunning /\ CompactsAfter /\ AbortsAreOwn /\ UsersQueue

ControlInv == Types /\ Control

LEMMA MadeNext ==
  ASSUME TypeOK, NEW k \in Nat, Make(k)
  PROVE  next' \in 0..MaxMessages /\ Room(k)
  <1>1. next \in 0..MaxMessages /\ MaxMessages \in Nat
    BY SessionAssumption DEF TypeOK
  <1> QED BY <1>1 DEF Make, Room

LEMMA ControlInit == Init => ControlInv
  <1> SUFFICES ASSUME Init PROVE ControlInv
    OBVIOUS
  <1>1. MaxSessions \in Nat /\ MaxSessions > 0 /\ MaxContinuations \in Nat
        /\ MaxMessages \in Nat
    BY SessionAssumption
  <1>2. /\ <<>> \in Seq(Message) /\ <<>> \in Seq(Entry)
        /\ <<>> \in Seq([kind: Kinds, msg: Message])
    OBVIOUS
  <1>3. store \in Seq(Seq(Entry)) /\ Len(store) = 1 /\ sid \in DOMAIN store
    BY <1>2 DEF Init
  <1>4. {1} \in SUBSET (1..MaxSessions)
    BY <1>1
  <1>5. lineage \in Seq(SUBSET (1..MaxSessions)) /\ Len(lineage) = 1
    BY <1>4 DEF Init
  <1>6. Types
    <2>1. next \in 0..MaxMessages /\ continuations \in 0..MaxContinuations
      BY <1>1 DEF Init
    <2>2. /\ Len(store) \in 1..MaxSessions /\ sid \in 1..Len(store)
          /\ Len(lineage) = Len(store)
      BY <1>1, <1>3, <1>5 DEF Init
    <2>3. promptsLen \in 0..2 /\ promptsLen <= Len(produced)
      BY DEF Init
    <2>4. phase \in Running \union {"hooks", "autocompact", "idle", "compact"}
      BY DEF Init
    <2>5. /\ context \in Seq(Message) /\ entries \in Seq(Entry)
          /\ produced \in Seq(Message) /\ sink \in Seq(SinkItem)
          /\ steering \in Seq(Message) /\ followUp \in Seq(Message)
      BY <1>2 DEF Init, SinkItem
    <2>6. /\ more \in BOOLEAN /\ cancelled \in BOOLEAN /\ tools \in BOOLEAN
          /\ streaming \in BOOLEAN /\ compacting \in BOOLEAN /\ abortAsked \in BOOLEAN
      BY DEF Init
    <2> QED BY <1>3, <1>5, <2>1, <2>2, <2>3, <2>4, <2>5, <2>6 DEF Types
  <1>7. /\ StreamHasContext /\ HooksAreBounded /\ ToolsFollowRun
        /\ RunsWhileRunning /\ CompactsAfter /\ AbortsAreOwn /\ UsersQueue
    BY DEF Init, StreamHasContext, HooksAreBounded, ToolsFollowRun, Running,
           RunsWhileRunning, CompactsAfter, AbortsAreOwn, UsersQueue, AllUsers
  <1> QED BY <1>6, <1>7 DEF ControlInv, Control

LEMMA EmptyRun ==
  ASSUME EndRun
  PROVE  /\ produced' = <<>> /\ produced' \in Seq(Message) /\ Len(produced') = 0
         /\ promptsLen' = 0 /\ promptsLen' \in 0..2 /\ promptsLen' <= Len(produced')
         /\ more' \in BOOLEAN /\ continuations' = 0
         /\ continuations' \in 0..MaxContinuations
  <1>1. <<>> \in Seq(Message) /\ Len(<<>>) = 0
    OBVIOUS
  <1>2. MaxContinuations \in Nat
    BY SessionAssumption
  <1>3. /\ produced' = <<>> /\ promptsLen' = 0 /\ more' = FALSE
        /\ continuations' = 0
    BY DEF EndRun
  <1>4. produced' \in Seq(Message) /\ Len(produced') = 0
    BY <1>1, <1>3
  <1>5. promptsLen' \in 0..2 /\ promptsLen' <= Len(produced')
    BY <1>3, <1>4
  <1>6. continuations' \in 0..MaxContinuations /\ more' \in BOOLEAN
    <2>1. 0 \in 0..MaxContinuations
      BY <1>2
    <2>2. more' \in BOOLEAN
      BY <1>3
    <2> QED BY <1>3, <2>1, <2>2
  <1> QED BY <1>3, <1>4, <1>5, <1>6

\* The steps that make no message.
LEMMA ControlSilent ==
  ASSUME ControlInv
  PROVE  Send \/ HookCancels \/ LoopFails \/ Timeout \/ Compact \/ Abort => ControlInv'
  <1>0. Types /\ Control
    BY DEF ControlInv
  <1> USE DEF Control, StreamHasContext, HooksAreBounded, ToolsFollowRun,
              RunsWhileRunning, CompactsAfter, AbortsAreOwn, UsersQueue, AllUsers
  <1> USE DEF conversation, run, queues, flags, Running, Types
  <1>1. ASSUME Send PROVE ControlInv'
    <2>1. Types'
      BY <1>0, <1>1 DEF Send
    <2>2. Control'
      BY <1>0, <1>1 DEF Send
    <2> QED BY <2>1, <2>2, Zenon DEF ControlInv
  <1>2. ASSUME HookCancels PROVE ControlInv'
    <2>1. Types'
      BY <1>0, <1>2 DEF HookCancels
    <2>2. Control'
      BY <1>0, <1>2 DEF HookCancels
    <2> QED BY <2>1, <2>2, Zenon DEF ControlInv
  <1>3. ASSUME LoopFails PROVE ControlInv'
    <2>3. /\ produced' \in Seq(Message) /\ promptsLen' \in 0..2
          /\ promptsLen' <= Len(produced') /\ more' \in BOOLEAN
          /\ continuations' \in 0..MaxContinuations
      BY <1>3, EmptyRun DEF LoopFails
    <2>1. Types'
      BY <1>0, <1>3, <2>3 DEF LoopFails
    <2>2. Control'
      BY <1>0, <1>3, SessionAssumption DEF LoopFails, EndRun
    <2> QED BY <2>1, <2>2, Zenon DEF ControlInv
  <1>4. ASSUME Timeout PROVE ControlInv'
    <2>3. /\ produced' \in Seq(Message) /\ promptsLen' \in 0..2
          /\ promptsLen' <= Len(produced') /\ more' \in BOOLEAN
          /\ continuations' \in 0..MaxContinuations
      BY <1>4, EmptyRun DEF Timeout
    <2>1. Types'
      BY <1>0, <1>4, <2>3 DEF Timeout, Sending
    <2>2. Control'
      BY <1>0, <1>4, SessionAssumption DEF Timeout, Sending, EndRun
    <2> QED BY <2>1, <2>2, Zenon DEF ControlInv
  <1>5. ASSUME Compact PROVE ControlInv'
    <2>1. Types'
      BY <1>0, <1>5 DEF Compact
    <2>2. Control'
      BY <1>0, <1>5 DEF Compact
    <2> QED BY <2>1, <2>2, Zenon DEF ControlInv
  <1>6. ASSUME Abort PROVE ControlInv'
    <2>1. Types'
      BY <1>0, <1>6 DEF Abort, Sending
    <2>2. Control'
      BY <1>0, <1>6 DEF Abort, Sending
    <2> QED BY <2>1, <2>2, Zenon DEF ControlInv
  <1> QED BY <1>1, <1>2, <1>3, <1>4, <1>5, <1>6, Zenon

\* The steps that make prompts.
LEMMA ControlPrompts ==
  ASSUME ControlInv, NEW c \in BOOLEAN
  PROVE  /\ BeginTurn(c) => ControlInv'
         /\ \A i \in 1..2 : PromptNotSaved(c, i) => ControlInv'
  <1>0. Types /\ Control /\ TypeOK
    BY TypesAreOK DEF ControlInv
  <1>t. \A k \in Nat : Make(k) => next' \in 0..MaxMessages /\ Room(k)
    BY <1>0, MadeNext
  <1>m. "message" \in Kinds
    BY DEF Kinds
  <1> DEFINE p == Prompts(c)
  <1>1. ASSUME BeginTurn(c) PROVE ControlInv'
    <2>1. Len(p) \in 1..2
      BY DEF Prompts
    <2>2. Launch(p) /\ Make(Len(p)) /\ cancelled' = FALSE
      BY <1>1 DEF BeginTurn, Launch
    <2>3. next' \in 0..MaxMessages /\ Room(Len(p))
      BY <1>t, <2>1, <2>2
    <2>4. p \in Seq(Message)
      BY <1>0, <2>3, AllPrompts
    <2>5. AsEntries("message", p) \in Seq(Entry)
      BY <1>m, <2>4, EntriesOfMessages
    <2>6. \E saved : Journal(AsEntries("message", p), saved)
      BY <2>2, Zenon DEF Launch
    <2>7. /\ entries' \in Seq(Entry) /\ store' \in Seq(Seq(Entry))
          /\ Len(store') = Len(store) /\ sid' = sid /\ lineage' = lineage
      BY <1>0, <2>5, <2>6, JournalTypes, Zenon
    <2> HIDE DEF p
    <2>8. context \o p \in Seq(Message)
      BY <1>0, <2>4 DEF Types
    <2>9. 0 \in 0..MaxContinuations
      BY SessionAssumption
    <2>10. Types'
      <3>1. /\ context' \in Seq(Message) /\ produced' \in Seq(Message)
            /\ continuations' \in 0..MaxContinuations
        BY <2>2, <2>4, <2>8, <2>9, Zenon DEF Launch
      <3>2. promptsLen' \in 0..2 /\ promptsLen' <= Len(produced')
        BY <2>1, <2>2 DEF Launch
      <3>3. /\ steering' = steering /\ followUp' = followUp /\ sink' = sink
            /\ compacting' = compacting /\ abortAsked' = abortAsked
        BY <2>2 DEF Launch, queues
      <3>4. /\ phase' = "poll" /\ more' \in BOOLEAN /\ streaming' \in BOOLEAN
            /\ tools' \in BOOLEAN /\ cancelled' \in BOOLEAN
        BY <2>2 DEF Launch
      <3> QED BY <1>0, <2>3, <2>7, <3>1, <3>2, <3>3, <3>4 DEF Types, Running
    <2>11. Control'
      BY <1>0, <2>2 DEF Control, StreamHasContext, HooksAreBounded, ToolsFollowRun,
        Running, RunsWhileRunning, CompactsAfter, AbortsAreOwn, UsersQueue, AllUsers,
        Launch, queues
    <2> QED BY <2>10, <2>11, Zenon DEF ControlInv
  <1>2. ASSUME NEW i \in 1..2, PromptNotSaved(c, i) PROVE ControlInv'
    <2> DEFINE q == SubSeq(p, 1, i)
    <2>1. Len(p) \in 1..2 /\ i \in 1..Len(p) /\ Make(i)
      BY <1>2 DEF Prompts, PromptNotSaved
    <2>2. next' \in 0..MaxMessages /\ Room(i)
      BY <1>t, <2>1
    <2>3. q \in Seq(Message)
      BY <1>0, <2>1, <2>2, PromptsParts
    <2>4. AsEntries("message", q) \in Seq(Entry)
      BY <1>m, <2>3, EntriesOfMessages
    <2>5. \E saved : Journal(AsEntries("message", q), saved)
      BY <1>2, Zenon DEF PromptNotSaved
    <2>6. /\ entries' \in Seq(Entry) /\ store' \in Seq(Seq(Entry))
          /\ Len(store') = Len(store) /\ sid' = sid /\ lineage' = lineage
      BY <1>0, <2>4, <2>5, JournalTypes, Zenon
    <2>7. /\ phase = "hooks" /\ phase' = "idle"
          /\ UNCHANGED <<context, run, queues, sink, cancelled, flags, abortAsked>>
      BY <1>2 DEF PromptNotSaved
    <2>8. Types'
      BY <1>0, <2>2, <2>6, <2>7 DEF Types, Running, run, queues, flags
    <2>9. Control'
      BY <1>0, <2>7 DEF Control, StreamHasContext, HooksAreBounded, ToolsFollowRun,
        Running, RunsWhileRunning, CompactsAfter, AbortsAreOwn, UsersQueue, AllUsers,
        run, queues, flags
    <2> QED BY <2>8, <2>9, Zenon DEF ControlInv
  <1> QED BY <1>1, <1>2

\* Every way for a run to end well leaves a session that can be used.
LEMMA ControlTurnEnds ==
  ASSUME ControlInv, NEW new \in Seq(Message), EndTurn(new),
         context' \in Seq(Message), next' \in 0..MaxMessages,
         UNCHANGED <<queues, cancelled, abortAsked>>
  PROVE  ControlInv'
  <1>0. Types /\ Control /\ TypeOK
    BY TypesAreOK DEF ControlInv
  <1>1. /\ AfterPrompts(produced) \o new \in Seq(Message)
        /\ JournalTurn(AfterPrompts(produced) \o new)
    BY <1>0, RunEnds
  <1>2. /\ entries' \in Seq(Entry) /\ store' \in Seq(Seq(Entry))
        /\ Len(store') = Len(store) /\ sid' = sid /\ lineage' = lineage
        /\ sink' = <<>> /\ tools' = TRUE /\ streaming' = FALSE
        /\ phase' \in {"idle", "autocompact"} /\ compacting' \in BOOLEAN
    BY <1>0, <1>1, TurnEnds, Zenon
  <1>3. /\ produced' = <<>> /\ produced' \in Seq(Message) /\ Len(produced') = 0
        /\ promptsLen' = 0 /\ promptsLen' \in 0..2 /\ promptsLen' <= Len(produced')
        /\ more' \in BOOLEAN /\ continuations' \in 0..MaxContinuations
    <2>1. EndRun
      BY <1>1, Zenon DEF JournalTurn
    <2> QED BY <2>1, EmptyRun
  <1>4. sink' \in Seq(SinkItem)
    BY <1>2
  <1>5. /\ steering' = steering /\ followUp' = followUp /\ cancelled' = cancelled
        /\ abortAsked' = abortAsked
    BY DEF queues
  <1>6. phase' \in Running \union {"hooks", "autocompact", "idle", "compact"}
    BY <1>2 DEF Running
  <1>7. Types'
    BY <1>0, <1>2, <1>3, <1>4, <1>5, <1>6 DEF Types
  <1>8. Control'
    BY <1>0, <1>2, <1>3, <1>5 DEF Control, StreamHasContext, HooksAreBounded,
      ToolsFollowRun, Running, RunsWhileRunning, CompactsAfter, AbortsAreOwn,
      UsersQueue, AllUsers
  <1> QED BY <1>7, <1>8, Zenon DEF ControlInv

\* What is left of a queue of users' messages is one of users' messages, and
\* what was drained is too.
LEMMA UsersDrained ==
  ASSUME NEW q \in Seq(Message), AllUsers(q)
  PROVE  AllUsers(Drained(q)) /\ AllUsers(Rest(q))
  <1>1. CASE Mode = "All" \/ q = <<>>
    BY <1>1 DEF Drained, Rest, AllUsers
  <1>2. CASE ~(Mode = "All" \/ q = <<>>)
    <2>1. /\ Head(q) = q[1] /\ DOMAIN q = 1..Len(q) /\ Len(q) \in Nat \ {0}
          /\ Tail(q) \in Seq(Message) /\ Len(Tail(q)) = Len(q) - 1
          /\ \A k \in 1..(Len(q) - 1) : Tail(q)[k] = q[k + 1]
      BY <1>2, TailParts, Elements
    <2>2. AllUsers(Rest(q))
      BY <1>2, <2>1 DEF Rest, AllUsers
    <2>3. AllUsers(Drained(q))
      BY <1>2, <2>1 DEF Drained, AllUsers
    <2> QED BY <2>2, <2>3
  <1> QED BY <1>1, <1>2

LEMMA UsersAppended ==
  ASSUME NEW q \in Seq(Message), NEW m \in Message, AllUsers(q), m.by = "user"
  PROVE  AllUsers(Append(q, m))
  BY DEF AllUsers

\* The steps inside the loop that end no run.
LEMMA ControlLoops ==
  ASSUME ControlInv
  PROVE  /\ Poll => ControlInv'
         /\ Request => ControlInv'
         /\ HookContinues => ControlInv'
         /\ \A k \in {"custom", "custom_message"} : ExtensionWrites(k) => ControlInv'
  <1>0. Types /\ Control /\ TypeOK
    BY TypesAreOK DEF ControlInv
  <1>t. \A k \in Nat : Make(k) => next' \in 0..MaxMessages /\ Room(k)
    BY <1>0, MadeNext
  <1>m. \A by \in Authors : Make(1) => Msg(1, by) \in Message
    BY <1>0, <1>t, MadeMessage
  <1>u. steering \in Seq(Message) /\ followUp \in Seq(Message)
        /\ AllUsers(steering) /\ AllUsers(followUp)
    BY <1>0 DEF Types, Control, UsersQueue
  <1>p. context \in Seq(Message) /\ produced \in Seq(Message)
    BY <1>0 DEF Types
  <1> USE DEF conversation, run, queues, flags
  <1>1. ASSUME Poll PROVE ControlInv'
    <2> DEFINE got == IF cancelled THEN <<>> ELSE Drained(steering)
    <2>1. got \in Seq(Message) /\ steering' \in Seq(Message) /\ AllUsers(steering')
      <3>1. <<>> \in Seq(Message)
        OBVIOUS
      <3> QED BY <1>1, <1>u, <3>1, DrainedParts, UsersDrained DEF Poll
    <2>2. context' = context \o got /\ produced' = produced \o got
      BY <1>1 DEF Poll
    <2> HIDE DEF got
    <2>3. /\ context' \in Seq(Message) /\ produced' \in Seq(Message)
          /\ Len(produced') >= Len(produced) /\ Len(produced) \in Nat
          /\ Len(produced') \in Nat
      BY <1>p, <2>1, <2>2
    <2>4. phase = "poll" /\ phase' \in {"request", "stop"}
      BY <1>1 DEF Poll
    <2>5. UNCHANGED <<conversation, promptsLen, more, continuations, followUp,
                      sink, cancelled, flags, abortAsked, next>>
      BY <1>1 DEF Poll
    <2>6. promptsLen' <= Len(produced') /\ promptsLen' \in 0..2
      BY <1>0, <2>3, <2>5 DEF Types
    <2>7. Types'
      BY <1>0, <2>1, <2>3, <2>4, <2>5, <2>6 DEF Types, Running
    <2>8. Control'
      BY <1>0, <2>1, <2>4, <2>5 DEF Control, StreamHasContext, HooksAreBounded,
        ToolsFollowRun, Running, RunsWhileRunning, CompactsAfter, AbortsAreOwn,
        UsersQueue, AllUsers
    <2> QED BY <2>7, <2>8, Zenon DEF ControlInv
  <1>2. ASSUME Request PROVE ControlInv'
    <2>1. next' \in 0..MaxMessages /\ Msg(1, "assistant") \in Message
      BY <1>2, <1>t, <1>m DEF Request, Authors
    <2>2. /\ phase = "request" /\ phase' = "stream"
          /\ context' = Append(context, Msg(1, "assistant"))
          /\ UNCHANGED <<conversation, run, queues, sink, cancelled, flags, abortAsked>>
      BY <1>2 DEF Request
    <2>3. context' \in Seq(Message) /\ context' # <<>>
      BY <1>p, <2>1, <2>2
    <2>4. Types'
      BY <1>0, <2>1, <2>2, <2>3 DEF Types, Running
    <2>5. Control'
      BY <1>0, <2>2, <2>3 DEF Control, StreamHasContext, HooksAreBounded,
        ToolsFollowRun, Running, RunsWhileRunning, CompactsAfter, AbortsAreOwn,
        UsersQueue, AllUsers
    <2> QED BY <2>4, <2>5, Zenon DEF ControlInv
  <1>3. ASSUME HookContinues PROVE ControlInv'
    <2>1. next' \in 0..MaxMessages /\ Msg(1, "hook") \in Message
      BY <1>3, <1>t, <1>m DEF HookContinues, Authors
    <2>2. /\ phase = "turn_end" /\ phase' = "request" /\ more' = TRUE
          /\ context' = context \o <<Msg(1, "hook")>>
          /\ produced' = produced \o <<Msg(1, "hook")>>
          /\ continuations' = continuations + 1
          /\ UNCHANGED <<conversation, promptsLen, queues, sink, cancelled, flags,
                         abortAsked>>
      BY <1>3 DEF HookContinues, Resume
    <2>3. <<Msg(1, "hook")>> \in Seq(Message) /\ Len(<<Msg(1, "hook")>>) = 1
      BY <2>1
    <2>4. /\ context' \in Seq(Message) /\ produced' \in Seq(Message)
          /\ Len(produced') = Len(produced) + 1 /\ Len(produced) \in Nat
      BY <1>p, <2>2, <2>3
    <2>5. promptsLen' <= Len(produced') /\ promptsLen' \in 0..2
      BY <1>0, <2>2, <2>4 DEF Types
    <2>6. continuations' \in 0..MaxContinuations
      BY <1>0, <2>2, SessionAssumption DEF Types, Control, HooksAreBounded
    <2>7. more' \in BOOLEAN
      BY <2>2
    <2>8. Types'
      BY <1>0, <2>1, <2>2, <2>4, <2>5, <2>6, <2>7 DEF Types, Running
    <2>9. Control'
      BY <1>0, <2>2 DEF Control, StreamHasContext, HooksAreBounded,
        ToolsFollowRun, Running, RunsWhileRunning, CompactsAfter, AbortsAreOwn,
        UsersQueue, AllUsers
    <2> QED BY <2>8, <2>9, Zenon DEF ControlInv
  <1>4. ASSUME NEW k \in {"custom", "custom_message"}, ExtensionWrites(k)
        PROVE ControlInv'
    <2>1. next' \in 0..MaxMessages /\ Msg(1, "custom") \in Message
      BY <1>4, <1>t, <1>m DEF ExtensionWrites, Authors
    <2>2. /\ sink' = Append(sink, [kind |-> k, msg |-> Msg(1, "custom")])
          /\ UNCHANGED <<phase, context, conversation, run, queues, cancelled, flags,
                         abortAsked>>
      BY <1>4 DEF ExtensionWrites
    <2>3. [kind |-> k, msg |-> Msg(1, "custom")] \in SinkItem
      BY <2>1 DEF SinkItem, Kinds
    <2>4. sink' \in Seq(SinkItem)
      BY <1>0, <2>2, <2>3 DEF Types
    <2>5. Types'
      BY <1>0, <2>1, <2>2, <2>4 DEF Types, Running
    <2>6. Control'
      BY <1>0, <2>2 DEF Control, StreamHasContext, HooksAreBounded,
        ToolsFollowRun, Running, RunsWhileRunning, CompactsAfter, AbortsAreOwn,
        UsersQueue, AllUsers
    <2> QED BY <2>5, <2>6, Zenon DEF ControlInv
  <1> QED BY <1>1, <1>2, <1>3, <1>4

\* The message that a broken stream leaves in place of its partial one.
Broken == [Last(context) EXCEPT !.by = IF cancelled THEN "aborted" ELSE "error"]

LEMMA BrokenParts ==
  ASSUME TypeOK, context # <<>>
  PROVE  /\ Last(context) \in Message /\ Broken \in Message
         /\ Last(context) = context[Len(context)] /\ Len(context) \in DOMAIN context
         /\ <<Broken>> \in Seq(Message) /\ <<Last(context)>> \in Seq(Message)
         /\ [context EXCEPT ![Len(context)] = Broken] \in Seq(Message)
         /\ Broken.n = Last(context).n /\ Broken.sid = Last(context).sid
         /\ Broken.by = IF cancelled THEN "aborted" ELSE "error"
  <1>1. context \in Seq(Message) /\ Len(context) \in 1..Len(context)
    BY DEF TypeOK
  <1>2. Last(context) \in Message /\ Last(context) = context[Len(context)]
    BY <1>1 DEF Last
  <1>3. /\ Broken \in Message /\ Broken.n = Last(context).n
        /\ Broken.sid = Last(context).sid
        /\ Broken.by = IF cancelled THEN "aborted" ELSE "error"
    BY <1>2 DEF Broken, Message, Authors
  <1>4. [context EXCEPT ![Len(context)] = Broken] \in Seq(Message)
    BY <1>1, <1>3, ExceptSeq
  <1> QED BY <1>1, <1>2, <1>3, <1>4

\* The steps that may end a run.
LEMMA ControlEnds ==
  ASSUME ControlInv
  PROVE  /\ RequestAborted => ControlInv'
         /\ StreamBreaks => ControlInv'
         /\ \A m \in BOOLEAN : StreamDone(m) => ControlInv'
         /\ PollFollowUp => ControlInv'
         /\ HookLetsEnd => ControlInv'
  <1>0. Types /\ Control /\ TypeOK
    BY TypesAreOK DEF ControlInv
  <1>p. context \in Seq(Message) /\ produced \in Seq(Message) /\ next \in 0..MaxMessages
    BY <1>0 DEF Types
  <1>e. <<>> \in Seq(Message)
    OBVIOUS
  <1>1. ASSUME RequestAborted PROVE ControlInv'
    <2>1. Make(1) /\ EndTurn(<<Msg(1, "aborted")>>)
          /\ context' = Append(context, Msg(1, "aborted"))
          /\ UNCHANGED <<queues, cancelled, abortAsked>>
      BY <1>1 DEF RequestAborted
    <2>2. next' \in 0..MaxMessages /\ Room(1)
      BY <1>0, <2>1, MadeNext
    <2>3. Msg(1, "aborted") \in Message
      BY <1>0, <2>2, MadeMessage DEF Authors
    <2>4. <<Msg(1, "aborted")>> \in Seq(Message) /\ context' \in Seq(Message)
      BY <1>p, <2>1, <2>3
    <2> QED BY <2>1, <2>2, <2>4, ControlTurnEnds
  <1>2. ASSUME StreamBreaks PROVE ControlInv'
    <2>1. /\ context' = [context EXCEPT ![Len(context)] = Broken]
          /\ EndTurn(<<Broken>>)
          /\ UNCHANGED <<queues, cancelled, abortAsked>> /\ next' = next
      BY <1>2, Zenon DEF StreamBreaks, Broken
    <2>2. context # <<>>
      BY <1>0, <1>2 DEF Control, StreamHasContext, StreamBreaks
    <2>3. <<Broken>> \in Seq(Message) /\ context' \in Seq(Message)
      BY <1>0, <2>1, <2>2, BrokenParts
    <2> QED BY <1>p, <2>1, <2>3, ControlTurnEnds
  <1>3. ASSUME NEW m \in BOOLEAN, StreamDone(m) PROVE ControlInv'
    <2>1. context # <<>> /\ phase = "stream"
      BY <1>0, <1>3 DEF Control, StreamHasContext, StreamDone
    <2>2. Last(context) \in Message /\ <<Last(context)>> \in Seq(Message)
      BY <1>0, <2>1, BrokenParts
    <2>3. UNCHANGED <<context, queues, cancelled, abortAsked, next>>
      BY <1>3 DEF StreamDone
    <2>4. CASE cancelled
      <3>1. EndTurn(<<Last(context)>>)
        BY <1>3, <2>4 DEF StreamDone
      <3>2. context' \in Seq(Message) /\ next' \in 0..MaxMessages
        BY <1>p, <2>3
      <3> QED BY <2>2, <2>3, <3>1, <3>2, ControlTurnEnds
    <2>5. CASE ~cancelled
      <3>1. /\ phase' = "poll" /\ produced' = Append(produced, Last(context))
            /\ more' = m
            /\ UNCHANGED <<conversation, promptsLen, continuations, sink, flags>>
        BY <1>3, <2>5 DEF StreamDone
      <3>2. /\ produced' \in Seq(Message) /\ Len(produced') = Len(produced) + 1
            /\ Len(produced) \in Nat
        BY <1>p, <2>2, <3>1
      <3>3. promptsLen' <= Len(produced') /\ promptsLen' \in 0..2 /\ more' \in BOOLEAN
        BY <1>0, <3>1, <3>2 DEF Types
      <3>4. Types'
        BY <1>0, <2>3, <3>1, <3>2, <3>3
        DEF Types, Running, conversation, queues, flags
      <3>5. Control'
        BY <1>0, <2>1, <2>3, <3>1 DEF Control, StreamHasContext, HooksAreBounded,
          ToolsFollowRun, Running, RunsWhileRunning, CompactsAfter, AbortsAreOwn,
          UsersQueue, AllUsers, conversation, queues, flags
      <3> QED BY <3>4, <3>5, Zenon DEF ControlInv
    <2> QED BY <2>4, <2>5
  <1>4. ASSUME PollFollowUp PROVE ControlInv'
    <2>0. PICK hook \in BOOLEAN :
            /\ FollowUpOrEnd(hook) /\ (hook => continuations < MaxContinuations)
      BY <1>0, <1>4, SessionAssumption DEF PollFollowUp, Types
    <2>1. UNCHANGED <<steering, cancelled, abortAsked, next>> /\ phase = "stop"
      BY <2>0 DEF FollowUpOrEnd
    <2>2. CASE ~cancelled /\ followUp # <<>>
      <3>1. /\ Resume(Drained(followUp)) /\ followUp' = Rest(followUp)
            /\ UNCHANGED <<conversation, promptsLen, continuations, sink, flags>>
        BY <2>0, <2>2 DEF FollowUpOrEnd
      <3>2. followUp \in Seq(Message) /\ AllUsers(followUp)
        BY <1>0 DEF Types, Control, UsersQueue
      <3>3. /\ Drained(followUp) \in Seq(Message) /\ followUp' \in Seq(Message)
            /\ AllUsers(followUp')
        BY <3>1, <3>2, DrainedParts, UsersDrained
      <3>4. /\ phase' = "request" /\ more' = TRUE
            /\ context' = context \o Drained(followUp)
            /\ produced' = produced \o Drained(followUp)
        BY <3>1 DEF Resume
      <3>5. /\ context' \in Seq(Message) /\ produced' \in Seq(Message)
            /\ Len(produced') >= Len(produced) /\ Len(produced) \in Nat
            /\ Len(produced') \in Nat
        BY <1>p, <3>3, <3>4
      <3>6. promptsLen' <= Len(produced') /\ promptsLen' \in 0..2 /\ more' \in BOOLEAN
        BY <1>0, <3>1, <3>4, <3>5 DEF Types
      <3>7. Types'
        BY <1>0, <2>1, <3>1, <3>3, <3>4, <3>5, <3>6
        DEF Types, Running, conversation, flags
      <3>8. Control'
        BY <1>0, <2>1, <3>1, <3>3, <3>4 DEF Control, StreamHasContext,
          HooksAreBounded, ToolsFollowRun, Running, RunsWhileRunning, CompactsAfter,
          AbortsAreOwn, UsersQueue, AllUsers, conversation, flags
      <3> QED BY <3>7, <3>8, Zenon DEF ControlInv
    <2>3. CASE ~cancelled /\ followUp = <<>> /\ hook
      <3>1. /\ phase' = "turn_end"
            /\ UNCHANGED <<context, conversation, run, followUp, sink, flags>>
        BY <2>0, <2>3 DEF FollowUpOrEnd
      <3>2. Types'
        BY <1>0, <2>1, <3>1 DEF Types, Running, conversation, run, flags
      <3>3. Control'
        BY <1>0, <2>0, <2>1, <2>3, <3>1 DEF Control, StreamHasContext,
          HooksAreBounded, ToolsFollowRun, Running, RunsWhileRunning, CompactsAfter,
          AbortsAreOwn, UsersQueue, AllUsers, conversation, run, flags
      <3> QED BY <3>2, <3>3, Zenon DEF ControlInv
    <2>4. CASE cancelled \/ (followUp = <<>> /\ ~hook)
      <3>1. EndTurn(<<>>) /\ UNCHANGED <<context, followUp>>
        BY <2>0, <2>4 DEF FollowUpOrEnd
      <3>2. context' \in Seq(Message) /\ next' \in 0..MaxMessages
        BY <1>p, <2>1, <3>1
      <3>3. UNCHANGED <<queues, cancelled, abortAsked>>
        BY <2>1, <3>1 DEF queues
      <3> QED BY <1>e, <3>1, <3>2, <3>3, ControlTurnEnds
    <2> QED BY <2>2, <2>3, <2>4
  <1>5. ASSUME HookLetsEnd PROVE ControlInv'
    <2>1. EndTurn(<<>>) /\ UNCHANGED <<context, queues, cancelled, abortAsked, next>>
      BY <1>5 DEF HookLetsEnd
    <2>2. context' \in Seq(Message) /\ next' \in 0..MaxMessages
      BY <1>p, <2>1
    <2> QED BY <1>e, <2>1, <2>2, ControlTurnEnds
  <1> QED BY <1>1, <1>2, <1>3, <1>4, <1>5

\* One entry made by the session itself.
LEMMA OneEntry ==
  ASSUME TypeOK, NEW kind \in Kinds, Make(1),
         NEW saved, Journal(<<EntryOf(kind, Msg(1, "custom"))>>, saved)
  PROVE  /\ next' \in 0..MaxMessages
         /\ <<EntryOf(kind, Msg(1, "custom"))>> \in Seq(Entry)
         /\ entries' \in Seq(Entry) /\ store' \in Seq(Seq(Entry))
         /\ Len(store') = Len(store) /\ sid' = sid /\ lineage' = lineage
  <1>1. next' \in 0..MaxMessages /\ Room(1)
    BY MadeNext
  <1>2. Msg(1, "custom") \in Message
    BY <1>1, MadeMessage DEF Authors
  <1>3. EntryOf(kind, Msg(1, "custom")) \in Entry
    BY <1>2, EntryOfMessage
  <1>4. <<EntryOf(kind, Msg(1, "custom"))>> \in Seq(Entry)
    BY <1>3
  <1> QED BY <1>1, <1>4, JournalTypes

\* Compaction, the entries about the session, and what comes through the handles.
LEMMA ControlAppends ==
  ASSUME ControlInv
  PROVE  /\ Summarised => ControlInv'
         /\ SetInfo => ControlInv'
         /\ EnqueueSteer => ControlInv'
         /\ EnqueueFollowUp => ControlInv'
  <1>0. Types /\ Control /\ TypeOK
    BY TypesAreOK DEF ControlInv
  <1>1. ASSUME Summarised PROVE ControlInv'
    <2>1. /\ phase \in {"compact", "autocompact"} /\ phase' = "idle"
          /\ compacting' = FALSE /\ Make(1)
          /\ UNCHANGED <<context, run, queues, sink, cancelled, tools, streaming,
                         abortAsked>>
      BY <1>1 DEF Summarised
    <2>2. PICK saved : Journal(<<EntryOf("compaction", Msg(1, "custom"))>>, saved)
      BY <1>1, Zenon DEF Summarised
    <2>3. /\ next' \in 0..MaxMessages
          /\ entries' \in Seq(Entry) /\ store' \in Seq(Seq(Entry))
          /\ Len(store') = Len(store) /\ sid' = sid /\ lineage' = lineage
      BY <1>0, <2>1, <2>2, OneEntry DEF Kinds
    <2>4. Types'
      BY <1>0, <2>1, <2>3 DEF Types, Running, run, queues
    <2>5. Control'
      BY <1>0, <2>1 DEF Control, StreamHasContext, HooksAreBounded, ToolsFollowRun,
        Running, RunsWhileRunning, CompactsAfter, AbortsAreOwn, UsersQueue, AllUsers,
        run, queues
    <2> QED BY <2>4, <2>5, Zenon DEF ControlInv
  <1>2. ASSUME SetInfo PROVE ControlInv'
    <2>1. /\ phase = "idle" /\ Make(1)
          /\ UNCHANGED <<phase, context, run, queues, sink, cancelled, flags, abortAsked>>
      BY <1>2 DEF SetInfo
    <2>2. PICK saved : Journal(<<EntryOf("info", Msg(1, "custom"))>>, saved)
      BY <1>2, Zenon DEF SetInfo
    <2>3. /\ next' \in 0..MaxMessages
          /\ entries' \in Seq(Entry) /\ store' \in Seq(Seq(Entry))
          /\ Len(store') = Len(store) /\ sid' = sid /\ lineage' = lineage
      BY <1>0, <2>1, <2>2, OneEntry DEF Kinds
    <2>4. Types'
      BY <1>0, <2>1, <2>3 DEF Types, Running, run, queues, flags
    <2>5. Control'
      BY <1>0, <2>1 DEF Control, StreamHasContext, HooksAreBounded, ToolsFollowRun,
        Running, RunsWhileRunning, CompactsAfter, AbortsAreOwn, UsersQueue, AllUsers,
        run, queues, flags
    <2> QED BY <2>4, <2>5, Zenon DEF ControlInv
  <1>3. ASSUME EnqueueSteer PROVE ControlInv'
    <2>1. /\ Make(1) /\ steering' = Append(steering, Msg(1, "user"))
          /\ UNCHANGED <<phase, context, conversation, run, followUp, sink, cancelled,
                         flags, abortAsked>>
      BY <1>3 DEF EnqueueSteer
    <2>2. next' \in 0..MaxMessages /\ Room(1)
      BY <1>0, <2>1, MadeNext
    <2>3. Msg(1, "user") \in Message /\ Msg(1, "user").by = "user"
      BY <1>0, <2>2, MadeMessage DEF Authors
    <2>4. steering \in Seq(Message) /\ AllUsers(steering) /\ AllUsers(followUp)
      BY <1>0 DEF Types, Control, UsersQueue
    <2>5. steering' \in Seq(Message) /\ AllUsers(steering')
      BY <2>1, <2>3, <2>4, UsersAppended
    <2>6. Types'
      BY <1>0, <2>1, <2>2, <2>5 DEF Types, Running, conversation, run, flags
    <2>7. Control'
      BY <1>0, <2>1, <2>5 DEF Control, StreamHasContext, HooksAreBounded,
        ToolsFollowRun, Running, RunsWhileRunning, CompactsAfter, AbortsAreOwn,
        UsersQueue, AllUsers, conversation, run, flags
    <2> QED BY <2>6, <2>7, Zenon DEF ControlInv
  <1>4. ASSUME EnqueueFollowUp PROVE ControlInv'
    <2>1. /\ Make(1) /\ followUp' = Append(followUp, Msg(1, "user"))
          /\ UNCHANGED <<phase, context, conversation, run, steering, sink, cancelled,
                         flags, abortAsked>>
      BY <1>4 DEF EnqueueFollowUp
    <2>2. next' \in 0..MaxMessages /\ Room(1)
      BY <1>0, <2>1, MadeNext
    <2>3. Msg(1, "user") \in Message /\ Msg(1, "user").by = "user"
      BY <1>0, <2>2, MadeMessage DEF Authors
    <2>4. followUp \in Seq(Message) /\ AllUsers(steering) /\ AllUsers(followUp)
      BY <1>0 DEF Types, Control, UsersQueue
    <2>5. followUp' \in Seq(Message) /\ AllUsers(followUp')
      BY <2>1, <2>3, <2>4, UsersAppended
    <2>6. Types'
      BY <1>0, <2>1, <2>2, <2>5 DEF Types, Running, conversation, run, flags
    <2>7. Control'
      BY <1>0, <2>1, <2>5 DEF Control, StreamHasContext, HooksAreBounded,
        ToolsFollowRun, Running, RunsWhileRunning, CompactsAfter, AbortsAreOwn,
        UsersQueue, AllUsers, conversation, run, flags
    <2> QED BY <2>6, <2>7, Zenon DEF ControlInv
  <1> QED BY <1>1, <1>2, <1>3, <1>4, Zenon

\* A session adopted: whatever its entries, the queues and flags start afresh.
LEMMA ControlAdopts ==
  ASSUME ControlInv, NEW es \in Seq(Entry), Adopt(es),
         store' \in Seq(Seq(Entry)), Len(store') \in 1..MaxSessions,
         sid' \in 1..Len(store'), lineage' \in Seq(SUBSET (1..MaxSessions)),
         Len(lineage') = Len(store')
  PROVE  ControlInv'
  <1>0. Types /\ Control /\ TypeOK
    BY TypesAreOK DEF ControlInv
  <1>1. /\ phase = "idle" /\ phase' = "idle"
        /\ entries' \in Seq(Entry) /\ context' = BuildContext(es)
        /\ streaming' = FALSE /\ compacting' = FALSE
        /\ steering' = <<>> /\ followUp' = <<>>
        /\ UNCHANGED <<run, sink, cancelled, tools, abortAsked, next>>
    BY DEF Adopt
  <1>2. context' \in Seq(Message)
    BY <1>1, BuildContextType
  <1>3. steering' \in Seq(Message) /\ followUp' \in Seq(Message)
    BY <1>1
  <1>4. AllUsers(steering') /\ AllUsers(followUp')
    BY <1>1 DEF AllUsers
  <1>5. Types'
    BY <1>0, <1>1, <1>2, <1>3 DEF Types, Running, run
  <1>6. Control'
    BY <1>0, <1>1, <1>4 DEF Control, StreamHasContext, HooksAreBounded,
      ToolsFollowRun, Running, RunsWhileRunning, CompactsAfter, AbortsAreOwn,
      UsersQueue, AllUsers, run
  <1> QED BY <1>5, <1>6, Zenon DEF ControlInv

LEMMA NewSessionTypes ==
  ASSUME TypeOK, NEW es \in Seq(Entry), NEW anc \in SUBSET (1..MaxSessions),
         NewSession(es, anc)
  PROVE  /\ store' \in Seq(Seq(Entry)) /\ Len(store') = Len(store) + 1
         /\ Len(store') \in 1..MaxSessions /\ sid' = Len(store')
         /\ lineage' \in Seq(SUBSET (1..MaxSessions)) /\ Len(lineage') = Len(store')
         /\ store' = Append(store, es)
         /\ lineage' = Append(lineage, anc \union {sid'})
  <1>1. /\ store \in Seq(Seq(Entry)) /\ Len(store) \in 1..MaxSessions
        /\ MaxSessions \in Nat
        /\ lineage \in Seq(SUBSET (1..MaxSessions)) /\ Len(lineage) = Len(store)
    BY SessionAssumption DEF TypeOK
  <1>2. /\ Len(store) < MaxSessions /\ store' = Append(store, es)
        /\ sid' = Len(store') /\ lineage' = Append(lineage, anc \union {sid'})
    BY DEF NewSession
  <1>3. store' \in Seq(Seq(Entry)) /\ Len(store') = Len(store) + 1
    BY <1>1, <1>2
  <1>4. Len(store') \in 1..MaxSessions
    BY <1>1, <1>2, <1>3
  <1>5. anc \union {sid'} \in SUBSET (1..MaxSessions)
    BY <1>2, <1>4
  <1>6. lineage' \in Seq(SUBSET (1..MaxSessions)) /\ Len(lineage') = Len(lineage) + 1
    BY <1>1, <1>2, <1>5
  <1> QED BY <1>1, <1>2, <1>3, <1>4, <1>6

\* The session operations.
LEMMA ControlManages ==
  ASSUME ControlInv
  PROVE  /\ ResetSession => ControlInv'
         /\ CloneSession => ControlInv'
         /\ \A i \in DOMAIN entries : Fork(i) => ControlInv'
         /\ \A n \in 0..(Len(entries) - 1) : BranchFails(entries, n) => ControlInv'
         /\ \A s \in DOMAIN store : SwitchSession(s) => ControlInv'
  <1>0. Types /\ Control /\ TypeOK
    BY TypesAreOK DEF ControlInv
  <1>1. /\ entries \in Seq(Entry) /\ Len(entries) \in Nat
        /\ DOMAIN entries = 1..Len(entries)
        /\ store \in Seq(Seq(Entry)) /\ DOMAIN store = 1..Len(store)
        /\ Len(store) \in 1..MaxSessions /\ sid \in 1..Len(store)
        /\ lineage \in Seq(SUBSET (1..MaxSessions)) /\ Len(lineage) = Len(store)
    BY <1>0 DEF Types
  <1>2. lineage[sid] \in SUBSET (1..MaxSessions) /\ {} \in SUBSET (1..MaxSessions)
    BY <1>1
  <1>3. <<>> \in Seq(Entry)
    OBVIOUS
  <1>4. \A n \in 0..Len(entries) : SubSeq(entries, 1, n) \in Seq(Entry)
    BY <1>1, SubSeqProperties
  <1>5. ASSUME NEW es \in Seq(Entry), NEW anc \in SUBSET (1..MaxSessions),
               NewSession(es, anc), Adopt(es)
        PROVE  ControlInv'
    <2>1. /\ store' \in Seq(Seq(Entry)) /\ Len(store') \in 1..MaxSessions
          /\ sid' = Len(store')
          /\ lineage' \in Seq(SUBSET (1..MaxSessions)) /\ Len(lineage') = Len(store')
      BY <1>0, <1>5, NewSessionTypes
    <2>2. sid' \in 1..Len(store')
      BY <2>1
    <2> QED BY <1>5, <2>1, <2>2, ControlAdopts
  <1>6. ASSUME ResetSession PROVE ControlInv'
    BY <1>2, <1>3, <1>5, <1>6 DEF ResetSession
  <1>7. ASSUME CloneSession PROVE ControlInv'
    BY <1>1, <1>2, <1>5, <1>7 DEF CloneSession
  <1>8. ASSUME NEW i \in DOMAIN entries, Fork(i) PROVE ControlInv'
    <2>1. SubSeq(entries, 1, i - 1) \in Seq(Entry)
      BY <1>1, <1>4
    <2> QED BY <1>2, <1>5, <1>8, <2>1 DEF Fork
  <1>9. ASSUME NEW n \in 0..(Len(entries) - 1), BranchFails(entries, n)
        PROVE  ControlInv'
    <2>1. /\ Len(store) < MaxSessions
          /\ store' = Append(store, SubSeq(entries, 1, n))
          /\ lineage' = Append(lineage, lineage[sid] \union {Len(store')})
          /\ UNCHANGED <<phase, context, entries, sid, run, queues, sink, cancelled,
                         flags, abortAsked, next>>
      BY <1>9 DEF BranchFails
    <2>2. SubSeq(entries, 1, n) \in Seq(Entry)
      BY <1>1, <1>4
    <2>3. /\ store' \in Seq(Seq(Entry)) /\ Len(store') = Len(store) + 1
          /\ Len(store') \in 1..MaxSessions /\ sid \in 1..Len(store')
      BY <1>1, <2>1, <2>2, SessionAssumption
    <2>4. lineage[sid] \union {Len(store')} \in SUBSET (1..MaxSessions)
      BY <1>2, <2>3
    <2>5. /\ lineage' \in Seq(SUBSET (1..MaxSessions))
          /\ Len(lineage') = Len(store')
      BY <1>1, <2>1, <2>3, <2>4
    <2>6. Types'
      BY <1>0, <2>1, <2>3, <2>5 DEF Types, Running, run, queues, flags
    <2>7. Control'
      BY <1>0, <2>1 DEF Control, StreamHasContext, HooksAreBounded, ToolsFollowRun,
        Running, RunsWhileRunning, CompactsAfter, AbortsAreOwn, UsersQueue, AllUsers,
        run, queues, flags
    <2> QED BY <2>6, <2>7, Zenon DEF ControlInv
  <1>10. ASSUME NEW s \in DOMAIN store, SwitchSession(s) PROVE ControlInv'
    <2>1. Adopt(store[s]) /\ sid' = s /\ store' = store /\ lineage' = lineage
      BY <1>10 DEF SwitchSession
    <2>2. store[s] \in Seq(Entry)
      BY <1>1
    <2> QED BY <1>1, <2>1, <2>2, ControlAdopts
  <1> QED BY <1>6, <1>7, <1>8, <1>9, <1>10, Zenon

LEMMA ControlStep == ControlInv /\ [Next]_vars => ControlInv'
  <1> SUFFICES ASSUME ControlInv, [Next]_vars PROVE ControlInv'
    OBVIOUS
  <1>1. CASE Turn
    BY <1>1, ControlSilent, ControlPrompts, ControlLoops, ControlEnds,
       ControlAppends, Zenon DEF Turn
  <1>2. CASE Manage
    BY <1>2, ControlManages, ControlAppends, Zenon DEF Manage
  <1>3. CASE Handles
    BY <1>3, ControlSilent, ControlAppends, Zenon DEF Handles
  <1>4. CASE UNCHANGED vars
    <2>1. Types'
      BY <1>4 DEF ControlInv, Types, vars, conversation, run, queues, flags
    <2>2. Control'
      BY <1>4 DEF ControlInv, Control, StreamHasContext, HooksAreBounded,
        ToolsFollowRun, Running, RunsWhileRunning, CompactsAfter, AbortsAreOwn,
        UsersQueue, AllUsers, vars, conversation, run, queues, flags
    <2> QED BY <2>1, <2>2, Zenon DEF ControlInv
  <1> QED BY <1>1, <1>2, <1>3, <1>4 DEF Next

LEMMA ControlHolds == Spec => []ControlInv
  <1> QED BY ControlInit, ControlStep, PTL DEF Spec

\* The state of a session keeps its types, whatever fails (send_message,
\* compact and the session operations of AgentSession).
THEOREM SessionTypeCorrect == Spec => []TypeOK
  <1>1. ControlInv => TypeOK
    BY TypesAreOK DEF ControlInv
  <1> QED BY <1>1, ControlHolds, PTL

----------------------------------------------------------------------------
(* Aborts, and how a send ends. *)

\* A step that puts a message into the context that says it was aborted.
AbortIsOwn ==
  \A m \in ToSet(context') \ ToSet(context) :
    phase # "idle" /\ m.by = "aborted" => abortAsked

LEMMA AddedMessages ==
  ASSUME NEW s \in Seq(Message), NEW t \in Seq(Message)
  PROVE  \A m \in ToSet(s \o t) \ ToSet(s) : \E i \in DOMAIN t : m = t[i]
  <1>1. ToSet(s \o t) = ToSet(s) \cup ToSet(t)
    BY ConcatElements
  <1>2. \A m \in ToSet(t) : \E i \in DOMAIN t : m = t[i]
    BY DEF ToSet
  <1> QED BY <1>1, <1>2

LEMMA AbortIsOwnStep ==
  ASSUME ControlInv, [Next]_vars
  PROVE  AbortIsOwn
  <1>0. Types /\ Control /\ TypeOK
    BY TypesAreOK DEF ControlInv
  <1>c. context \in Seq(Message) /\ Len(context) \in Nat
    BY <1>0 DEF Types
  <1>1. ASSUME context' = context PROVE AbortIsOwn
    BY <1>1 DEF AbortIsOwn
  <1>2. ASSUME phase = "idle" PROVE AbortIsOwn
    BY <1>2 DEF AbortIsOwn
  <1>3. ASSUME phase \in Running, cancelled PROVE AbortIsOwn
    BY <1>0, <1>3 DEF AbortIsOwn, Control, AbortsAreOwn
  <1>4. ASSUME NEW t \in Seq(Message), context' = context \o t,
               \A i \in DOMAIN t : t[i].by # "aborted"
        PROVE  AbortIsOwn
    BY <1>c, <1>4, AddedMessages DEF AbortIsOwn
  <1>m. ASSUME NEW by \in Authors, by # "aborted", Make(1),
               context' = context \o <<Msg(1, by)>>
        PROVE  AbortIsOwn
    <2>1. Msg(1, by) \in Message /\ Msg(1, by).by = by
      BY <1>0, <1>m, MadeNext, MadeMessage
    <2>2. <<Msg(1, by)>> \in Seq(Message)
      BY <2>1
    <2>3. \A i \in DOMAIN <<Msg(1, by)>> : <<Msg(1, by)>>[i].by # "aborted"
      BY <1>m, <2>1
    <2> QED BY <1>4, <1>m, <2>2, <2>3, Zenon
  <1>5. ASSUME NEW c \in BOOLEAN, BeginTurn(c) PROVE AbortIsOwn
    <2>1. Make(Len(Prompts(c))) /\ context' = context \o Prompts(c)
      BY <1>5 DEF BeginTurn, Launch
    <2>2. Len(Prompts(c)) \in Nat
      BY DEF Prompts
    <2>3. /\ Prompts(c) \in Seq(Message)
          /\ \A j \in 1..Len(Prompts(c)) : \E by \in {"context", "user"} :
               Prompts(c)[j] = Msg(j, by)
      BY <1>0, <2>1, <2>2, MadeNext, AllPrompts
    <2>4. \A j \in DOMAIN Prompts(c) : Prompts(c)[j].by # "aborted"
      <3>1. DOMAIN Prompts(c) = 1..Len(Prompts(c))
        BY <2>3, Elements
      <3>2. \A j : Msg(j, "context").by # "aborted" /\ Msg(j, "user").by # "aborted"
        BY DEF Msg
      <3>3. ASSUME NEW j \in 1..Len(Prompts(c)) PROVE Prompts(c)[j].by # "aborted"
        <4>1. Prompts(c)[j] = Msg(j, "context") \/ Prompts(c)[j] = Msg(j, "user")
          BY <2>3, <3>3
        <4> QED BY <3>2, <4>1, Zenon
      <3> QED BY <3>1, <3>3
    <2> QED BY <1>4, <2>1, <2>3, <2>4
  <1>6. ASSUME Poll PROVE AbortIsOwn
    <2>1. context' = context \o (IF cancelled THEN <<>> ELSE Drained(steering))
      BY <1>6 DEF Poll
    <2>2. steering \in Seq(Message) /\ AllUsers(steering)
      BY <1>0 DEF Types, Control, UsersQueue
    <2>3. CASE cancelled
      <3>1. context' = context
        BY <1>c, <2>1, <2>3
      <3> QED BY <1>1, <3>1
    <2>4. CASE ~cancelled
      <3>1. Drained(steering) \in Seq(Message) /\ AllUsers(Drained(steering))
        BY <2>2, DrainedParts, UsersDrained
      <3>2. \A i \in DOMAIN Drained(steering) : Drained(steering)[i].by # "aborted"
        BY <3>1 DEF AllUsers
      <3> QED BY <1>4, <2>1, <2>4, <3>1, <3>2
    <2> QED BY <2>3, <2>4
  <1>7. ASSUME RequestAborted PROVE AbortIsOwn
    BY <1>3, <1>7 DEF RequestAborted, Running
  <1>8. ASSUME Request PROVE AbortIsOwn
    <2>1. Make(1) /\ context' = Append(context, Msg(1, "assistant"))
      BY <1>8 DEF Request
    <2>2. Msg(1, "assistant") \in Message
      BY <1>0, <2>1, MadeNext, MadeMessage DEF Authors
    <2>3. context' = context \o <<Msg(1, "assistant")>>
      BY <1>c, <2>1, <2>2, AppendIsConcat
    <2> QED BY <1>m, <2>1, <2>3 DEF Authors
  <1>9. ASSUME StreamBreaks PROVE AbortIsOwn
    <2>1. phase = "stream" /\ context # <<>>
      BY <1>0, <1>9 DEF Control, StreamHasContext, StreamBreaks
    <2>2. CASE cancelled
      BY <1>3, <2>1, <2>2 DEF Running
    <2>3. CASE ~cancelled
      <3>1. context' = [context EXCEPT ![Len(context)] = Broken]
        BY <1>9, Zenon DEF StreamBreaks, Broken
      <3>2. Broken.by = "error"
        BY <1>0, <2>1, <2>3, BrokenParts
      <3>3. context \in Seq(Message) /\ DOMAIN context' = DOMAIN context
        BY <1>c, <3>1
      <3>4. \A i \in DOMAIN context : context'[i] = Broken \/ context'[i] = context[i]
        BY <1>c, <3>1
      <3>5. \A m \in ToSet(context') \ ToSet(context) : m = Broken
        BY <3>3, <3>4 DEF ToSet
      <3> QED BY <3>2, <3>5 DEF AbortIsOwn
    <2> QED BY <2>2, <2>3
  <1>10. ASSUME NEW hook \in BOOLEAN, FollowUpOrEnd(hook) PROVE AbortIsOwn
    <2>1. \/ ~cancelled /\ followUp # <<>> /\ Resume(Drained(followUp))
          \/ context' = context
      BY <1>10 DEF FollowUpOrEnd
    <2>2. CASE ~cancelled /\ followUp # <<>> /\ Resume(Drained(followUp))
      <3>1. context' = context \o Drained(followUp)
        BY <2>2 DEF Resume
      <3>2. followUp \in Seq(Message) /\ AllUsers(followUp)
        BY <1>0 DEF Types, Control, UsersQueue
      <3>3. Drained(followUp) \in Seq(Message) /\ AllUsers(Drained(followUp))
        BY <3>2, DrainedParts, UsersDrained
      <3>4. \A i \in DOMAIN Drained(followUp) : Drained(followUp)[i].by # "aborted"
        BY <3>3 DEF AllUsers
      <3> QED BY <1>4, <3>1, <3>3, <3>4
    <2> QED BY <1>1, <2>1, <2>2
  <1>11. ASSUME HookContinues PROVE AbortIsOwn
    BY <1>m, <1>11 DEF HookContinues, Resume, Authors
  <1>12. CASE Turn
    <2>1. \/ UNCHANGED context
          \/ \E c \in BOOLEAN : BeginTurn(c)
          \/ Poll \/ RequestAborted \/ Request \/ StreamBreaks
          \/ \E hook \in BOOLEAN : FollowUpOrEnd(hook)
          \/ HookContinues
      <3> DEFINE Quiet == UNCHANGED context
      <3>1. Send \/ HookCancels \/ LoopFails \/ Timeout => Quiet
        BY DEF Send, HookCancels, LoopFails, Timeout
      <3>2. \A c \in BOOLEAN, i \in 1..2 : PromptNotSaved(c, i) => Quiet
        BY DEF PromptNotSaved
      <3>3. \A m \in BOOLEAN : StreamDone(m) => Quiet
        BY DEF StreamDone
      <3>4. HookLetsEnd \/ Compact \/ Summarised => Quiet
        BY DEF HookLetsEnd, Compact, Summarised
      <3>5. \A k \in {"custom", "custom_message"} : ExtensionWrites(k) => Quiet
        BY DEF ExtensionWrites
      <3>6. PollFollowUp => \E hook \in BOOLEAN : FollowUpOrEnd(hook)
        <4>1. (HasTurnEndHook /\ continuations < MaxContinuations) \in BOOLEAN
          OBVIOUS
        <4> QED BY <4>1, Zenon DEF PollFollowUp
      <3> HIDE DEF Quiet
      <3>7. \/ Quiet
            \/ \E c \in BOOLEAN : BeginTurn(c)
            \/ Poll \/ RequestAborted \/ Request \/ StreamBreaks
            \/ \E hook \in BOOLEAN : FollowUpOrEnd(hook)
            \/ HookContinues
        BY <1>12, <3>1, <3>2, <3>3, <3>4, <3>5, <3>6, Zenon DEF Turn
      <3> QED BY <3>7 DEF Quiet
    <2> QED BY <1>1, <1>5, <1>6, <1>7, <1>8, <1>9, <1>10, <1>11, <2>1, Zenon
  <1>13. CASE Manage
    <2>1. phase = "idle"
      BY <1>13 DEF Manage, SetInfo, ResetSession, CloneSession, Fork, BranchFails,
        SwitchSession, Adopt
    <2> QED BY <1>2, <2>1
  <1>14. CASE Handles
    BY <1>1, <1>14 DEF Handles, EnqueueSteer, EnqueueFollowUp, Abort
  <1>15. CASE UNCHANGED vars
    BY <1>1, <1>15 DEF vars
  <1> QED BY <1>12, <1>13, <1>14, <1>15 DEF Next

\* A run answers itself as aborted only when an abort came during its own send:
\* neither an earlier abort nor a watchdog timeout poisons it (the token that
\* send_message makes, abort, run_under_watchdog).
THEOREM AbortsAreOwnOnly == Spec => NoStaleAbort
  <1>1. ControlInv /\ [Next]_vars => [AbortIsOwn]_vars
    BY AbortIsOwnStep
  <1>2. [AbortIsOwn]_vars =>
          [\A m \in ToSet(context') \ ToSet(context) :
             phase # "idle" /\ m.by = "aborted" => abortAsked]_vars
    BY DEF AbortIsOwn
  <1> QED BY <1>1, <1>2, ControlHolds, PTL DEF Spec, NoStaleAbort

\* How a step that ends a send or a compaction leaves the flags.
EndsUsable ==
  phase # "idle" /\ phase' = "idle" =>
    \/ Timeout
    \/ /\ phase \notin {"hooks", "compact"} => ~streaming'
       /\ phase \in {"compact", "autocompact"} => ~compacting'

LEMMA EndsUsableStep ==
  ASSUME ControlInv, [Next]_vars
  PROVE  EndsUsable
  <1>0. Types /\ Control /\ TypeOK
    BY TypesAreOK DEF ControlInv
  <1>1. ASSUME NEW ms \in Seq(Message), EndTurn(ms),
               phase \notin {"compact", "autocompact"}
        PROVE  EndsUsable
    <2>1. streaming' = FALSE
      BY <1>1, Zenon DEF EndTurn, JournalTurn
    <2> QED BY <1>1, <2>1 DEF EndsUsable
  <1>2. ASSUME phase' # "idle" \/ phase \in {"idle", "hooks"} \/ phase' = phase
        PROVE  EndsUsable
    BY <1>2 DEF EndsUsable
  <1>3. ASSUME RequestAborted PROVE EndsUsable
    <2>1. Make(1) /\ EndTurn(<<Msg(1, "aborted")>>) /\ phase = "request"
      BY <1>3 DEF RequestAborted
    <2>2. Msg(1, "aborted") \in Message
      BY <1>0, <2>1, MadeNext, MadeMessage DEF Authors
    <2>3. <<Msg(1, "aborted")>> \in Seq(Message)
      BY <2>2
    <2> QED BY <1>1, <2>1, <2>3
  <1>4. ASSUME StreamBreaks PROVE EndsUsable
    <2>1. phase = "stream" /\ context # <<>>
      BY <1>0, <1>4 DEF Control, StreamHasContext, StreamBreaks
    <2>2. EndTurn(<<Broken>>)
      BY <1>4, Zenon DEF StreamBreaks, Broken
    <2>3. <<Broken>> \in Seq(Message)
      BY <1>0, <2>1, BrokenParts
    <2> QED BY <1>1, <2>1, <2>2, <2>3
  <1>5. ASSUME NEW m \in BOOLEAN, StreamDone(m) PROVE EndsUsable
    <2>1. phase = "stream" /\ context # <<>>
      BY <1>0, <1>5 DEF Control, StreamHasContext, StreamDone
    <2>2. <<Last(context)>> \in Seq(Message)
      BY <1>0, <2>1, BrokenParts
    <2>3. EndTurn(<<Last(context)>>) \/ phase' = "poll"
      BY <1>5 DEF StreamDone
    <2> QED BY <1>1, <1>2, <2>1, <2>2, <2>3
  <1>e. <<>> \in Seq(Message)
    OBVIOUS
  <1>6. ASSUME NEW hook, FollowUpOrEnd(hook) PROVE EndsUsable
    <2>1. /\ phase = "stop"
          /\ EndTurn(<<>>) \/ phase' \in {"request", "turn_end"}
      BY <1>6 DEF FollowUpOrEnd, Resume
    <2> QED BY <1>1, <1>2, <1>e, <2>1
  <1>7. ASSUME HookLetsEnd PROVE EndsUsable
    <2>1. phase = "turn_end" /\ EndTurn(<<>>)
      BY <1>7 DEF HookLetsEnd
    <2> QED BY <1>1, <1>e, <2>1
  <1>8. ASSUME Summarised PROVE EndsUsable
    <2>1. /\ phase \in {"compact", "autocompact"} /\ compacting' = FALSE
          /\ streaming' = streaming
      BY <1>8 DEF Summarised
    <2> QED BY <1>0, <2>1 DEF EndsUsable, Control, CompactsAfter
  <1>9. ASSUME LoopFails PROVE EndsUsable
    BY <1>9 DEF LoopFails, EndsUsable
  <1>10. ASSUME Timeout PROVE EndsUsable
    BY <1>10 DEF EndsUsable
  <1>11. CASE Turn
    <2>1. Send \/ HookCancels \/ Compact => EndsUsable
      BY <1>2 DEF Send, HookCancels, Compact
    <2>2. \A c \in BOOLEAN : /\ BeginTurn(c) => EndsUsable
                             /\ \A i \in 1..2 : PromptNotSaved(c, i) => EndsUsable
      BY <1>2 DEF BeginTurn, Launch, PromptNotSaved
    <2>3. Poll \/ Request \/ HookContinues => EndsUsable
      BY <1>2 DEF Poll, Request, HookContinues, Resume
    <2>4. \A k \in {"custom", "custom_message"} : ExtensionWrites(k) => EndsUsable
      BY <1>2 DEF ExtensionWrites
    <2>5. PollFollowUp => EndsUsable
      BY <1>6, Zenon DEF PollFollowUp
    <2> QED BY <1>3, <1>4, <1>5, <1>7, <1>8, <1>9, <1>10, <1>11, <2>1, <2>2, <2>3,
               <2>4, <2>5, Zenon DEF Turn
  <1>12. CASE Manage
    <2>1. phase = "idle"
      BY <1>12 DEF Manage, SetInfo, ResetSession, CloneSession, Fork, BranchFails,
        SwitchSession, Adopt
    <2> QED BY <1>2, <2>1
  <1>13. CASE Handles
    BY <1>2, <1>13 DEF Handles, EnqueueSteer, EnqueueFollowUp, Abort
  <1>14. CASE UNCHANGED vars
    BY <1>2, <1>14 DEF vars
  <1> QED BY <1>11, <1>12, <1>13, <1>14 DEF Next

\* However a turn or a compaction ends, the session has its tools again and the
\* flag that was set is cleared; only a dropped send leaves the flags as they
\* are (send_message's guard and its error paths, run_compaction).
THEOREM StaysUsable == Spec => SessionStaysUsable
  <1>1. ControlInv => (phase \in {"idle", "hooks"} => tools)
    BY DEF ControlInv, Control, ToolsFollowRun, Running
  <1>2. ControlInv /\ [Next]_vars => [EndsUsable]_vars
    BY EndsUsableStep
  <1>3. [EndsUsable]_vars =>
          [phase # "idle" /\ phase' = "idle" =>
             \/ Timeout
             \/ /\ phase \notin {"hooks", "compact"} => ~streaming'
                /\ phase \in {"compact", "autocompact"} => ~compacting']_vars
    BY DEF EndsUsable
  <1> QED BY <1>1, <1>2, <1>3, ControlHolds, PTL DEF Spec, SessionStaysUsable

----------------------------------------------------------------------------
(* Which session a message was said in. *)

From(ms, s)   == \A i \in DOMAIN ms : ms[i].sid = s
Belong(es, L) == \A i \in DOMAIN es : es[i].kind = "message" => es[i].sid \in L

LEMMA FromConcat ==
  ASSUME NEW s, NEW ms \in Seq(Message), NEW ns \in Seq(Message),
         From(ms, s), From(ns, s)
  PROVE  From(ms \o ns, s)
  BY DEF From

LEMMA FromDrained ==
  ASSUME NEW s, NEW q \in Seq(Message), From(q, s)
  PROVE  From(Drained(q), s) /\ From(Rest(q), s)
  <1>1. CASE Mode = "All" \/ q = <<>>
    BY <1>1 DEF Drained, Rest, From
  <1>2. CASE ~(Mode = "All" \/ q = <<>>)
    <2>1. /\ Head(q) = q[1] /\ DOMAIN q = 1..Len(q) /\ Len(q) \in Nat \ {0}
          /\ Tail(q) \in Seq(Message) /\ Len(Tail(q)) = Len(q) - 1
          /\ \A k \in 1..(Len(q) - 1) : Tail(q)[k] = q[k + 1]
      BY <1>2, TailParts, Elements
    <2>2. From(Rest(q), s)
      BY <1>2, <2>1 DEF Rest, From
    <2>3. From(Drained(q), s)
      BY <1>2, <2>1 DEF Drained, From
    <2> QED BY <2>2, <2>3
  <1> QED BY <1>1, <1>2

LEMMA FromEntries ==
  ASSUME NEW s, NEW L, s \in L, NEW ms \in Seq(Message), From(ms, s)
  PROVE  Belong(AsEntries("message", ms), L)
  <1>1. /\ DOMAIN ms = 1..Len(ms) /\ \A i \in 1..Len(ms) : ms[i] \in Message
        /\ DOMAIN AsEntries("message", ms) = DOMAIN ms
        /\ \A i \in 1..Len(ms) : AsEntries("message", ms)[i] = EntryOf("message", ms[i])
    BY EntriesOfMessages, Elements DEF AsEntries
  <1>2. \A i \in 1..Len(ms) : AsEntries("message", ms)[i].sid = ms[i].sid
    BY <1>1, EntryOfMessage DEF Kinds
  <1> QED BY <1>1, <1>2 DEF Belong, From

LEMMA BelongConcat ==
  ASSUME NEW L, NEW es \in Seq(Entry), NEW fs \in Seq(Entry),
         Belong(es, L), Belong(fs, L)
  PROVE  Belong(es \o fs, L)
  BY DEF Belong

LEMMA BelongKept ==
  ASSUME NEW L, NEW T, NEW es \in Seq(Entry), Belong(es, L)
  PROVE  Belong(Keep(es, T), L)
  <1>1. \A e \in ToSet(Keep(es, T)) : \E i \in DOMAIN es : e = es[i]
    <2>1. ToSet(Keep(es, T)) \subseteq ToSet(es)
      BY KeepElements
    <2> QED BY <2>1 DEF ToSet
  <1>2. \A i \in DOMAIN Keep(es, T) : Keep(es, T)[i] \in ToSet(Keep(es, T))
    BY DEF ToSet
  <1> QED BY <1>1, <1>2 DEF Belong

LEMMA BelongFront ==
  ASSUME NEW L, NEW es \in Seq(Entry), Belong(es, L), NEW n \in 0..Len(es)
  PROVE  SubSeq(es, 1, n) \in Seq(Entry) /\ Belong(SubSeq(es, 1, n), L)
  <1>1. /\ SubSeq(es, 1, n) \in Seq(Entry) /\ DOMAIN SubSeq(es, 1, n) = 1..n
        /\ \A i \in 1..n : SubSeq(es, 1, n)[i] = es[i]
    BY SubSeqProperties
  <1>2. 1..n \subseteq DOMAIN es
    BY DEF Belong
  <1> QED BY <1>1, <1>2 DEF Belong

\* A session is branched from itself, every journal and the entries in memory
\* hold only what was said in sessions that theirs was branched from, the run
\* and the queues only what was said in this one, and what extensions write is
\* no message.
OwnLineage   == \A s \in DOMAIN store : s \in lineage[s]
MemoryOwn    == Belong(entries, lineage[sid])
JournalsOwn  == \A s \in DOMAIN store : Belong(store[s], lineage[s])
RunIsHere    == /\ From(produced, sid) /\ From(steering, sid) /\ From(followUp, sid)
                /\ phase = "stream" => Last(context).sid = sid
SinkIsCustom == \A i \in DOMAIN sink : sink[i].kind # "message"

OwnInv == OwnLineage /\ MemoryOwn /\ JournalsOwn /\ RunIsHere /\ SinkIsCustom

\* A journal step with entries of this session keeps the journals apart.
LEMMA OwnJournal ==
  ASSUME ControlInv, OwnInv, NEW es \in Seq(Entry), Belong(es, lineage[sid]),
         NEW saved, Journal(es, saved)
  PROVE  sid' = sid /\ OwnLineage' /\ MemoryOwn' /\ JournalsOwn'
  <1>0. Types /\ TypeOK
    BY TypesAreOK DEF ControlInv
  <1> DEFINE k == SavedOf(es, saved)
  <1>1. k \in Seq(Entry) /\ store' = [store EXCEPT ![sid] = store[sid] \o k]
    BY <1>0, JournalTypes, Zenon
  <1>2. Belong(k, lineage[sid])
    BY BelongKept, Zenon DEF SavedOf
  <1> HIDE DEF k
  <1>3. entries' = entries \o es /\ sid' = sid /\ lineage' = lineage
    BY DEF Journal
  <1>4. /\ entries \in Seq(Entry) /\ store \in Seq(Seq(Entry)) /\ sid \in DOMAIN store
        /\ store[sid] \in Seq(Entry)
    BY <1>0 DEF Types
  <1>5. MemoryOwn'
    BY <1>3, <1>4, BelongConcat DEF OwnInv, MemoryOwn
  <1>6. OwnLineage' /\ DOMAIN store' = DOMAIN store
    BY <1>1, <1>3, <1>4 DEF OwnInv, OwnLineage
  <1>7. JournalsOwn'
    <2>1. Belong(store[sid] \o k, lineage[sid])
      BY <1>1, <1>2, <1>4, BelongConcat DEF OwnInv, JournalsOwn
    <2>2. \A s \in DOMAIN store :
            store'[s] = IF s = sid THEN store[sid] \o k ELSE store[s]
      BY <1>1, <1>4
    <2> QED BY <1>3, <1>6, <2>1, <2>2 DEF OwnInv, JournalsOwn
  <1> QED BY <1>3, <1>5, <1>6, <1>7

LEMMA OwnSame ==
  ASSUME OwnInv, UNCHANGED conversation
  PROVE  sid' = sid /\ OwnLineage' /\ MemoryOwn' /\ JournalsOwn'
  BY DEF OwnInv, OwnLineage, MemoryOwn, JournalsOwn, conversation

\* The end of a turn: what the loop added was said here.
LEMMA OwnTurnEnds ==
  ASSUME ControlInv, OwnInv, NEW new \in Seq(Message), EndTurn(new), From(new, sid),
         UNCHANGED queues
  PROVE  OwnInv'
  <1>0. Types /\ TypeOK
    BY TypesAreOK DEF ControlInv
  <1>1. /\ AfterPrompts(produced) \o new \in Seq(Message)
        /\ JournalTurn(AfterPrompts(produced) \o new)
        /\ AfterPrompts(produced) \in Seq(Message)
    BY <1>0, RunEnds, AfterPromptsParts
  <1>2. From(AfterPrompts(produced), sid)
    <2>1. /\ Len(AfterPrompts(produced)) = Len(produced) - promptsLen
          /\ \A i \in 1..(Len(produced) - promptsLen) :
               AfterPrompts(produced)[i] = produced[promptsLen + i]
          /\ DOMAIN AfterPrompts(produced) = 1..Len(AfterPrompts(produced))
      BY <1>0, <1>1, AfterPromptsParts, Elements
    <2>2. /\ produced \in Seq(Message) /\ promptsLen \in Nat
          /\ promptsLen <= Len(produced) /\ Len(produced) \in Nat
          /\ DOMAIN produced = 1..Len(produced)
      BY <1>0 DEF Types
    <2>3. \A i \in 1..(Len(produced) - promptsLen) : promptsLen + i \in DOMAIN produced
      BY <2>2
    <2> QED BY <2>1, <2>3 DEF OwnInv, RunIsHere, From
  <1>3. From(AfterPrompts(produced) \o new, sid)
    BY <1>1, <1>2, FromConcat
  <1>4. sid \in lineage[sid]
    BY <1>0 DEF OwnInv, OwnLineage, Types
  <1> DEFINE added == AsEntries("message", AfterPrompts(produced) \o new)
  <1>5. added \in Seq(Entry) /\ Belong(added, lineage[sid])
    BY <1>1, <1>3, <1>4, FromEntries, EntriesOfMessages DEF Kinds
  <1>6. Writes \in Seq(Entry) /\ Belong(Writes, lineage[sid])
    <2>1. /\ Writes \in Seq(Entry) /\ Len(Writes) = Len(sink)
          /\ \A i \in 1..Len(sink) : Writes[i] = EntryOf(sink[i].kind, sink[i].msg)
          /\ DOMAIN Writes = 1..Len(sink) /\ DOMAIN sink = 1..Len(sink)
      BY <1>0, WritesType DEF Types, Writes
    <2>2. \A i \in 1..Len(sink) : sink[i].kind # "message"
      BY <2>1 DEF OwnInv, SinkIsCustom
    <2> QED BY <2>1, <2>2 DEF EntryOf, Belong
  <1>7. PICK saved : Journal(added \o Writes, saved)
    BY <1>0, <1>1, TurnEnds
  <1>8. sid' = sid /\ OwnLineage' /\ MemoryOwn' /\ JournalsOwn'
    <2> HIDE DEF added
    <2>1. added \o Writes \in Seq(Entry) /\ Belong(added \o Writes, lineage[sid])
      BY <1>5, <1>6, BelongConcat
    <2> QED BY <1>7, <2>1, OwnJournal
  <1>9. /\ produced' = <<>> /\ sink' = <<>> /\ phase' # "stream"
        /\ steering' = steering /\ followUp' = followUp
    <2>1. produced' = <<>> /\ sink' = <<>> /\ phase' \in {"idle", "autocompact"}
      BY <1>0, <1>1, TurnEnds
    <2> QED BY <2>1 DEF queues
  <1>10. RunIsHere' /\ SinkIsCustom'
    BY <1>8, <1>9 DEF OwnInv, RunIsHere, SinkIsCustom, From
  <1> QED BY <1>8, <1>10, Zenon DEF OwnInv

\* What a queue is when a user's message of this session is appended to it.
LEMMA FromAppended ==
  ASSUME NEW s, NEW q \in Seq(Message), NEW m \in Message, From(q, s), m.sid = s
  PROVE  From(Append(q, m), s)
  BY DEF From

LEMMA OwnInit == Init => OwnInv
  BY DEF Init, OwnInv, OwnLineage, MemoryOwn, JournalsOwn, RunIsHere, SinkIsCustom,
         From, Belong

\* The steps that journal nothing.
LEMMA OwnQuiet ==
  ASSUME ControlInv, OwnInv,
         \/ Send \/ HookCancels \/ LoopFails \/ Timeout \/ Compact \/ Abort
         \/ Poll \/ Request \/ HookContinues \/ EnqueueSteer \/ EnqueueFollowUp
         \/ \E k \in {"custom", "custom_message"} : ExtensionWrites(k)
  PROVE  OwnInv'
  <1>0. Types /\ TypeOK
    BY TypesAreOK DEF ControlInv
  <1>p. /\ produced \in Seq(Message) /\ steering \in Seq(Message)
        /\ followUp \in Seq(Message) /\ context \in Seq(Message)
        /\ From(produced, sid) /\ From(steering, sid) /\ From(followUp, sid)
    BY <1>0 DEF Types, OwnInv, RunIsHere
  <1>m. \A by \in Authors : Make(1) => Msg(1, by) \in Message /\ Msg(1, by).sid = sid
    BY <1>0, MadeNext, MadeMessage
  <1>c. UNCHANGED conversation
    BY Zenon DEF Send, HookCancels, LoopFails, Timeout, Compact, Abort, Poll, Request,
      HookContinues, EnqueueSteer, EnqueueFollowUp, ExtensionWrites
  <1>s. sid' = sid /\ OwnLineage' /\ MemoryOwn' /\ JournalsOwn'
    BY <1>c, OwnSame
  <1> USE DEF run, queues
  <1>1. ASSUME Send \/ HookCancels \/ Compact \/ Abort PROVE RunIsHere' /\ SinkIsCustom'
    BY <1>1, <1>s DEF Send, HookCancels, Compact, Abort, OwnInv, RunIsHere, SinkIsCustom
  <1>2. ASSUME LoopFails \/ Timeout PROVE RunIsHere' /\ SinkIsCustom'
    BY <1>2, <1>s DEF LoopFails, Timeout, EndRun, OwnInv, RunIsHere, SinkIsCustom, From
  <1>3. ASSUME Poll PROVE RunIsHere' /\ SinkIsCustom'
    <2> DEFINE got == IF cancelled THEN <<>> ELSE Drained(steering)
    <2>1. /\ got \in Seq(Message) /\ From(got, sid) /\ From(steering', sid)
      <3>1. <<>> \in Seq(Message) /\ From(<<>>, sid)
        BY DEF From
      <3> QED BY <1>3, <1>p, <3>1, DrainedParts, FromDrained DEF Poll
    <2>2. /\ produced' = produced \o got /\ phase' # "stream"
          /\ followUp' = followUp /\ sink' = sink
      BY <1>3 DEF Poll
    <2> HIDE DEF got
    <2>3. From(produced', sid)
      BY <1>p, <2>1, <2>2, FromConcat
    <2> QED BY <1>p, <1>s, <2>1, <2>2, <2>3 DEF OwnInv, RunIsHere, SinkIsCustom
  <1>4. ASSUME Request PROVE RunIsHere' /\ SinkIsCustom'
    <2>1. /\ context' = Append(context, Msg(1, "assistant")) /\ Make(1)
          /\ UNCHANGED <<run, queues, sink>>
      BY <1>4 DEF Request
    <2>2. Msg(1, "assistant") \in Message /\ Msg(1, "assistant").sid = sid
      BY <1>m, <2>1 DEF Authors
    <2>3. Last(context') = Msg(1, "assistant")
      BY <1>p, <2>1, <2>2 DEF Last
    <2> QED BY <1>s, <2>1, <2>2, <2>3 DEF OwnInv, RunIsHere, SinkIsCustom
  <1>5. ASSUME HookContinues PROVE RunIsHere' /\ SinkIsCustom'
    <2>1. /\ produced' = produced \o <<Msg(1, "hook")>> /\ Make(1)
          /\ phase' = "request" /\ UNCHANGED <<queues, sink>>
      BY <1>5 DEF HookContinues, Resume
    <2>2. Msg(1, "hook") \in Message /\ Msg(1, "hook").sid = sid
      BY <1>m, <2>1 DEF Authors
    <2>3. <<Msg(1, "hook")>> \in Seq(Message) /\ From(<<Msg(1, "hook")>>, sid)
      BY <2>2 DEF From
    <2>4. From(produced', sid)
      BY <1>p, <2>1, <2>3, FromConcat
    <2> QED BY <1>s, <2>1, <2>4 DEF OwnInv, RunIsHere, SinkIsCustom
  <1>6. ASSUME EnqueueSteer \/ EnqueueFollowUp PROVE RunIsHere' /\ SinkIsCustom'
    <2>1. Msg(1, "user") \in Message /\ Msg(1, "user").sid = sid
      BY <1>6, <1>m DEF EnqueueSteer, EnqueueFollowUp, Authors
    <2>2. From(steering', sid) /\ From(followUp', sid)
      BY <1>6, <1>p, <2>1, FromAppended DEF EnqueueSteer, EnqueueFollowUp
    <2>3. UNCHANGED <<phase, context, produced, sink>>
      BY <1>6 DEF EnqueueSteer, EnqueueFollowUp
    <2> QED BY <1>s, <2>2, <2>3 DEF OwnInv, RunIsHere, SinkIsCustom
  <1>7. ASSUME NEW k \in {"custom", "custom_message"}, ExtensionWrites(k)
        PROVE  RunIsHere' /\ SinkIsCustom'
    <2>1. /\ sink' = Append(sink, [kind |-> k, msg |-> Msg(1, "custom")]) /\ Make(1)
          /\ UNCHANGED <<phase, context, run, queues>>
      BY <1>7 DEF ExtensionWrites
    <2>2. sink \in Seq(SinkItem)
      BY <1>0 DEF Types
    <2>3. Msg(1, "custom") \in Message
      BY <1>m, <2>1 DEF Authors
    <2>4. [kind |-> k, msg |-> Msg(1, "custom")] \in SinkItem
      BY <2>3 DEF SinkItem, Kinds
    <2>5. SinkIsCustom'
      BY <2>1, <2>2, <2>4 DEF OwnInv, SinkIsCustom
    <2> QED BY <1>s, <2>1, <2>5 DEF OwnInv, RunIsHere
  <1> QED BY <1>1, <1>2, <1>3, <1>4, <1>5, <1>6, <1>7, <1>s, Zenon DEF OwnInv

\* The steps that journal something while no run ends.
LEMMA OwnJournals ==
  ASSUME ControlInv, OwnInv,
         \/ SetInfo \/ Summarised
         \/ \E c \in BOOLEAN : BeginTurn(c) \/ (\E i \in 1..2 : PromptNotSaved(c, i))
  PROVE  OwnInv'
  <1>0. Types /\ TypeOK
    BY TypesAreOK DEF ControlInv
  <1>l. sid \in lineage[sid]
    <2>1. sid \in DOMAIN store
      BY <1>0 DEF Types
    <2> QED BY <2>1 DEF OwnInv, OwnLineage
  <1>q. From(steering, sid) /\ From(followUp, sid) /\ From(produced, sid)
    BY DEF OwnInv, RunIsHere
  <1>1. ASSUME NEW kind \in {"info", "compaction"}, NEW saved, Make(1),
               Journal(<<EntryOf(kind, Msg(1, "custom"))>>, saved)
        PROVE  sid' = sid /\ OwnLineage' /\ MemoryOwn' /\ JournalsOwn'
    <2>1. <<EntryOf(kind, Msg(1, "custom"))>> \in Seq(Entry)
      BY <1>0, <1>1, OneEntry DEF Kinds
    <2>2. Belong(<<EntryOf(kind, Msg(1, "custom"))>>, lineage[sid])
      BY <1>1 DEF Belong, EntryOf
    <2> QED BY <1>1, <2>1, <2>2, OwnJournal
  <1>2. ASSUME SetInfo PROVE OwnInv'
    <2>1. /\ Make(1) /\ UNCHANGED <<phase, context, run, queues, sink>>
          /\ \E saved : Journal(<<EntryOf("info", Msg(1, "custom"))>>, saved)
      BY <1>2, Zenon DEF SetInfo
    <2>2. sid' = sid /\ OwnLineage' /\ MemoryOwn' /\ JournalsOwn'
      BY <1>1, <2>1
    <2> QED BY <2>1, <2>2 DEF OwnInv, RunIsHere, SinkIsCustom, run, queues
  <1>3. ASSUME Summarised PROVE OwnInv'
    <2>1. /\ Make(1) /\ UNCHANGED <<context, run, queues, sink>> /\ phase' = "idle"
          /\ \E saved : Journal(<<EntryOf("compaction", Msg(1, "custom"))>>, saved)
      BY <1>3, Zenon DEF Summarised
    <2>2. sid' = sid /\ OwnLineage' /\ MemoryOwn' /\ JournalsOwn'
      BY <1>1, <2>1
    <2> QED BY <2>1, <2>2 DEF OwnInv, RunIsHere, SinkIsCustom, run, queues
  <1>4. ASSUME NEW c \in BOOLEAN, NEW i \in 1..Len(Prompts(c)), Make(i), NEW saved,
               Journal(AsEntries("message", SubSeq(Prompts(c), 1, i)), saved)
        PROVE  sid' = sid /\ OwnLineage' /\ MemoryOwn' /\ JournalsOwn'
    <2> DEFINE q == SubSeq(Prompts(c), 1, i)
    <2>1. Room(i)
      <3>1. i \in Nat
        BY DEF Prompts
      <3> QED BY <1>0, <1>4, <3>1, MadeNext
    <2>2. /\ q \in Seq(Message) /\ Len(q) = i
          /\ \A j \in 1..i : \E by \in {"context", "user"} : q[j] = Msg(j, by)
      BY <1>0, <2>1, PromptsParts
    <2> HIDE DEF q
    <2>3. From(q, sid)
      BY <2>2 DEF From, Msg
    <2>4. AsEntries("message", q) \in Seq(Entry)
      BY <2>2, EntriesOfMessages DEF Kinds
    <2>5. Belong(AsEntries("message", q), lineage[sid])
      BY <1>l, <2>2, <2>3, FromEntries
    <2>6. Journal(AsEntries("message", q), saved)
      BY <1>4 DEF q
    <2> QED BY <2>4, <2>5, <2>6, OwnJournal
  <1>5. ASSUME NEW c \in BOOLEAN, NEW i \in 1..2, PromptNotSaved(c, i) PROVE OwnInv'
    <2>1. /\ Make(i) /\ UNCHANGED <<context, run, queues, sink>> /\ phase' = "idle"
          /\ i \in 1..Len(Prompts(c))
      BY <1>5 DEF PromptNotSaved, Prompts
    <2>2. \E saved : Journal(AsEntries("message", SubSeq(Prompts(c), 1, i)), saved)
      BY <1>5, Zenon DEF PromptNotSaved
    <2>3. sid' = sid /\ OwnLineage' /\ MemoryOwn' /\ JournalsOwn'
      BY <1>4, <2>1, <2>2
    <2> QED BY <2>1, <2>3 DEF OwnInv, RunIsHere, SinkIsCustom, run, queues
  <1>6. ASSUME NEW c \in BOOLEAN, BeginTurn(c) PROVE OwnInv'
    <2> DEFINE p == Prompts(c)
    <2>1. /\ Launch(p) /\ Make(Len(p)) /\ produced' = p /\ phase' = "poll"
          /\ UNCHANGED <<queues, sink>>
      BY <1>6 DEF BeginTurn, Launch
    <2>2. Len(p) \in 1..2 /\ Len(p) \in Nat /\ Len(p) \in 1..Len(p)
      BY DEF Prompts
    <2>3. /\ p \in Seq(Message)
          /\ \A j \in 1..Len(p) : \E by \in {"context", "user"} : p[j] = Msg(j, by)
      BY <1>0, <2>1, <2>2, MadeNext, AllPrompts
    <2>4. \E saved : Journal(AsEntries("message", p), saved)
      BY <2>1, Zenon DEF Launch
    <2>5. SubSeq(p, 1, Len(p)) = p
      BY <2>3
    <2>6. \E saved : Journal(AsEntries("message", SubSeq(p, 1, Len(p))), saved)
      BY <2>4, <2>5, Zenon
    <2>7. sid' = sid /\ OwnLineage' /\ MemoryOwn' /\ JournalsOwn'
      BY <1>4, <2>1, <2>2, <2>6
    <2> HIDE DEF p
    <2>8. From(produced', sid)
      <3>1. DOMAIN p = 1..Len(p)
        BY <2>3
      <3>2. \A j \in 1..Len(p) : p[j].sid = sid
        <4>1. \A j, by : Msg(j, by).sid = sid
          BY DEF Msg
        <4> QED BY <2>3, <4>1, Zenon
      <3> QED BY <2>1, <2>7, <3>1, <3>2 DEF From
    <2> QED BY <1>q, <2>1, <2>7, <2>8 DEF OwnInv, RunIsHere, SinkIsCustom, queues
  <1> QED BY <1>2, <1>3, <1>5, <1>6

\* The steps that may end a run.
LEMMA OwnEnds ==
  ASSUME ControlInv, OwnInv,
         \/ RequestAborted \/ StreamBreaks \/ PollFollowUp \/ HookLetsEnd
         \/ \E m \in BOOLEAN : StreamDone(m)
  PROVE  OwnInv'
  <1>0. Types /\ Control /\ TypeOK
    BY TypesAreOK DEF ControlInv
  <1>q. /\ From(steering, sid) /\ From(followUp, sid) /\ From(produced, sid)
        /\ produced \in Seq(Message) /\ followUp \in Seq(Message)
    BY <1>0 DEF OwnInv, RunIsHere, Types
  <1>e. <<>> \in Seq(Message) /\ From(<<>>, sid)
    BY DEF From
  <1>1. ASSUME RequestAborted PROVE OwnInv'
    <2>1. Make(1) /\ EndTurn(<<Msg(1, "aborted")>>) /\ UNCHANGED queues
      BY <1>1 DEF RequestAborted
    <2>2. Msg(1, "aborted") \in Message /\ Msg(1, "aborted").sid = sid
      BY <1>0, <2>1, MadeNext, MadeMessage DEF Authors
    <2>3. <<Msg(1, "aborted")>> \in Seq(Message) /\ From(<<Msg(1, "aborted")>>, sid)
      BY <2>2 DEF From
    <2> QED BY <2>1, <2>3, OwnTurnEnds
  <1>2. ASSUME phase = "stream"
        PROVE  /\ <<Broken>> \in Seq(Message) /\ <<Last(context)>> \in Seq(Message)
               /\ From(<<Broken>>, sid) /\ From(<<Last(context)>>, sid)
               /\ Last(context) \in Message /\ Last(context).sid = sid
    <2>1. context # <<>> /\ Last(context).sid = sid
      BY <1>0, <1>2 DEF Control, StreamHasContext, OwnInv, RunIsHere
    <2>2. /\ <<Broken>> \in Seq(Message) /\ <<Last(context)>> \in Seq(Message)
          /\ Broken.sid = Last(context).sid /\ Last(context) \in Message
      BY <1>0, <2>1, BrokenParts
    <2> QED BY <2>1, <2>2 DEF From
  <1>3. ASSUME StreamBreaks PROVE OwnInv'
    <2>1. EndTurn(<<Broken>>) /\ UNCHANGED queues /\ phase = "stream"
      BY <1>3, Zenon DEF StreamBreaks, Broken
    <2> QED BY <1>2, <2>1, OwnTurnEnds
  <1>4. ASSUME NEW m \in BOOLEAN, StreamDone(m) PROVE OwnInv'
    <2>1. /\ phase = "stream" /\ UNCHANGED queues
          /\ \/ EndTurn(<<Last(context)>>)
             \/ /\ phase' = "poll" /\ produced' = Append(produced, Last(context))
                /\ UNCHANGED <<conversation, sink>>
      BY <1>4 DEF StreamDone
    <2>2. CASE EndTurn(<<Last(context)>>)
      BY <1>2, <2>1, <2>2, OwnTurnEnds
    <2>3. CASE /\ phase' = "poll" /\ produced' = Append(produced, Last(context))
               /\ UNCHANGED <<conversation, sink>>
      <3>1. From(produced', sid)
        BY <1>2, <1>q, <2>1, <2>3, FromAppended
      <3>2. sid' = sid /\ OwnLineage' /\ MemoryOwn' /\ JournalsOwn'
        BY <2>3, OwnSame
      <3> QED BY <2>1, <2>3, <3>1, <3>2 DEF OwnInv, RunIsHere, SinkIsCustom, queues
    <2> QED BY <2>1, <2>2, <2>3
  <1>5. ASSUME PollFollowUp PROVE OwnInv'
    <2>0. PICK hook : FollowUpOrEnd(hook)
      BY <1>5, Zenon DEF PollFollowUp
    <2>1. /\ steering' = steering
          /\ \/ /\ followUp # <<>> /\ Resume(Drained(followUp))
                /\ followUp' = Rest(followUp) /\ UNCHANGED <<conversation, sink>>
             \/ /\ phase' = "turn_end"
                /\ UNCHANGED <<context, conversation, run, followUp, sink>>
             \/ EndTurn(<<>>) /\ followUp' = followUp
      BY <2>0 DEF FollowUpOrEnd
    <2>2. CASE /\ followUp # <<>> /\ Resume(Drained(followUp))
               /\ followUp' = Rest(followUp) /\ UNCHANGED <<conversation, sink>>
      <3>1. Drained(followUp) \in Seq(Message) /\ From(Drained(followUp), sid)
            /\ From(followUp', sid)
        BY <1>q, <2>2, DrainedParts, FromDrained
      <3>2. phase' = "request" /\ produced' = produced \o Drained(followUp)
        BY <2>2 DEF Resume
      <3>3. From(produced', sid)
        BY <1>q, <3>1, <3>2, FromConcat
      <3>4. sid' = sid /\ OwnLineage' /\ MemoryOwn' /\ JournalsOwn'
        BY <2>2, OwnSame
      <3> QED BY <2>1, <2>2, <3>1, <3>2, <3>3, <3>4
          DEF OwnInv, RunIsHere, SinkIsCustom
    <2>3. CASE /\ phase' = "turn_end"
               /\ UNCHANGED <<context, conversation, run, followUp, sink>>
      <3>1. sid' = sid /\ OwnLineage' /\ MemoryOwn' /\ JournalsOwn'
        BY <2>3, OwnSame
      <3> QED BY <2>1, <2>3, <3>1 DEF OwnInv, RunIsHere, SinkIsCustom, run
    <2>4. CASE EndTurn(<<>>) /\ followUp' = followUp
      <3>1. UNCHANGED queues
        BY <2>1, <2>4 DEF queues
      <3> QED BY <1>e, <2>4, <3>1, OwnTurnEnds
    <2> QED BY <2>1, <2>2, <2>3, <2>4
  <1>6. ASSUME HookLetsEnd PROVE OwnInv'
    <2>1. EndTurn(<<>>) /\ UNCHANGED queues
      BY <1>6 DEF HookLetsEnd
    <2> QED BY <1>e, <2>1, OwnTurnEnds
  <1> QED BY <1>1, <1>3, <1>4, <1>5, <1>6

\* A session adopted holds nothing that was said elsewhere.
LEMMA OwnAdopts ==
  ASSUME ControlInv, OwnInv, NEW es \in Seq(Entry), Adopt(es),
         OwnLineage', JournalsOwn', Belong(es, lineage'[sid'])
  PROVE  OwnInv'
  <1>1. /\ phase' = "idle" /\ entries' = es /\ steering' = <<>> /\ followUp' = <<>>
        /\ phase = "idle" /\ UNCHANGED <<run, sink>>
    BY DEF Adopt
  <1>2. produced' = <<>>
    BY <1>1 DEF ControlInv, Control, RunsWhileRunning, Running, run
  <1>3. MemoryOwn'
    BY <1>1 DEF MemoryOwn
  <1>4. RunIsHere' /\ SinkIsCustom'
    BY <1>1, <1>2 DEF RunIsHere, SinkIsCustom, From, OwnInv
  <1> QED BY <1>3, <1>4, Zenon DEF OwnInv

\* A new journal beside the others.
LEMMA OwnStores ==
  ASSUME TypeOK, OwnInv, NEW es \in Seq(Entry), NEW anc \in SUBSET (1..MaxSessions),
         Belong(es, anc), store' = Append(store, es),
         lineage' = Append(lineage, anc \union {Len(store')})
  PROVE  /\ OwnLineage' /\ JournalsOwn'
         /\ lineage'[Len(store')] = anc \union {Len(store')}
         /\ \A s \in DOMAIN store : lineage'[s] = lineage[s]
  <1>1. /\ store \in Seq(Seq(Entry)) /\ Len(lineage) = Len(store)
        /\ lineage \in Seq(SUBSET (1..MaxSessions))
    BY DEF TypeOK
  <1> DEFINE z == Len(store)  n == Len(store')
  <1>2. /\ z \in Nat /\ n = z + 1 /\ DOMAIN store = 1..z /\ DOMAIN store' = 1..(z + 1)
        /\ \A s \in 1..z : store'[s] = store[s]
        /\ store'[z + 1] = es
    BY <1>1
  <1>3. /\ \A s \in 1..z : lineage'[s] = lineage[s]
        /\ lineage'[z + 1] = anc \union {z + 1}
    BY <1>1, <1>2
  <1> HIDE DEF z, n
  <1>4. \A s \in 1..(z + 1) : s \in 1..z \/ s = z + 1
    BY <1>2
  <1>5. OwnLineage'
    BY <1>2, <1>3, <1>4 DEF OwnInv, OwnLineage
  <1>6. Belong(es, anc \union {z + 1})
    BY DEF Belong
  <1>7. \A s \in 1..z : Belong(store[s], lineage[s])
    BY <1>2 DEF OwnInv, JournalsOwn
  <1>8. JournalsOwn'
    BY <1>2, <1>3, <1>4, <1>6, <1>7 DEF JournalsOwn
  <1> QED BY <1>2, <1>3, <1>5, <1>8 DEF n

LEMMA OwnManages ==
  ASSUME ControlInv, OwnInv,
         \/ ResetSession \/ CloneSession
         \/ \E i \in DOMAIN entries : Fork(i)
         \/ \E n \in 0..(Len(entries) - 1) : BranchFails(entries, n)
         \/ \E s \in DOMAIN store : SwitchSession(s)
  PROVE  OwnInv'
  <1>0. Types /\ TypeOK
    BY TypesAreOK DEF ControlInv
  <1>1. /\ entries \in Seq(Entry) /\ Len(entries) \in Nat
        /\ DOMAIN entries = 1..Len(entries)
        /\ store \in Seq(Seq(Entry)) /\ DOMAIN store = 1..Len(store)
        /\ Len(store) \in 1..MaxSessions /\ sid \in 1..Len(store)
        /\ lineage \in Seq(SUBSET (1..MaxSessions)) /\ Len(lineage) = Len(store)
    BY <1>0 DEF Types
  <1>2. lineage[sid] \in SUBSET (1..MaxSessions) /\ {} \in SUBSET (1..MaxSessions)
    BY <1>1
  <1>3. <<>> \in Seq(Entry) /\ Belong(<<>>, {})
    BY DEF Belong
  <1>4. Belong(entries, lineage[sid])
    BY DEF OwnInv, MemoryOwn
  <1>5. ASSUME NEW es \in Seq(Entry), NEW anc \in SUBSET (1..MaxSessions),
               NewSession(es, anc), Adopt(es), Belong(es, anc)
        PROVE  OwnInv'
    <2>1. /\ store' = Append(store, es) /\ sid' = Len(store')
          /\ lineage' = Append(lineage, anc \union {Len(store')})
      BY <1>5 DEF NewSession
    <2>2. OwnLineage' /\ JournalsOwn' /\ lineage'[sid'] = anc \union {Len(store')}
      BY <1>0, <1>5, <2>1, OwnStores
    <2>3. Belong(es, lineage'[sid'])
      BY <1>5, <2>2 DEF Belong
    <2> QED BY <1>5, <2>2, <2>3, OwnAdopts
  <1>6. ASSUME ResetSession PROVE OwnInv'
    BY <1>2, <1>3, <1>5, <1>6 DEF ResetSession
  <1>7. ASSUME CloneSession PROVE OwnInv'
    BY <1>1, <1>2, <1>4, <1>5, <1>7 DEF CloneSession
  <1>8. ASSUME NEW i \in DOMAIN entries, Fork(i) PROVE OwnInv'
    <2>1. i - 1 \in 0..Len(entries)
      BY <1>1
    <2>2. /\ SubSeq(entries, 1, i - 1) \in Seq(Entry)
          /\ Belong(SubSeq(entries, 1, i - 1), lineage[sid])
      BY <1>1, <1>4, <2>1, BelongFront
    <2> QED BY <1>2, <1>5, <1>8, <2>2 DEF Fork
  <1>9. ASSUME NEW n \in 0..(Len(entries) - 1), BranchFails(entries, n)
        PROVE  OwnInv'
    <2>1. /\ store' = Append(store, SubSeq(entries, 1, n))
          /\ lineage' = Append(lineage, lineage[sid] \union {Len(store')})
          /\ UNCHANGED <<phase, context, entries, sid, run, queues, sink>>
      BY <1>9 DEF BranchFails
    <2>2. n \in 0..Len(entries)
      BY <1>1
    <2>3. /\ SubSeq(entries, 1, n) \in Seq(Entry)
          /\ Belong(SubSeq(entries, 1, n), lineage[sid])
      BY <1>1, <1>4, <2>2, BelongFront
    <2>4. /\ OwnLineage' /\ JournalsOwn'
          /\ \A s \in DOMAIN store : lineage'[s] = lineage[s]
      BY <1>0, <1>2, <2>1, <2>3, OwnStores
    <2>5. MemoryOwn'
      BY <1>1, <1>4, <2>1, <2>4 DEF MemoryOwn
    <2>6. RunIsHere' /\ SinkIsCustom'
      BY <2>1 DEF OwnInv, RunIsHere, SinkIsCustom, run, queues
    <2> QED BY <2>4, <2>5, <2>6, Zenon DEF OwnInv
  <1>10. ASSUME NEW s \in DOMAIN store, SwitchSession(s) PROVE OwnInv'
    <2>1. Adopt(store[s]) /\ sid' = s /\ store' = store /\ lineage' = lineage
      BY <1>10 DEF SwitchSession
    <2>2. store[s] \in Seq(Entry)
      BY <1>1
    <2>3. OwnLineage' /\ JournalsOwn' /\ Belong(store[s], lineage'[sid'])
      BY <2>1 DEF OwnInv, OwnLineage, JournalsOwn
    <2> QED BY <2>1, <2>2, <2>3, OwnAdopts
  <1> QED BY <1>6, <1>7, <1>8, <1>9, <1>10

LEMMA OwnStep == ControlInv /\ OwnInv /\ [Next]_vars => OwnInv'
  <1> SUFFICES ASSUME ControlInv, OwnInv, [Next]_vars PROVE OwnInv'
    OBVIOUS
  <1>1. CASE Turn
    BY <1>1, OwnQuiet, OwnJournals, OwnEnds, Zenon DEF Turn
  <1>2. CASE Manage
    BY <1>2, OwnJournals, OwnManages, Zenon DEF Manage
  <1>3. CASE Handles
    BY <1>3, OwnQuiet, Zenon DEF Handles
  <1>4. CASE UNCHANGED vars
    BY <1>4 DEF OwnInv, OwnLineage, MemoryOwn, JournalsOwn, RunIsHere, SinkIsCustom,
                vars, conversation, run, queues
  <1> QED BY <1>1, <1>2, <1>3, <1>4 DEF Next

LEMMA OwnHolds == Spec => []OwnInv
  <1> QED BY OwnInit, ControlHolds, OwnStep, PTL DEF Spec

\* A message said in one session is journalled in no other, unless that one was
\* branched from it (what Adopt drops when fork, clone, switch and reset replace
\* the session manager).
THEOREM MessagesStayHome == Spec => []TranscriptsDontMix
  <1>1. OwnInv => TranscriptsDontMix
    BY DEF OwnInv, JournalsOwn, Belong, TranscriptsDontMix, ToSet
  <1> QED BY <1>1, OwnHolds, PTL

----------------------------------------------------------------------------
(* What is journalled once: the numbers of messages, where they wait. *)

Numbers(ms) == [i \in DOMAIN ms |-> ms[i].n]
IdSeq(es)   == [i \in DOMAIN es |-> es[i].id]

LEMMA NumbersParts ==
  ASSUME NEW ms \in Seq(Message)
  PROVE  /\ Numbers(ms) \in Seq(Nat) /\ Len(Numbers(ms)) = Len(ms)
         /\ \A i \in 1..Len(ms) : Numbers(ms)[i] = ms[i].n
  <1>1. MaxMessages \in Nat
    BY SessionAssumption
  <1>2. \A m \in Message : m.n \in Nat
    BY <1>1 DEF Message
  <1>3. DOMAIN ms = 1..Len(ms) /\ Len(ms) \in Nat /\ \A i \in 1..Len(ms) : ms[i].n \in Nat
    BY <1>2, Elements
  <1> QED BY <1>3 DEF Numbers

LEMMA IdSeqParts ==
  ASSUME NEW es \in Seq(Entry)
  PROVE  /\ IdSeq(es) \in Seq(Nat) /\ Len(IdSeq(es)) = Len(es)
         /\ \A i \in 1..Len(es) : IdSeq(es)[i] = es[i].id
         /\ ToSet(IdSeq(es)) = Ids(es)
  <1>1. MaxMessages \in Nat
    BY SessionAssumption
  <1>2. \A e \in Entry : e.id \in Nat
    BY <1>1 DEF Entry
  <1>3. DOMAIN es = 1..Len(es) /\ Len(es) \in Nat /\ \A i \in 1..Len(es) : es[i].id \in Nat
    BY <1>2, Elements
  <1>4. /\ IdSeq(es) \in Seq(Nat) /\ Len(IdSeq(es)) = Len(es)
        /\ \A i \in 1..Len(es) : IdSeq(es)[i] = es[i].id
    BY <1>3 DEF IdSeq
  <1>5. ToSet(IdSeq(es)) = Ids(es)
    BY DEF IdSeq, Ids, ToSet
  <1> QED BY <1>4, <1>5

LEMMA NumbersConcat ==
  ASSUME NEW ms \in Seq(Message), NEW ns \in Seq(Message)
  PROVE  Numbers(ms \o ns) = Numbers(ms) \o Numbers(ns)
  <1> DEFINE y == Len(ms)  z == Len(ns)  u == ms \o ns
             a == Numbers(ms)  b == Numbers(ns)
  <1>1. /\ u \in Seq(Message) /\ Len(u) = y + z /\ y \in Nat /\ z \in Nat
        /\ \A i \in 1..(y + z) : u[i] = IF i <= y THEN ms[i] ELSE ns[i - y]
    BY ConcatProperties
  <1>2. /\ a \in Seq(Nat) /\ Len(a) = y /\ \A i \in 1..y : a[i] = ms[i].n
        /\ b \in Seq(Nat) /\ Len(b) = z /\ \A i \in 1..z : b[i] = ns[i].n
    BY NumbersParts
  <1> HIDE DEF a, b, u
  <1>3. /\ a \o b \in Seq(Nat) /\ Len(a \o b) = Len(a) + Len(b)
        /\ \A i \in 1..(Len(a) + Len(b)) :
             (a \o b)[i] = IF i <= Len(a) THEN a[i] ELSE b[i - Len(a)]
    <2>1. a \in Seq(Nat) /\ b \in Seq(Nat)
      BY <1>2
    <2> QED BY <2>1, ConcatProperties, Zenon
  <1>4. /\ Numbers(u) \in Seq(Nat) /\ Len(Numbers(u)) = y + z
        /\ \A i \in 1..(y + z) : Numbers(u)[i] = u[i].n
    <2>1. /\ Numbers(u) \in Seq(Nat) /\ Len(Numbers(u)) = Len(u)
          /\ \A i \in 1..Len(u) : Numbers(u)[i] = u[i].n
      BY <1>1, NumbersParts
    <2> QED BY <1>1, <2>1, Zenon
  <1> HIDE DEF y, z
  <1>5. /\ Len(a \o b) = y + z
        /\ \A i \in 1..(y + z) : (a \o b)[i] = IF i <= y THEN a[i] ELSE b[i - y]
    BY <1>2, <1>3, Zenon
  <1>6. ASSUME NEW i \in 1..(y + z) PROVE Numbers(u)[i] = (a \o b)[i]
    <2>1. CASE i <= y
      <3>1. i \in 1..y
        BY <1>1, <2>1
      <3>2. a[i] = ms[i].n /\ u[i] = ms[i]
        BY <1>1, <1>2, <2>1, <3>1, Zenon
      <3> QED BY <1>4, <1>5, <2>1, <3>2
    <2>2. CASE ~(i <= y)
      <3>1. i - y \in 1..z
        BY <1>1, <2>2
      <3>2. b[i - y] = ns[i - y].n /\ u[i] = ns[i - y]
        BY <1>1, <1>2, <2>2, <3>1, Zenon
      <3>3. Numbers(u)[i] = u[i].n /\ (a \o b)[i] = b[i - y]
        BY <1>4, <1>5, <2>2, Zenon
      <3> QED BY <3>2, <3>3, Zenon
    <2> QED BY <2>1, <2>2
  <1>7. \A i \in 1..Len(Numbers(u)) : Numbers(u)[i] = (a \o b)[i]
    BY <1>4, <1>6, Zenon
  <1>8. Len(Numbers(u)) = Len(a \o b)
    BY <1>4, <1>5
  <1>9. Numbers(u) = a \o b
    BY <1>3, <1>4, <1>7, <1>8, SeqEqual, Zenon
  <1> QED BY <1>9 DEF a, b, u

\* The i-th entry made from messages has the number of the i-th message.
LEMMA IdsOfMessages ==
  ASSUME NEW kind \in Kinds, NEW ms \in Seq(Message)
  PROVE  IdSeq(AsEntries(kind, ms)) = Numbers(ms)
  <1>1. /\ DOMAIN ms = 1..Len(ms) /\ \A i \in 1..Len(ms) : ms[i] \in Message
        /\ DOMAIN AsEntries(kind, ms) = DOMAIN ms
        /\ \A i \in 1..Len(ms) : AsEntries(kind, ms)[i] = EntryOf(kind, ms[i])
    BY EntriesOfMessages, Elements DEF AsEntries
  <1>2. \A i \in 1..Len(ms) : AsEntries(kind, ms)[i].id = ms[i].n
    BY <1>1, EntryOfMessage
  <1> QED BY <1>1, <1>2 DEF IdSeq, Numbers

\* The ids of what is kept of a sequence of entries.
LEMMA KeptIds ==
  ASSUME NEW es \in Seq(Entry), NEW T, Distinct(IdSeq(es))
  PROVE  /\ Keep(es, T) \in Seq(Entry) /\ Distinct(IdSeq(Keep(es, T)))
         /\ Ids(Keep(es, T)) \subseteq Ids(es)
  <1> DEFINE k == Keep(es, T)  y == Len(k)  z == Len(es)
  <1>1. k \in Seq(Entry) /\ Sub(k, es)
    BY KeepInSeq, KeepPlaces
  <1> HIDE DEF k
  <1>2. /\ DOMAIN k = 1..y /\ y \in Nat /\ DOMAIN es = 1..z /\ z \in Nat
        /\ DOMAIN IdSeq(k) = 1..y /\ DOMAIN IdSeq(es) = 1..z
        /\ \A i \in 1..y : IdSeq(k)[i] = k[i].id
        /\ \A i \in 1..z : IdSeq(es)[i] = es[i].id
    BY <1>1 DEF IdSeq
  <1> HIDE DEF y, z
  <1>3. PICK f \in [1..y -> 1..z] :
          /\ \A i, j \in 1..y : i < j => f[i] < f[j]
          /\ \A i \in 1..y : k[i] = es[f[i]]
    BY <1>1 DEF Sub, y, z
  <1>4. ASSUME NEW i \in 1..y, NEW j \in 1..y, k[i].id = k[j].id PROVE i = j
    <2>1. f[i] \in 1..z /\ f[j] \in 1..z
      BY <1>3
    <2>2. f[i] = f[j]
      BY <1>2, <1>3, <1>4, <2>1 DEF Distinct
    <2>3. ~(i < j) /\ ~(j < i)
      BY <1>2, <1>3, <2>1, <2>2
    <2> QED BY <1>2, <2>3
  <1>5. Distinct(IdSeq(k))
    BY <1>2, <1>4 DEF Distinct
  <1>6. Ids(k) \subseteq Ids(es)
    BY <1>2, <1>3 DEF Ids
  <1> QED BY <1>1, <1>5, <1>6 DEF k

LEMMA IdSeqConcat ==
  ASSUME NEW es \in Seq(Entry), NEW fs \in Seq(Entry),
         Distinct(IdSeq(es)), Distinct(IdSeq(fs)), Ids(es) \cap Ids(fs) = {}
  PROVE  Distinct(IdSeq(es \o fs)) /\ Ids(es \o fs) = Ids(es) \union Ids(fs)
  <1> DEFINE y == Len(es)  z == Len(fs)  u == es \o fs
  <1>1. /\ u \in Seq(Entry) /\ Len(u) = y + z /\ y \in Nat /\ z \in Nat
        /\ \A i \in 1..(y + z) : u[i] = IF i <= y THEN es[i] ELSE fs[i - y]
        /\ DOMAIN es = 1..y /\ DOMAIN fs = 1..z /\ DOMAIN u = 1..(y + z)
    BY ConcatProperties
  <1> HIDE DEF y, z, u
  <1>2. /\ \A i, j \in 1..y : es[i].id = es[j].id => i = j
        /\ \A i, j \in 1..z : fs[i].id = fs[j].id => i = j
    BY <1>1 DEF IdSeq, Distinct
  <1>3. \A i \in 1..y, j \in 1..z : es[i].id # fs[j].id
    BY <1>1 DEF Ids
  <1>4. \A i \in 1..(y + z) : \/ i \in 1..y /\ u[i] = es[i]
                              \/ i - y \in 1..z /\ u[i] = fs[i - y]
    BY <1>1
  <1>5. ASSUME NEW i \in 1..(y + z), NEW j \in 1..(y + z), u[i].id = u[j].id
        PROVE  i = j
    <2>1. CASE i \in 1..y /\ u[i] = es[i] /\ j \in 1..y /\ u[j] = es[j]
      BY <1>2, <1>5, <2>1
    <2>2. CASE i - y \in 1..z /\ u[i] = fs[i - y] /\ j - y \in 1..z /\ u[j] = fs[j - y]
      <3>1. i - y = j - y
        BY <1>2, <1>5, <2>2
      <3> QED BY <1>1, <3>1
    <2>3. CASE i \in 1..y /\ u[i] = es[i] /\ j - y \in 1..z /\ u[j] = fs[j - y]
      BY <1>3, <1>5, <2>3
    <2>4. CASE i - y \in 1..z /\ u[i] = fs[i - y] /\ j \in 1..y /\ u[j] = es[j]
      BY <1>3, <1>5, <2>4
    <2> QED BY <1>4, <2>1, <2>2, <2>3, <2>4
  <1>6. Distinct(IdSeq(u))
    BY <1>1, <1>5 DEF IdSeq, Distinct
  <1>7. Ids(u) \subseteq Ids(es) \union Ids(fs)
    BY <1>1, <1>4 DEF Ids
  <1>8. Ids(es) \subseteq Ids(u)
    <2>1. \A i \in 1..y : i \in 1..(y + z) /\ u[i] = es[i]
      BY <1>1
    <2> QED BY <1>1, <2>1 DEF Ids
  <1>9. Ids(fs) \subseteq Ids(u)
    <2>1. \A i \in 1..z : i + y \in 1..(y + z) /\ u[i + y] = fs[i]
      BY <1>1
    <2> QED BY <1>1, <2>1 DEF Ids
  <1> QED BY <1>6, <1>7, <1>8, <1>9 DEF u

\* The numbers up to n: J are journalled, the others wait in four sequences, each
\* once and in one of the places only.
Apart(J, a, b, c, d, n) ==
  /\ n \in Nat /\ J \subseteq 1..n
  /\ a \in Seq(Nat) /\ b \in Seq(Nat) /\ c \in Seq(Nat) /\ d \in Seq(Nat)
  /\ ToSet(a) \subseteq 1..n /\ ToSet(b) \subseteq 1..n
  /\ ToSet(c) \subseteq 1..n /\ ToSet(d) \subseteq 1..n
  /\ Distinct(a) /\ Distinct(b) /\ Distinct(c) /\ Distinct(d)
  /\ J \cap ToSet(a) = {} /\ J \cap ToSet(b) = {}
  /\ J \cap ToSet(c) = {} /\ J \cap ToSet(d) = {}
  /\ ToSet(a) \cap ToSet(b) = {} /\ ToSet(a) \cap ToSet(c) = {}
  /\ ToSet(a) \cap ToSet(d) = {} /\ ToSet(b) \cap ToSet(c) = {}
  /\ ToSet(b) \cap ToSet(d) = {} /\ ToSet(c) \cap ToSet(d) = {}

LEMMA EmptyIsDistinct == ToSet(<<>>) = {} /\ Distinct(<<>>) /\ <<>> \in Seq(Nat)
  BY DEF ToSet, Distinct

LEMMA ApartSwaps ==
  ASSUME NEW J, NEW a, NEW b, NEW c, NEW d, NEW n, Apart(J, a, b, c, d, n)
  PROVE  /\ Apart(J, b, a, c, d, n) /\ Apart(J, c, b, a, d, n)
         /\ Apart(J, d, b, c, a, n)
  <1>1. Apart(J, b, a, c, d, n)
    BY DEF Apart
  <1>2. Apart(J, c, b, a, d, n)
    BY DEF Apart
  <1>3. Apart(J, d, b, c, a, n)
    BY DEF Apart
  <1> QED BY <1>1, <1>2, <1>3

LEMMA ApartAppend ==
  ASSUME NEW J, NEW a, NEW b, NEW c, NEW d, NEW n, Apart(J, a, b, c, d, n)
  PROVE  Apart(J, Append(a, n + 1), b, c, d, n + 1)
  <1> DEFINE u == Append(a, n + 1)
  <1>1. n \in Nat /\ a \in Seq(Nat) /\ Distinct(a) /\ ToSet(a) \subseteq 1..n
    BY DEF Apart
  <1>2. n + 1 \in Nat /\ n + 1 \notin 1..n /\ 1..n \subseteq 1..(n + 1)
        /\ n + 1 \in 1..(n + 1)
    BY <1>1
  <1>3. n + 1 \notin ToSet(a)
    BY <1>1, <1>2
  <1>4. u \in Seq(Nat) /\ ToSet(u) = ToSet(a) \cup {n + 1} /\ Distinct(u)
    BY <1>1, <1>2, <1>3, DistinctAppend
  <1> HIDE DEF u
  <1>5. Apart(J, u, b, c, d, n + 1)
    BY <1>2, <1>4 DEF Apart
  <1> QED BY <1>5 DEF u

LEMMA ApartMove ==
  ASSUME NEW J, NEW a, NEW x \in Seq(Nat), NEW y \in Seq(Nat), NEW c, NEW d, NEW n,
         Apart(J, a, x \o y, c, d, n)
  PROVE  Apart(J, a \o x, y, c, d, n)
  <1>1. a \in Seq(Nat)
    BY DEF Apart
  <1>2. /\ ToSet(x \o y) = ToSet(x) \cup ToSet(y)
        /\ Distinct(x \o y) <=>
             Distinct(x) /\ Distinct(y) /\ ToSet(x) \cap ToSet(y) = {}
    BY ConcatElements
  <1>3. /\ ToSet(a \o x) = ToSet(a) \cup ToSet(x) /\ a \o x \in Seq(Nat)
        /\ Distinct(a \o x) <=>
             Distinct(a) /\ Distinct(x) /\ ToSet(a) \cap ToSet(x) = {}
    BY <1>1, ConcatElements
  <1> DEFINE u == a \o x  v == x \o y
  <1>4. Apart(J, a, v, c, d, n)
    OBVIOUS
  <1> HIDE DEF u, v
  <1>5. /\ ToSet(v) = ToSet(x) \cup ToSet(y) /\ Distinct(x) /\ Distinct(y)
        /\ ToSet(x) \cap ToSet(y) = {}
    BY <1>2, <1>4 DEF Apart, v
  <1>6. u \in Seq(Nat) /\ ToSet(u) = ToSet(a) \cup ToSet(x) /\ Distinct(u)
    BY <1>2, <1>3, <1>4, <1>5 DEF Apart, u
  <1>7. Apart(J, u, y, c, d, n)
    BY <1>4, <1>5, <1>6 DEF Apart
  <1> QED BY <1>7 DEF u

LEMMA ApartDrop ==
  ASSUME NEW J, NEW a, NEW b, NEW c, NEW d, NEW n, Apart(J, a, b, c, d, n)
  PROVE  Apart(J, <<>>, b, c, d, n)
  BY EmptyIsDistinct DEF Apart

LEMMA ApartJournal ==
  ASSUME NEW J, NEW a, NEW b, NEW c, NEW d, NEW n, Apart(J, a, b, c, d, n),
         NEW K, K \subseteq J \cup ToSet(a) \cup ToSet(d)
  PROVE  Apart(K, <<>>, b, c, <<>>, n)
  BY EmptyIsDistinct DEF Apart

LEMMA ApartNew ==
  ASSUME NEW J, NEW a, NEW b, NEW c, NEW d, NEW n, Apart(J, a, b, c, d, n),
         NEW m \in Nat, m >= n, NEW K, K \subseteq J \cup ((n + 1)..m)
  PROVE  Apart(K, a, b, c, d, m)
  <1>1. /\ 1..n \subseteq 1..m /\ (n + 1)..m \subseteq 1..m
        /\ ((n + 1)..m) \cap (1..n) = {}
    BY DEF Apart
  <1> DEFINE F == (n + 1)..m
  <1> HIDE DEF F
  <1>2. K \subseteq J \cup F /\ F \cap (1..n) = {} /\ F \subseteq 1..m
        /\ 1..n \subseteq 1..m
    BY <1>1 DEF F
  <1> QED BY <1>2 DEF Apart

\* What a run has said and not journalled, the writes that extensions queued,
\* and the ids in any journal.
Partial  == IF phase = "stream" THEN <<Last(context)>> ELSE <<>>
Spoken   == AfterPrompts(produced) \o Partial
SinkMsgs == [i \in DOMAIN sink |-> sink[i].msg]
Recorded == Ids(entries) \union UNION {Ids(store[s]) : s \in DOMAIN store}

EachOnce == Apart(Recorded, Numbers(Spoken), Numbers(steering), Numbers(followUp),
                  Numbers(SinkMsgs), next)
JournalsDistinct == /\ Distinct(IdSeq(entries))
                    /\ \A s \in DOMAIN store : Distinct(IdSeq(store[s]))

OnceInv == EachOnce /\ JournalsDistinct

LEMMA SpokenSame ==
  ASSUME UNCHANGED <<produced, promptsLen>>,
         \/ phase # "stream" /\ phase' # "stream"
         \/ phase' = phase /\ context' = context
  PROVE  Spoken' = Spoken
  BY DEF Spoken, Partial, AfterPrompts

LEMMA SpokenGone ==
  ASSUME produced' = <<>>, promptsLen' = 0, phase' # "stream"
  PROVE  Spoken' = <<>> /\ Numbers(Spoken') = <<>>
  <1>1. AfterPrompts(produced)' = <<>>
    BY DEF AfterPrompts
  <1>2. Spoken' = <<>>
    BY <1>1 DEF Spoken, Partial
  <1>3. Numbers(<<>>) = <<>>
    BY DEF Numbers
  <1> QED BY <1>2, <1>3

LEMMA SpokenOutside ==
  ASSUME TypeOK, phase # "stream"
  PROVE  Spoken = AfterPrompts(produced)
  <1>1. AfterPrompts(produced) \in Seq(Message)
    <2>1. <<>> \in Seq(Message)
      OBVIOUS
    <2> QED BY <2>1, AfterPromptsParts
  <1> QED BY <1>1 DEF Spoken, Partial

LEMMA SpokenAdds ==
  ASSUME TypeOK, NEW new \in Seq(Message), produced' = produced \o new,
         promptsLen' = promptsLen, phase' # "stream"
  PROVE  Spoken' = AfterPrompts(produced) \o new
  <1>1. /\ AfterPrompts(produced) \in Seq(Message)
        /\ AfterPrompts(produced \o new) = AfterPrompts(produced) \o new
    BY AfterPromptsParts
  <1>2. AfterPrompts(produced)' = AfterPrompts(produced \o new)
    BY DEF AfterPrompts
  <1>3. Partial' = <<>>
    BY DEF Partial
  <1>4. AfterPrompts(produced) \o new \in Seq(Message)
    BY <1>1
  <1>5. Spoken' = (AfterPrompts(produced) \o new) \o <<>>
    BY <1>1, <1>2, <1>3, Zenon DEF Spoken
  <1> QED BY <1>4, <1>5

\* A journal step with ids that are nowhere in a journal yet.
LEMMA OnceJournal ==
  ASSUME TypeOK, JournalsDistinct, NEW es \in Seq(Entry), Distinct(IdSeq(es)),
         Ids(es) \cap Recorded = {}, NEW saved, Journal(es, saved)
  PROVE  JournalsDistinct' /\ Recorded' \subseteq Recorded \union Ids(es)
  <1> DEFINE k == SavedOf(es, saved)
  <1>1. /\ k \in Seq(Entry) /\ store' = [store EXCEPT ![sid] = store[sid] \o k]
        /\ entries' = entries \o es
    BY JournalTypes, Zenon
  <1>2. Distinct(IdSeq(k)) /\ Ids(k) \subseteq Ids(es)
    BY KeptIds DEF SavedOf
  <1> HIDE DEF k
  <1>3. /\ entries \in Seq(Entry) /\ store \in Seq(Seq(Entry)) /\ sid \in DOMAIN store
        /\ store[sid] \in Seq(Entry)
    BY DEF TypeOK
  <1>4. /\ Distinct(IdSeq(entries)) /\ Ids(entries) \cap Ids(es) = {}
        /\ \A s \in DOMAIN store : Distinct(IdSeq(store[s])) /\ Ids(store[s]) \cap Ids(es) = {}
    BY DEF JournalsDistinct, Recorded
  <1>5. Distinct(IdSeq(entries')) /\ Ids(entries') = Ids(entries) \union Ids(es)
    BY <1>1, <1>3, <1>4, IdSeqConcat
  <1>6. /\ Distinct(IdSeq(store[sid] \o k))
        /\ Ids(store[sid] \o k) = Ids(store[sid]) \union Ids(k)
    <2>1. Ids(store[sid]) \cap Ids(k) = {}
      BY <1>2, <1>3, <1>4
    <2> QED BY <1>1, <1>2, <1>3, <1>4, <2>1, IdSeqConcat
  <1>7. /\ DOMAIN store' = DOMAIN store
        /\ \A s \in DOMAIN store :
             store'[s] = IF s = sid THEN store[sid] \o k ELSE store[s]
    BY <1>1, <1>3
  <1>8. JournalsDistinct'
    BY <1>4, <1>5, <1>6, <1>7 DEF JournalsDistinct
  <1>9. \A s \in DOMAIN store : Ids(store'[s]) \subseteq Ids(store[s]) \union Ids(es)
    BY <1>2, <1>3, <1>6, <1>7
  <1>10. Recorded' \subseteq Recorded \union Ids(es)
    BY <1>5, <1>7, <1>9 DEF Recorded
  <1> QED BY <1>8, <1>10

LEMMA SinkNumbers ==
  ASSUME TypeOK
  PROVE  /\ SinkMsgs \in Seq(Message) /\ Writes \in Seq(Entry)
         /\ IdSeq(Writes) = Numbers(SinkMsgs)
  <1>1. /\ DOMAIN sink = 1..Len(sink) /\ Len(sink) \in Nat
        /\ \A i \in 1..Len(sink) : sink[i] \in SinkItem
    BY Elements DEF TypeOK, SinkItem
  <1>2. \A i \in 1..Len(sink) : sink[i].msg \in Message
    BY <1>1 DEF SinkItem
  <1>3. SinkMsgs \in Seq(Message)
    BY <1>1, <1>2 DEF SinkMsgs
  <1>4. \A i \in DOMAIN sink : EntryOf(sink[i].kind, sink[i].msg).id = sink[i].msg.n
    BY DEF EntryOf
  <1>5. IdSeq(Writes) = Numbers(SinkMsgs)
    BY <1>4 DEF IdSeq, Writes, Numbers, SinkMsgs
  <1> QED BY <1>3, <1>5, WritesType

\* The end of a turn journals what was said and what extensions wrote, each once.
LEMMA OnceTurnEnds ==
  ASSUME ControlInv, JournalsDistinct, NEW new \in Seq(Message), EndTurn(new),
         UNCHANGED queues,
         Apart(Recorded, Numbers(AfterPrompts(produced) \o new), Numbers(steering),
               Numbers(followUp), Numbers(SinkMsgs), next')
  PROVE  OnceInv'
  <1>0. Types /\ TypeOK
    BY TypesAreOK DEF ControlInv
  <1> DEFINE ms == AfterPrompts(produced) \o new
             added == AsEntries("message", ms)
  <1>1. ms \in Seq(Message) /\ JournalTurn(ms)
    BY <1>0, RunEnds
  <1>2. PICK saved : Journal(added \o Writes, saved)
    BY <1>0, <1>1, TurnEnds
  <1>3. /\ produced' = <<>> /\ promptsLen' = 0 /\ phase' # "stream" /\ sink' = <<>>
    BY <1>0, <1>1, TurnEnds
  <1>4. added \in Seq(Entry) /\ IdSeq(added) = Numbers(ms)
    BY <1>1, EntriesOfMessages, IdsOfMessages DEF Kinds
  <1>5. /\ SinkMsgs \in Seq(Message) /\ Writes \in Seq(Entry)
        /\ IdSeq(Writes) = Numbers(SinkMsgs)
    BY <1>0, SinkNumbers
  <1> DEFINE a == Numbers(ms)  d == Numbers(SinkMsgs)
  <1>6. Apart(Recorded, a, Numbers(steering), Numbers(followUp), d, next')
    OBVIOUS
  <1> HIDE DEF ms, added
  <1>7. ToSet(a) = Ids(added) /\ ToSet(d) = Ids(Writes)
    BY <1>4, <1>5, IdSeqParts
  <1>8. /\ Distinct(IdSeq(added \o Writes))
        /\ Ids(added \o Writes) = ToSet(a) \union ToSet(d)
    <2>1. Ids(added) \cap Ids(Writes) = {}
      BY <1>6, <1>7 DEF Apart
    <2>2. Distinct(IdSeq(added)) /\ Distinct(IdSeq(Writes))
      BY <1>4, <1>5, <1>6 DEF Apart
    <2> QED BY <1>4, <1>5, <1>7, <2>1, <2>2, IdSeqConcat
  <1>9. added \o Writes \in Seq(Entry)
    BY <1>4, <1>5
  <1>10. Ids(added \o Writes) \cap Recorded = {}
    BY <1>6, <1>8 DEF Apart
  <1>11. JournalsDistinct' /\ Recorded' \subseteq Recorded \union Ids(added \o Writes)
    BY <1>0, <1>2, <1>8, <1>9, <1>10, OnceJournal, Zenon
  <1> HIDE DEF a, d
  <1>12. Apart(Recorded', <<>>, Numbers(steering), Numbers(followUp), <<>>, next')
    <2>1. Recorded' \subseteq Recorded \cup ToSet(a) \cup ToSet(d)
      BY <1>8, <1>11
    <2> QED BY <1>6, <2>1, ApartJournal
  <1>13. /\ Numbers(Spoken') = <<>> /\ Numbers(SinkMsgs') = <<>>
         /\ steering' = steering /\ followUp' = followUp
    <2>1. Numbers(SinkMsgs') = <<>>
      BY <1>3 DEF SinkMsgs, Numbers
    <2> QED BY <1>3, <2>1, SpokenGone DEF queues
  <1>14. EachOnce'
    BY <1>12, <1>13 DEF EachOnce
  <1> QED BY <1>11, <1>14, Zenon DEF OnceInv

LEMMA NumbersAppend ==
  ASSUME NEW ms \in Seq(Message), NEW m \in Message
  PROVE  /\ Numbers(ms \o <<m>>) = Append(Numbers(ms), m.n)
         /\ Numbers(Append(ms, m)) = Append(Numbers(ms), m.n)
         /\ <<m>> \in Seq(Message)
  <1>1. <<m>> \in Seq(Message) /\ Append(ms, m) = ms \o <<m>>
    BY AppendIsConcat
  <1>2. Numbers(<<m>>) = <<m.n>>
    BY DEF Numbers
  <1>3. Numbers(ms \o <<m>>) = Numbers(ms) \o <<m.n>>
    BY <1>1, <1>2, NumbersConcat
  <1>4. m.n \in Nat /\ Numbers(ms) \in Seq(Nat)
    <2>1. MaxMessages \in Nat
      BY SessionAssumption
    <2>2. m.n \in Nat
      BY <2>1 DEF Message
    <2> QED BY <2>2, NumbersParts
  <1>5. Append(Numbers(ms), m.n) = Numbers(ms) \o <<m.n>>
    BY <1>4, AppendIsConcat
  <1> QED BY <1>1, <1>3, <1>5

LEMMA FreshMessage ==
  ASSUME TypeOK, Make(1), NEW by \in Authors
  PROVE  /\ Msg(1, by) \in Message /\ Msg(1, by).n = next + 1 /\ next' = next + 1
         /\ <<Msg(1, by)>> \in Seq(Message)
  <1>1. Room(1)
    BY MadeNext
  <1>2. Msg(1, by) \in Message /\ Msg(1, by).n = next + 1
    BY <1>1, MadeMessage
  <1>3. next' = next + 1
    BY DEF Make
  <1> QED BY <1>2, <1>3

\* What is drained from the third place moves to the first.
LEMMA ApartMoveThird ==
  ASSUME NEW J, NEW a, NEW b, NEW x \in Seq(Nat), NEW y \in Seq(Nat), NEW d, NEW n,
         Apart(J, a, b, x \o y, d, n)
  PROVE  Apart(J, a \o x, b, y, d, n)
  <1>1. Apart(J, b, a, x \o y, d, n)
    BY ApartSwaps
  <1>2. Apart(J, x \o y, a, b, d, n)
    BY <1>1, ApartSwaps
  <1>3. Apart(J, a, x \o y, b, d, n)
    BY <1>2, ApartSwaps
  <1>4. Apart(J, a \o x, y, b, d, n)
    BY <1>3, ApartMove
  <1>5. Apart(J, y, a \o x, b, d, n)
    BY <1>4, ApartSwaps
  <1>6. Apart(J, b, a \o x, y, d, n)
    BY <1>5, ApartSwaps
  <1> QED BY <1>6, ApartSwaps

LEMMA JournalsSame ==
  ASSUME JournalsDistinct, UNCHANGED conversation
  PROVE  JournalsDistinct' /\ Recorded' = Recorded
  BY DEF JournalsDistinct, Recorded, conversation

LEMMA OnceInit == Init => OnceInv
  <1> SUFFICES ASSUME Init PROVE OnceInv
    OBVIOUS
  <1>1. /\ entries = <<>> /\ store = <<<<>>>> /\ produced = <<>> /\ promptsLen = 0
        /\ steering = <<>> /\ followUp = <<>> /\ sink = <<>> /\ next = 0
        /\ phase # "stream"
    BY DEF Init
  <1>2. Numbers(<<>>) = <<>> /\ IdSeq(<<>>) = <<>> /\ Ids(<<>>) = {}
    BY DEF Numbers, IdSeq, Ids
  <1>3. Spoken = <<>> /\ SinkMsgs = <<>>
    BY <1>1 DEF Spoken, Partial, AfterPrompts, SinkMsgs
  <1>4. \A s \in DOMAIN store : store[s] = <<>>
    BY <1>1
  <1>5. Recorded = {}
    BY <1>1, <1>2, <1>4 DEF Recorded
  <1>6. JournalsDistinct
    BY <1>1, <1>2, <1>4, EmptyIsDistinct DEF JournalsDistinct
  <1>7. Apart({}, <<>>, <<>>, <<>>, <<>>, 0)
    BY EmptyIsDistinct DEF Apart
  <1>8. EachOnce
    BY <1>1, <1>2, <1>3, <1>5, <1>7 DEF EachOnce
  <1> QED BY <1>6, <1>8 DEF OnceInv

\* The steps that journal nothing.
LEMMA OnceQuiet ==
  ASSUME ControlInv, OnceInv,
         \/ Send \/ HookCancels \/ LoopFails \/ Timeout \/ Compact \/ Abort
         \/ Poll \/ Request \/ HookContinues \/ EnqueueSteer \/ EnqueueFollowUp
         \/ \E k \in {"custom", "custom_message"} : ExtensionWrites(k)
  PROVE  OnceInv'
  <1>0. Types /\ Control /\ TypeOK
    BY TypesAreOK DEF ControlInv
  <1>p. /\ produced \in Seq(Message) /\ steering \in Seq(Message)
        /\ followUp \in Seq(Message) /\ context \in Seq(Message)
    BY <1>0 DEF Types
  <1>e. <<>> \in Seq(Message) /\ Numbers(<<>>) = <<>>
    BY DEF Numbers
  <1>o. AfterPrompts(produced) \in Seq(Message)
    BY <1>0, <1>e, AfterPromptsParts
  <1>c. UNCHANGED conversation
    BY Zenon DEF Send, HookCancels, LoopFails, Timeout, Compact, Abort, Poll, Request,
      HookContinues, EnqueueSteer, EnqueueFollowUp, ExtensionWrites
  <1>s. JournalsDistinct' /\ Recorded' = Recorded
    BY <1>c, JournalsSame DEF OnceInv
  <1> DEFINE R == Recorded  a == Numbers(Spoken)  b == Numbers(steering)
             c == Numbers(followUp)  d == Numbers(SinkMsgs)
  <1>h. Apart(R, a, b, c, d, next)
    BY DEF OnceInv, EachOnce
  <1> USE DEF run, queues
  <1>1. ASSUME Send \/ HookCancels \/ Compact \/ Abort PROVE EachOnce'
    <2>1. UNCHANGED <<produced, promptsLen, context, steering, followUp, sink, next>>
      BY <1>1 DEF Send, HookCancels, Compact, Abort
    <2>2. \/ phase # "stream" /\ phase' # "stream"
          \/ phase' = phase
      BY <1>1 DEF Send, HookCancels, Compact, Abort
    <2>3. Spoken' = Spoken
      BY <2>1, <2>2, SpokenSame
    <2> QED BY <1>h, <1>s, <2>1, <2>3 DEF EachOnce, SinkMsgs
  <1>2. ASSUME LoopFails \/ Timeout PROVE EachOnce'
    <2>1. /\ produced' = <<>> /\ promptsLen' = 0 /\ phase' # "stream"
          /\ UNCHANGED <<steering, followUp, sink, next>>
      BY <1>2 DEF LoopFails, Timeout, EndRun
    <2>2. Numbers(Spoken') = <<>>
      BY <2>1, SpokenGone
    <2>3. Apart(R, <<>>, b, c, d, next)
      BY <1>h, ApartDrop
    <2> QED BY <1>s, <2>1, <2>2, <2>3 DEF EachOnce, SinkMsgs
  <1>3. ASSUME Poll PROVE EachOnce'
    <2> DEFINE got == IF cancelled THEN <<>> ELSE Drained(steering)
    <2>1. /\ produced' = produced \o got /\ phase = "poll" /\ phase' # "stream"
          /\ UNCHANGED <<promptsLen, followUp, sink, next>>
          /\ steering' = IF cancelled THEN steering ELSE Rest(steering)
      BY <1>3 DEF Poll
    <2>2. got \in Seq(Message) /\ steering' \in Seq(Message) /\ got \o steering' = steering
      <3>1. <<>> \o steering = steering
        BY <1>p
      <3> QED BY <1>p, <1>e, <2>1, <3>1, DrainedParts
    <2> HIDE DEF got
    <2>3. Spoken = AfterPrompts(produced) /\ Spoken' = AfterPrompts(produced) \o got
      BY <1>0, <2>1, <2>2, SpokenOutside, SpokenAdds
    <2>4. Numbers(Spoken') = a \o Numbers(got) /\ b = Numbers(got) \o Numbers(steering')
      BY <1>o, <2>2, <2>3, NumbersConcat
    <2>5. Numbers(got) \in Seq(Nat) /\ Numbers(steering') \in Seq(Nat)
      BY <2>2, NumbersParts
    <2>6. Apart(R, a \o Numbers(got), Numbers(steering'), c, d, next)
      BY <1>h, <2>4, <2>5, ApartMove
    <2> QED BY <1>s, <2>1, <2>4, <2>6 DEF EachOnce, SinkMsgs
  <1>4. ASSUME Request PROVE EachOnce'
    <2>1. /\ context' = Append(context, Msg(1, "assistant")) /\ Make(1)
          /\ phase = "request" /\ phase' = "stream"
          /\ UNCHANGED <<produced, promptsLen, steering, followUp, sink>>
      BY <1>4 DEF Request
    <2>2. /\ Msg(1, "assistant") \in Message /\ Msg(1, "assistant").n = next + 1
          /\ next' = next + 1
      BY <1>0, <2>1, FreshMessage DEF Authors
    <2>3. Last(context') = Msg(1, "assistant")
      BY <1>p, <2>1, <2>2 DEF Last
    <2>4. Spoken' = AfterPrompts(produced) \o <<Msg(1, "assistant")>>
      BY <2>1, <2>3 DEF Spoken, Partial, AfterPrompts
    <2>5. Spoken = AfterPrompts(produced)
      BY <1>0, <2>1, SpokenOutside
    <2>6. Numbers(Spoken') = Append(a, next + 1)
      BY <1>o, <2>2, <2>4, <2>5, NumbersAppend
    <2>7. Apart(R, Append(a, next + 1), b, c, d, next + 1)
      BY <1>h, ApartAppend
    <2> QED BY <1>s, <2>1, <2>2, <2>6, <2>7 DEF EachOnce, SinkMsgs
  <1>5. ASSUME HookContinues PROVE EachOnce'
    <2>1. /\ produced' = produced \o <<Msg(1, "hook")>> /\ Make(1)
          /\ phase = "turn_end" /\ phase' = "request"
          /\ UNCHANGED <<promptsLen, steering, followUp, sink>>
      BY <1>5 DEF HookContinues, Resume
    <2>2. /\ Msg(1, "hook") \in Message /\ Msg(1, "hook").n = next + 1
          /\ next' = next + 1 /\ <<Msg(1, "hook")>> \in Seq(Message)
      BY <1>0, <2>1, FreshMessage DEF Authors
    <2>3. /\ Spoken = AfterPrompts(produced)
          /\ Spoken' = AfterPrompts(produced) \o <<Msg(1, "hook")>>
      BY <1>0, <2>1, <2>2, SpokenOutside, SpokenAdds
    <2>4. Numbers(Spoken') = Append(a, next + 1)
      BY <1>o, <2>2, <2>3, NumbersAppend
    <2>5. Apart(R, Append(a, next + 1), b, c, d, next + 1)
      BY <1>h, ApartAppend
    <2> QED BY <1>s, <2>1, <2>2, <2>4, <2>5 DEF EachOnce, SinkMsgs
  <1>6. ASSUME EnqueueSteer PROVE EachOnce'
    <2>1. /\ Make(1) /\ steering' = Append(steering, Msg(1, "user"))
          /\ UNCHANGED <<phase, context, produced, promptsLen, followUp, sink>>
      BY <1>6 DEF EnqueueSteer
    <2>2. /\ Msg(1, "user") \in Message /\ Msg(1, "user").n = next + 1
          /\ next' = next + 1
      BY <1>0, <2>1, FreshMessage DEF Authors
    <2>3. Numbers(steering') = Append(b, next + 1) /\ Spoken' = Spoken
      BY <1>p, <2>1, <2>2, NumbersAppend, SpokenSame
    <2>4. Apart(R, a, Append(b, next + 1), c, d, next + 1)
      <3>1. Apart(R, b, a, c, d, next)
        BY <1>h, ApartSwaps
      <3>2. Apart(R, Append(b, next + 1), a, c, d, next + 1)
        BY <3>1, ApartAppend
      <3> QED BY <3>2, ApartSwaps
    <2> QED BY <1>s, <2>1, <2>2, <2>3, <2>4 DEF EachOnce, SinkMsgs
  <1>7. ASSUME EnqueueFollowUp PROVE EachOnce'
    <2>1. /\ Make(1) /\ followUp' = Append(followUp, Msg(1, "user"))
          /\ UNCHANGED <<phase, context, produced, promptsLen, steering, sink>>
      BY <1>7 DEF EnqueueFollowUp
    <2>2. /\ Msg(1, "user") \in Message /\ Msg(1, "user").n = next + 1
          /\ next' = next + 1
      BY <1>0, <2>1, FreshMessage DEF Authors
    <2>3. Numbers(followUp') = Append(c, next + 1) /\ Spoken' = Spoken
      BY <1>p, <2>1, <2>2, NumbersAppend, SpokenSame
    <2>4. Apart(R, a, b, Append(c, next + 1), d, next + 1)
      <3>1. Apart(R, c, b, a, d, next)
        BY <1>h, ApartSwaps
      <3>2. Apart(R, Append(c, next + 1), b, a, d, next + 1)
        BY <3>1, ApartAppend
      <3> QED BY <3>2, ApartSwaps
    <2> QED BY <1>s, <2>1, <2>2, <2>3, <2>4 DEF EachOnce, SinkMsgs
  <1>8. ASSUME NEW k \in {"custom", "custom_message"}, ExtensionWrites(k)
        PROVE  EachOnce'
    <2> DEFINE x == [kind |-> k, msg |-> Msg(1, "custom")]
    <2>1. /\ sink' = Append(sink, x) /\ Make(1)
          /\ UNCHANGED <<phase, context, produced, promptsLen, steering, followUp>>
      BY <1>8 DEF ExtensionWrites
    <2>2. /\ Msg(1, "custom") \in Message /\ Msg(1, "custom").n = next + 1
          /\ next' = next + 1
      BY <1>0, <2>1, FreshMessage DEF Authors
    <2>3. sink \in Seq(SinkItem) /\ x \in SinkItem /\ x.msg = Msg(1, "custom")
      BY <1>0, <2>2 DEF Types, SinkItem, Kinds
    <2>4. SinkMsgs \in Seq(Message)
      BY <1>0, SinkNumbers
    <2>5. SinkMsgs' = Append(SinkMsgs, Msg(1, "custom"))
      <3> HIDE DEF x
      <3>1. /\ DOMAIN sink = 1..Len(sink) /\ Len(sink) \in Nat
            /\ DOMAIN sink' = 1..(Len(sink) + 1)
            /\ \A i \in 1..Len(sink) : sink'[i] = sink[i]
            /\ sink'[Len(sink) + 1] = x
        BY <2>1, <2>3
      <3>2. Len(SinkMsgs) = Len(sink)
        BY <3>1 DEF SinkMsgs
      <3> QED BY <2>3, <3>1, <3>2 DEF SinkMsgs
    <2>6. Numbers(SinkMsgs') = Append(d, next + 1) /\ Spoken' = Spoken
      BY <2>1, <2>2, <2>4, <2>5, NumbersAppend, SpokenSame
    <2>7. Apart(R, a, b, c, Append(d, next + 1), next + 1)
      <3>1. Apart(R, d, b, c, a, next)
        BY <1>h, ApartSwaps
      <3>2. Apart(R, Append(d, next + 1), b, c, a, next + 1)
        BY <3>1, ApartAppend
      <3> QED BY <3>2, ApartSwaps
    <2> QED BY <1>s, <2>1, <2>2, <2>6, <2>7 DEF EachOnce
  <1> QED BY <1>1, <1>2, <1>3, <1>4, <1>5, <1>6, <1>7, <1>8, <1>s, Zenon DEF OnceInv

LEMMA FrontIds ==
  ASSUME NEW es \in Seq(Entry), NEW n \in 0..Len(es), Distinct(IdSeq(es))
  PROVE  /\ SubSeq(es, 1, n) \in Seq(Entry) /\ Distinct(IdSeq(SubSeq(es, 1, n)))
         /\ Ids(SubSeq(es, 1, n)) \subseteq Ids(es)
  <1> DEFINE f == SubSeq(es, 1, n)
  <1>1. /\ f \in Seq(Entry) /\ DOMAIN f = 1..n
        /\ \A i \in 1..n : f[i] = es[i]
        /\ 1..n \subseteq DOMAIN es
    BY SubSeqProperties
  <1> HIDE DEF f
  <1>2. Distinct(IdSeq(f))
    BY <1>1 DEF IdSeq, Distinct
  <1>3. Ids(f) \subseteq Ids(es)
    BY <1>1 DEF Ids
  <1> QED BY <1>1, <1>2, <1>3 DEF f

\* Entries with fresh ids, journalled outside a run.
LEMMA OnceFresh ==
  ASSUME ControlInv, OnceInv, NEW k \in Nat, NEW es \in Seq(Entry),
         Distinct(IdSeq(es)), Ids(es) \subseteq (next + 1)..(next + k),
         next' = next + k, NEW saved, Journal(es, saved),
         Numbers(Spoken') = Numbers(Spoken), UNCHANGED <<queues, sink>>
  PROVE  OnceInv'
  <1>0. Types /\ TypeOK
    BY TypesAreOK DEF ControlInv
  <1> DEFINE F == (next + 1)..(next + k)
  <1>1. next \in Nat /\ next + k \in Nat /\ next + k >= next /\ F \cap (1..next) = {}
    BY <1>0, SessionAssumption DEF Types
  <1>2. /\ Apart(Recorded, Numbers(Spoken), Numbers(steering), Numbers(followUp),
                 Numbers(SinkMsgs), next)
        /\ JournalsDistinct
    BY DEF OnceInv, EachOnce
  <1>3. Ids(es) \cap Recorded = {}
    <2> HIDE DEF F
    <2>1. Recorded \subseteq 1..next /\ Ids(es) \subseteq F
      BY <1>2 DEF Apart, F
    <2> QED BY <1>1, <2>1
  <1>4. JournalsDistinct' /\ Recorded' \subseteq Recorded \union Ids(es)
    BY <1>0, <1>2, <1>3, OnceJournal, Zenon
  <1>5. Recorded' \subseteq Recorded \cup F
    BY <1>4
  <1>6. Apart(Recorded', Numbers(Spoken), Numbers(steering), Numbers(followUp),
              Numbers(SinkMsgs), next + k)
    BY <1>1, <1>2, <1>5, ApartNew
  <1>7. EachOnce'
    BY <1>6 DEF EachOnce, SinkMsgs, queues
  <1> QED BY <1>4, <1>7, Zenon DEF OnceInv

\* Prompts are numbered one after the other.
LEMMA PromptIds ==
  ASSUME TypeOK, NEW c \in BOOLEAN, NEW i \in 1..Len(Prompts(c)), Room(i)
  PROVE  LET es == AsEntries("message", SubSeq(Prompts(c), 1, i))
         IN  /\ es \in Seq(Entry) /\ Distinct(IdSeq(es))
             /\ Ids(es) \subseteq (next + 1)..(next + i)
  <1> DEFINE q == SubSeq(Prompts(c), 1, i)  es == AsEntries("message", q)
  <1>1. /\ q \in Seq(Message) /\ Len(q) = i /\ Len(Prompts(c)) \in 1..2
        /\ \A j \in 1..i : \E by \in {"context", "user"} : q[j] = Msg(j, by)
    BY PromptsParts
  <1> HIDE DEF q
  <1>2. es \in Seq(Entry) /\ IdSeq(es) = Numbers(q) /\ ToSet(IdSeq(es)) = Ids(es)
    <2>1. es \in Seq(Entry) /\ IdSeq(es) = Numbers(q)
      BY <1>1, EntriesOfMessages, IdsOfMessages DEF Kinds
    <2> HIDE DEF es
    <2> QED BY <2>1, IdSeqParts
  <1>3. \A j \in 1..i : q[j].n = next + j
    <2>1. \A j, by : Msg(j, by).n = next + j
      BY DEF Msg
    <2> QED BY <1>1, <2>1, Zenon
  <1>4. /\ Numbers(q) \in Seq(Nat) /\ DOMAIN Numbers(q) = 1..i
        /\ \A j \in 1..i : Numbers(q)[j] = next + j
    <2>1. DOMAIN q = 1..i
      BY <1>1
    <2> QED BY <1>1, <1>3, <2>1, NumbersParts DEF Numbers
  <1>5. next \in Nat /\ i \in Nat
    BY <1>1, SessionAssumption DEF TypeOK
  <1>6. Distinct(Numbers(q))
    BY <1>4, <1>5 DEF Distinct
  <1>7. \A x \in ToSet(Numbers(q)) : \E j \in 1..i : x = next + j
    BY <1>4 DEF ToSet
  <1>8. ToSet(Numbers(q)) \subseteq (next + 1)..(next + i)
    BY <1>5, <1>7
  <1> QED BY <1>2, <1>6, <1>8 DEF q

LEMMA OneFreshEntry ==
  ASSUME TypeOK, NEW kind \in Kinds, Make(1)
  PROVE  LET es == <<EntryOf(kind, Msg(1, "custom"))>>
         IN  /\ es \in Seq(Entry) /\ Distinct(IdSeq(es))
             /\ Ids(es) \subseteq (next + 1)..(next + 1) /\ next' = next + 1
  <1>1. Msg(1, "custom") \in Message /\ Msg(1, "custom").n = next + 1 /\ next' = next + 1
    BY FreshMessage DEF Authors
  <1> DEFINE e == EntryOf(kind, Msg(1, "custom"))
  <1>2. e \in Entry /\ e.id = next + 1
    BY <1>1, EntryOfMessage
  <1> HIDE DEF e
  <1>3. <<e>> \in Seq(Entry) /\ Distinct(IdSeq(<<e>>)) /\ Ids(<<e>>) = {next + 1}
    BY <1>2 DEF Distinct, IdSeq, Ids
  <1>4. next + 1 \in (next + 1)..(next + 1)
    BY SessionAssumption DEF TypeOK
  <1> QED BY <1>1, <1>3, <1>4 DEF e

\* The steps that journal something while no run ends.
LEMMA OnceJournals ==
  ASSUME ControlInv, OnceInv,
         \/ SetInfo \/ Summarised
         \/ \E c \in BOOLEAN : BeginTurn(c) \/ (\E i \in 1..2 : PromptNotSaved(c, i))
  PROVE  OnceInv'
  <1>0. Types /\ Control /\ TypeOK
    BY TypesAreOK DEF ControlInv
  <1>1. ASSUME SetInfo PROVE OnceInv'
    <2>1. /\ Make(1) /\ phase = "idle" /\ UNCHANGED <<phase, context, run, queues, sink>>
          /\ \E saved : Journal(<<EntryOf("info", Msg(1, "custom"))>>, saved)
      BY <1>1, Zenon DEF SetInfo
    <2>2. Numbers(Spoken') = Numbers(Spoken)
      BY <2>1, SpokenSame DEF run
    <2> QED BY <1>0, <2>1, <2>2, OneFreshEntry, OnceFresh DEF Kinds
  <1>2. ASSUME Summarised PROVE OnceInv'
    <2>1. /\ Make(1) /\ phase \in {"compact", "autocompact"} /\ phase' = "idle"
          /\ UNCHANGED <<context, run, queues, sink>>
          /\ \E saved : Journal(<<EntryOf("compaction", Msg(1, "custom"))>>, saved)
      BY <1>2, Zenon DEF Summarised
    <2>2. Numbers(Spoken') = Numbers(Spoken)
      BY <2>1, SpokenSame DEF run
    <2> QED BY <1>0, <2>1, <2>2, OneFreshEntry, OnceFresh DEF Kinds
  <1>3. ASSUME NEW c \in BOOLEAN, NEW i \in 1..Len(Prompts(c)), Make(i), NEW saved,
               Journal(AsEntries("message", SubSeq(Prompts(c), 1, i)), saved),
               Numbers(Spoken') = Numbers(Spoken), UNCHANGED <<queues, sink>>
        PROVE  OnceInv'
    <2>1. i \in Nat
      BY DEF Prompts
    <2>2. Room(i) /\ next' = next + i
      BY <1>0, <1>3, <2>1, MadeNext DEF Make
    <2> DEFINE es == AsEntries("message", SubSeq(Prompts(c), 1, i))
    <2>3. /\ es \in Seq(Entry) /\ Distinct(IdSeq(es))
          /\ Ids(es) \subseteq (next + 1)..(next + i)
      BY <1>0, <2>2, PromptIds
    <2>4. Journal(es, saved)
      BY <1>3
    <2> HIDE DEF es
    <2> QED BY <1>3, <2>1, <2>2, <2>3, <2>4, OnceFresh
  <1>4. ASSUME NEW c \in BOOLEAN, NEW i \in 1..2, PromptNotSaved(c, i) PROVE OnceInv'
    <2>1. /\ Make(i) /\ UNCHANGED <<context, run, queues, sink>> /\ phase' = "idle"
          /\ phase = "hooks" /\ i \in 1..Len(Prompts(c))
      BY <1>4 DEF PromptNotSaved, Prompts
    <2>2. \E saved : Journal(AsEntries("message", SubSeq(Prompts(c), 1, i)), saved)
      BY <1>4, Zenon DEF PromptNotSaved
    <2>3. Numbers(Spoken') = Numbers(Spoken)
      BY <2>1, SpokenSame DEF run
    <2> QED BY <1>3, <2>1, <2>2, <2>3
  <1>5. ASSUME NEW c \in BOOLEAN, BeginTurn(c) PROVE OnceInv'
    <2> DEFINE p == Prompts(c)
    <2>1. /\ Launch(p) /\ Make(Len(p)) /\ produced' = p /\ promptsLen' = Len(p)
          /\ phase = "hooks" /\ phase' = "poll" /\ UNCHANGED <<queues, sink>>
      BY <1>5 DEF BeginTurn, Launch
    <2>2. Len(p) \in 1..2 /\ Len(p) \in Nat /\ Len(p) \in 1..Len(p)
      BY DEF Prompts
    <2>3. p \in Seq(Message)
      BY <1>0, <2>1, <2>2, MadeNext, AllPrompts
    <2>4. \E saved : Journal(AsEntries("message", p), saved)
      BY <2>1, Zenon DEF Launch
    <2>5. SubSeq(p, 1, Len(p)) = p
      BY <2>3
    <2>6. \E saved : Journal(AsEntries("message", SubSeq(p, 1, Len(p))), saved)
      BY <2>4, <2>5, Zenon
    <2>7. Spoken = <<>>
      <3>1. produced = <<>> /\ promptsLen = 0
        BY <1>0, <2>1 DEF Control, RunsWhileRunning, Running
      <3> QED BY <2>1, <3>1 DEF Spoken, Partial, AfterPrompts
    <2>8. Spoken' = <<>>
      <3> HIDE DEF p
      <3>1. SubSeq(p, Len(p) + 1, Len(p)) = <<>>
        BY <2>2, <2>3
      <3> QED BY <2>1, <3>1 DEF Spoken, Partial, AfterPrompts
    <2> QED BY <1>3, <2>1, <2>2, <2>6, <2>7, <2>8
  <1> QED BY <1>1, <1>2, <1>4, <1>5

\* The steps that may end a run.
LEMMA OnceEnds ==
  ASSUME ControlInv, OnceInv,
         \/ RequestAborted \/ StreamBreaks \/ PollFollowUp \/ HookLetsEnd
         \/ \E m \in BOOLEAN : StreamDone(m)
  PROVE  OnceInv'
  <1>0. Types /\ Control /\ TypeOK
    BY TypesAreOK DEF ControlInv
  <1>p. produced \in Seq(Message) /\ followUp \in Seq(Message)
    BY <1>0 DEF Types
  <1>e. <<>> \in Seq(Message)
    OBVIOUS
  <1>o. AfterPrompts(produced) \in Seq(Message)
    BY <1>0, <1>e, AfterPromptsParts
  <1> DEFINE R == Recorded  a == Numbers(Spoken)  b == Numbers(steering)
             c == Numbers(followUp)  d == Numbers(SinkMsgs)
  <1>h. Apart(R, a, b, c, d, next) /\ JournalsDistinct
    BY DEF OnceInv, EachOnce
  <1>1. ASSUME RequestAborted PROVE OnceInv'
    <2> DEFINE m == Msg(1, "aborted")
    <2>1. Make(1) /\ EndTurn(<<m>>) /\ UNCHANGED queues /\ phase = "request"
      BY <1>1 DEF RequestAborted
    <2>2. m \in Message /\ m.n = next + 1 /\ next' = next + 1 /\ <<m>> \in Seq(Message)
      BY <1>0, <2>1, FreshMessage DEF Authors
    <2> HIDE DEF m
    <2>3. Spoken = AfterPrompts(produced)
      BY <1>0, <2>1, SpokenOutside
    <2>4. Numbers(AfterPrompts(produced) \o <<m>>) = Append(a, next + 1)
      BY <1>o, <2>2, <2>3, NumbersAppend
    <2>5. Apart(R, Append(a, next + 1), b, c, d, next + 1)
      BY <1>h, ApartAppend
    <2>6. Apart(R, Numbers(AfterPrompts(produced) \o <<m>>), b, c, d, next')
      BY <2>2, <2>4, <2>5
    <2> QED BY <1>h, <2>1, <2>2, <2>6, OnceTurnEnds
  <1>2. ASSUME phase = "stream"
        PROVE  /\ <<Broken>> \in Seq(Message) /\ <<Last(context)>> \in Seq(Message)
               /\ Numbers(AfterPrompts(produced) \o <<Last(context)>>) = a
               /\ Numbers(AfterPrompts(produced) \o <<Broken>>) = a
               /\ Last(context) \in Message
    <2>1. context # <<>>
      BY <1>0, <1>2 DEF Control, StreamHasContext
    <2>2. /\ <<Broken>> \in Seq(Message) /\ <<Last(context)>> \in Seq(Message)
          /\ Broken.n = Last(context).n /\ Last(context) \in Message
          /\ Broken \in Message
      BY <1>0, <2>1, BrokenParts
    <2>3. Spoken = AfterPrompts(produced) \o <<Last(context)>>
      BY <1>2 DEF Spoken, Partial
    <2>4. Numbers(AfterPrompts(produced) \o <<Broken>>)
            = Numbers(AfterPrompts(produced) \o <<Last(context)>>)
      <3> DEFINE m == Last(context)  p == AfterPrompts(produced)
      <3>1. m \in Message /\ Broken \in Message /\ Broken.n = m.n /\ p \in Seq(Message)
        BY <1>o, <2>2
      <3> HIDE DEF m, p
      <3>2. Numbers(p \o <<m>>) = Append(Numbers(p), m.n)
            /\ Numbers(p \o <<Broken>>) = Append(Numbers(p), Broken.n)
        BY <3>1, NumbersAppend, SMTT(30)
      <3> QED BY <3>1, <3>2 DEF m, p
    <2>5. Numbers(AfterPrompts(produced) \o <<Last(context)>>) = a
      BY <2>3
    <2> HIDE DEF a
    <2> QED BY <2>2, <2>4, <2>5, Zenon
  <1>3. ASSUME StreamBreaks PROVE OnceInv'
    <2>1. EndTurn(<<Broken>>) /\ UNCHANGED queues /\ phase = "stream" /\ next' = next
      BY <1>3, Zenon DEF StreamBreaks, Broken
    <2>2. Apart(R, Numbers(AfterPrompts(produced) \o <<Broken>>), b, c, d, next')
      BY <1>h, <1>2, <2>1
    <2> QED BY <1>h, <1>2, <2>1, <2>2, OnceTurnEnds
  <1>4. ASSUME NEW m \in BOOLEAN, StreamDone(m) PROVE OnceInv'
    <2>1. /\ phase = "stream" /\ UNCHANGED <<queues, next>>
          /\ \/ EndTurn(<<Last(context)>>)
             \/ /\ phase' = "poll" /\ produced' = Append(produced, Last(context))
                /\ UNCHANGED <<conversation, promptsLen, sink>>
      BY <1>4 DEF StreamDone
    <2>2. CASE EndTurn(<<Last(context)>>)
      <3>1. Apart(R, Numbers(AfterPrompts(produced) \o <<Last(context)>>), b, c, d, next')
        BY <1>h, <1>2, <2>1
      <3> QED BY <1>h, <1>2, <2>1, <2>2, <3>1, OnceTurnEnds
    <2>3. CASE /\ phase' = "poll" /\ produced' = Append(produced, Last(context))
               /\ UNCHANGED <<conversation, promptsLen, sink>>
      <3>1. produced' = produced \o <<Last(context)>>
        BY <1>p, <1>2, <2>1, <2>3, AppendIsConcat
      <3>2. Spoken' = AfterPrompts(produced) \o <<Last(context)>>
        BY <1>0, <1>2, <2>1, <2>3, <3>1, SpokenAdds
      <3>3. Numbers(Spoken') = a
        BY <1>2, <2>1, <3>2
      <3>4. JournalsDistinct' /\ Recorded' = Recorded
        BY <1>h, <2>3, JournalsSame
      <3>5. EachOnce'
        BY <1>h, <2>1, <2>3, <3>3, <3>4 DEF EachOnce, SinkMsgs, queues
      <3> QED BY <3>4, <3>5, Zenon DEF OnceInv
    <2> QED BY <2>1, <2>2, <2>3
  <1>5. ASSUME EndTurn(<<>>), phase # "stream", UNCHANGED <<queues, next>> PROVE OnceInv'
    <2>1. AfterPrompts(produced) \o <<>> = Spoken
      BY <1>0, <1>o, <1>5, SpokenOutside
    <2>2. Apart(R, Numbers(AfterPrompts(produced) \o <<>>), b, c, d, next')
      BY <1>h, <1>5, <2>1
    <2> QED BY <1>h, <1>e, <1>5, <2>2, OnceTurnEnds
  <1>6. ASSUME PollFollowUp PROVE OnceInv'
    <2>0. PICK hook : FollowUpOrEnd(hook)
      BY <1>6, Zenon DEF PollFollowUp
    <2>1. /\ steering' = steering /\ next' = next /\ phase = "stop"
          /\ \/ /\ followUp # <<>> /\ Resume(Drained(followUp))
                /\ followUp' = Rest(followUp)
                /\ UNCHANGED <<conversation, promptsLen, sink>>
             \/ /\ phase' = "turn_end"
                /\ UNCHANGED <<context, conversation, run, followUp, sink>>
             \/ EndTurn(<<>>) /\ followUp' = followUp
      BY <2>0 DEF FollowUpOrEnd
    <2>2. CASE /\ followUp # <<>> /\ Resume(Drained(followUp))
               /\ followUp' = Rest(followUp)
               /\ UNCHANGED <<conversation, promptsLen, sink>>
      <3> DEFINE got == Drained(followUp)
      <3>1. got \in Seq(Message) /\ followUp' \in Seq(Message)
            /\ got \o followUp' = followUp
        BY <1>p, <2>2, DrainedParts
      <3>2. phase' = "request" /\ produced' = produced \o got
        BY <2>2 DEF Resume
      <3> HIDE DEF got
      <3>3. Spoken = AfterPrompts(produced) /\ Spoken' = AfterPrompts(produced) \o got
        BY <1>0, <2>1, <2>2, <3>1, <3>2, SpokenOutside, SpokenAdds
      <3>4. Numbers(Spoken') = a \o Numbers(got) /\ c = Numbers(got) \o Numbers(followUp')
        BY <1>o, <3>1, <3>3, NumbersConcat
      <3>5. Numbers(got) \in Seq(Nat) /\ Numbers(followUp') \in Seq(Nat)
        BY <3>1, NumbersParts
      <3>6. Apart(R, a \o Numbers(got), b, Numbers(followUp'), d, next)
        BY <1>h, <3>4, <3>5, ApartMoveThird
      <3>7. JournalsDistinct' /\ Recorded' = Recorded
        BY <1>h, <2>2, JournalsSame
      <3>8. EachOnce'
        BY <2>1, <2>2, <3>4, <3>6, <3>7 DEF EachOnce, SinkMsgs
      <3> QED BY <3>7, <3>8, Zenon DEF OnceInv
    <2>3. CASE /\ phase' = "turn_end"
               /\ UNCHANGED <<context, conversation, run, followUp, sink>>
      <3>1. JournalsDistinct' /\ Recorded' = Recorded
        BY <1>h, <2>3, JournalsSame
      <3>2. Spoken' = Spoken
        BY <2>1, <2>3, SpokenSame DEF run
      <3>3. EachOnce'
        BY <1>h, <2>1, <2>3, <3>1, <3>2 DEF EachOnce, SinkMsgs
      <3> QED BY <3>1, <3>3, Zenon DEF OnceInv
    <2>4. CASE EndTurn(<<>>) /\ followUp' = followUp
      <3>1. UNCHANGED <<queues, next>> /\ phase # "stream"
        BY <2>1, <2>4 DEF queues
      <3> QED BY <1>5, <2>4, <3>1
    <2> QED BY <2>1, <2>2, <2>3, <2>4
  <1>7. ASSUME HookLetsEnd PROVE OnceInv'
    <2>1. EndTurn(<<>>) /\ UNCHANGED <<queues, next>> /\ phase # "stream"
      BY <1>7 DEF HookLetsEnd
    <2> QED BY <1>5, <2>1
  <1> QED BY <1>1, <1>3, <1>4, <1>6, <1>7

\* The session operations: the waiting queues are dropped, and every journal is
\* one that was there, or the front of one.
LEMMA OnceManages ==
  ASSUME ControlInv, OnceInv,
         \/ ResetSession \/ CloneSession
         \/ \E i \in DOMAIN entries : Fork(i)
         \/ \E n \in 0..(Len(entries) - 1) : BranchFails(entries, n)
         \/ \E s \in DOMAIN store : SwitchSession(s)
  PROVE  OnceInv'
  <1>0. Types /\ Control /\ TypeOK
    BY TypesAreOK DEF ControlInv
  <1>1. /\ entries \in Seq(Entry) /\ Len(entries) \in Nat
        /\ DOMAIN entries = 1..Len(entries)
        /\ store \in Seq(Seq(Entry)) /\ DOMAIN store = 1..Len(store)
        /\ next \in Nat
    BY <1>0, SessionAssumption DEF Types
  <1> DEFINE R == Recorded  a == Numbers(Spoken)  b == Numbers(steering)
             c == Numbers(followUp)  d == Numbers(SinkMsgs)
  <1>h. Apart(R, a, b, c, d, next) /\ JournalsDistinct
    BY DEF OnceInv, EachOnce
  <1>g. ASSUME NEW K, K \subseteq R PROVE Apart(K, a, b, c, d, next)
    <2>1. K \subseteq R \cup ((next + 1)..next) /\ next >= next
      BY <1>1, <1>g
    <2> HIDE DEF R, a, b, c, d
    <2> QED BY <1>1, <1>h, <2>1, ApartNew
  <1>d. ASSUME NEW K, K \subseteq R PROVE Apart(K, a, <<>>, <<>>, d, next)
    <2>1. Apart(K, a, b, c, d, next)
      BY <1>d, <1>g
    <2> HIDE DEF R, a, b, c, d
    <2>2. Apart(K, b, a, c, d, next)
      BY <2>1, ApartSwaps
    <2>3. Apart(K, <<>>, a, c, d, next)
      BY <2>2, ApartDrop
    <2>4. Apart(K, c, a, <<>>, d, next)
      BY <2>3, ApartSwaps
    <2>5. Apart(K, <<>>, a, <<>>, d, next)
      BY <2>4, ApartDrop
    <2> QED BY <2>5, ApartSwaps
  <1>2. ASSUME NEW es, Adopt(es), JournalsDistinct', Recorded' \subseteq R
        PROVE  OnceInv'
    <2>1. /\ phase = "idle" /\ phase' = "idle" /\ steering' = <<>> /\ followUp' = <<>>
          /\ UNCHANGED <<run, sink, next>>
      BY <1>2 DEF Adopt
    <2>2. Spoken' = Spoken
      BY <2>1, SpokenSame DEF run
    <2>3. Numbers(<<>>) = <<>>
      BY DEF Numbers
    <2>4. Apart(Recorded', a, <<>>, <<>>, d, next)
      BY <1>2, <1>d
    <2>5. EachOnce'
      BY <2>1, <2>2, <2>3, <2>4 DEF EachOnce, SinkMsgs
    <2> QED BY <1>2, <2>5, Zenon DEF OnceInv
  <1>3. ASSUME NEW es \in Seq(Entry), Distinct(IdSeq(es)), Ids(es) \subseteq R,
               store' = Append(store, es), entries' \in {entries, es}
        PROVE  JournalsDistinct' /\ Recorded' \subseteq R
    <2> DEFINE z == Len(store)
    <2>1. /\ z \in Nat /\ DOMAIN store = 1..z /\ DOMAIN store' = 1..(z + 1)
          /\ \A s \in 1..z : store'[s] = store[s]
          /\ store'[z + 1] = es
      BY <1>1, <1>3
    <2> HIDE DEF z
    <2>2. \A s \in 1..(z + 1) : s \in 1..z \/ s = z + 1
      BY <2>1
    <2>3. JournalsDistinct'
      BY <1>h, <1>3, <2>1, <2>2 DEF JournalsDistinct
    <2>4. Ids(entries) \subseteq R /\ \A s \in 1..z : Ids(store[s]) \subseteq R
      BY <2>1 DEF Recorded
    <2>5. Recorded' \subseteq R
      <3>1. Ids(entries') \subseteq R
        BY <1>3, <2>4
      <3>2. \A s \in DOMAIN store' : Ids(store'[s]) \subseteq R
        BY <1>3, <2>1, <2>2, <2>4
      <3>3. Recorded' = Ids(entries') \union UNION {Ids(store'[s]) : s \in DOMAIN store'}
        BY DEF Recorded
      <3> HIDE DEF R
      <3> QED BY <3>1, <3>2, <3>3
    <2> QED BY <2>3, <2>5
  <1>4. ASSUME NEW es \in Seq(Entry), NEW anc, NewSession(es, anc), Adopt(es),
               Distinct(IdSeq(es)), Ids(es) \subseteq R
        PROVE  OnceInv'
    <2>1. store' = Append(store, es) /\ entries' = es
      BY <1>4 DEF NewSession, Adopt
    <2>2. JournalsDistinct' /\ Recorded' \subseteq R
      BY <1>3, <1>4, <2>1
    <2> QED BY <1>2, <1>4, <2>2
  <1>e. Ids(entries) \subseteq R /\ Distinct(IdSeq(entries))
    BY <1>h DEF Recorded, JournalsDistinct
  <1>5. ASSUME ResetSession PROVE OnceInv'
    <2>1. <<>> \in Seq(Entry) /\ Distinct(IdSeq(<<>>)) /\ Ids(<<>>) \subseteq R
      BY DEF Distinct, IdSeq, Ids
    <2> QED BY <1>4, <1>5, <2>1 DEF ResetSession
  <1>6. ASSUME CloneSession PROVE OnceInv'
    BY <1>1, <1>4, <1>6, <1>e DEF CloneSession
  <1>7. ASSUME NEW i \in DOMAIN entries, Fork(i) PROVE OnceInv'
    <2>1. i - 1 \in 0..Len(entries)
      BY <1>1
    <2>2. /\ SubSeq(entries, 1, i - 1) \in Seq(Entry)
          /\ Distinct(IdSeq(SubSeq(entries, 1, i - 1)))
          /\ Ids(SubSeq(entries, 1, i - 1)) \subseteq Ids(entries)
      BY <1>1, <1>e, <2>1, FrontIds
    <2>3. Ids(SubSeq(entries, 1, i - 1)) \subseteq R
      <3> HIDE DEF R
      <3> QED BY <1>e, <2>2
    <2> QED BY <1>4, <1>7, <2>2, <2>3 DEF Fork
  <1>8. ASSUME NEW n \in 0..(Len(entries) - 1), BranchFails(entries, n)
        PROVE  OnceInv'
    <2>1. /\ store' = Append(store, SubSeq(entries, 1, n)) /\ entries' = entries
          /\ UNCHANGED <<phase, context, run, queues, sink, next>>
      BY <1>8 DEF BranchFails
    <2>2. n \in 0..Len(entries)
      BY <1>1
    <2>3. /\ SubSeq(entries, 1, n) \in Seq(Entry)
          /\ Distinct(IdSeq(SubSeq(entries, 1, n)))
          /\ Ids(SubSeq(entries, 1, n)) \subseteq Ids(entries)
      BY <1>1, <1>e, <2>2, FrontIds
    <2>4. Ids(SubSeq(entries, 1, n)) \subseteq R
      <3> HIDE DEF R
      <3> QED BY <1>e, <2>3
    <2>5. JournalsDistinct' /\ Recorded' \subseteq R
      BY <1>3, <2>1, <2>3, <2>4
    <2>6. Spoken' = Spoken
      BY <2>1, SpokenSame DEF run
    <2>7. Apart(Recorded', a, b, c, d, next)
      BY <1>g, <2>5
    <2>8. EachOnce'
      BY <2>1, <2>6, <2>7 DEF EachOnce, SinkMsgs, queues
    <2> QED BY <2>5, <2>8, Zenon DEF OnceInv
  <1>9. ASSUME NEW s \in DOMAIN store, SwitchSession(s) PROVE OnceInv'
    <2>1. Adopt(store[s]) /\ entries' = store[s] /\ store' = store
      BY <1>9 DEF SwitchSession, Adopt
    <2>2. JournalsDistinct'
      BY <1>h, <2>1 DEF JournalsDistinct
    <2>3. Recorded' \subseteq R
      BY <2>1 DEF Recorded
    <2> QED BY <1>2, <2>1, <2>2, <2>3
  <1> QED BY <1>5, <1>6, <1>7, <1>8, <1>9

LEMMA OnceStep == ControlInv /\ OnceInv /\ [Next]_vars => OnceInv'
  <1> SUFFICES ASSUME ControlInv, OnceInv, [Next]_vars PROVE OnceInv'
    OBVIOUS
  <1>1. CASE Turn
    BY <1>1, OnceQuiet, OnceJournals, OnceEnds, Zenon DEF Turn
  <1>2. CASE Manage
    BY <1>2, OnceJournals, OnceManages, Zenon DEF Manage
  <1>3. CASE Handles
    BY <1>3, OnceQuiet, Zenon DEF Handles
  <1>4. CASE UNCHANGED vars
    <2>1. UNCHANGED <<phase, context, conversation, run, queues, sink, next>>
      BY <1>4 DEF vars
    <2>2. JournalsDistinct' /\ Recorded' = Recorded
      BY <2>1, JournalsSame DEF OnceInv
    <2>3. Spoken' = Spoken
      BY <2>1, SpokenSame DEF run
    <2>4. EachOnce'
      BY <2>1, <2>2, <2>3 DEF OnceInv, EachOnce, SinkMsgs, queues
    <2> QED BY <2>2, <2>4, Zenon DEF OnceInv
  <1> QED BY <1>1, <1>2, <1>3, <1>4 DEF Next

LEMMA OnceHolds == Spec => []OnceInv
  <1> QED BY OnceInit, ControlHolds, OnceStep, PTL DEF Spec

\* No message is recorded twice: prompts are journalled before the loop and left
\* out of what is journalled after it, a drained message is in one place only, and
\* a message that waits is in no journal yet (send_message, run_agent_loop's new
\* messages, drain_queue, ExtensionSink).
THEOREM RecordedOnce == Spec => []PersistedOnce
  <1>1. ControlInv /\ OnceInv => PersistedOnce
    <2> SUFFICES ASSUME ControlInv, OnceInv PROVE PersistedOnce
      OBVIOUS
    <2>1. entries \in Seq(Entry) /\ Distinct(IdSeq(entries))
      BY DEF ControlInv, Types, OnceInv, JournalsDistinct
    <2>2. /\ IdSeq(entries) \in Seq(Nat) /\ Len(IdSeq(entries)) = Len(entries)
          /\ ToSet(IdSeq(entries)) = Ids(entries)
      BY <2>1, IdSeqParts
    <2>3. Cardinality(ToSet(IdSeq(entries))) = Len(IdSeq(entries))
      BY <2>1, <2>2, DistinctCardinality
    <2> QED BY <2>2, <2>3 DEF PersistedOnce
  <1> QED BY <1>1, ControlHolds, OnceHolds, PTL

----------------------------------------------------------------------------
(* What the journal says was said, and the context the model reads. *)

IsSaid == {e \in Entry : e.kind = "message" /\ e.by # "context"}
SaidOf(es) == Messages(Keep(es, IsSaid))
NoCompaction(es) == \A e \in ToSet(es) : e.kind # "compaction"

\* The context has each message once and none that still waits in a queue; while
\* a run is on it ends with what the run has said; and until a compaction what
\* the journal says was said is in it, in order.
ContextApart == Apart({}, Numbers(context), Numbers(steering), Numbers(followUp),
                      <<>>, next)
RunInContext == phase \in Running => \E b \in Seq(Message) : context = b \o Spoken
SaidIsRead   == NoCompaction(entries) => InOrder(SaidOf(store[sid]), context)

ReadInv == ContextApart /\ RunInContext /\ SaidIsRead

LEMMA MessagesAppend ==
  ASSUME NEW es \in Seq(Entry), NEW e \in Entry
  PROVE  Messages(Append(es, e)) = Append(Messages(es), MessageOf(e))
  <1> DEFINE u == Append(es, e)  z == Len(es)
  <1>1. /\ DOMAIN u = 1..(z + 1) /\ DOMAIN es = 1..z /\ z \in Nat
        /\ \A i \in 1..z : u[i] = es[i]
        /\ u[z + 1] = e
    OBVIOUS
  <1>2. Messages(es) \in Seq(Message) /\ Len(Messages(es)) = z
    BY MessagesOfEntries
  <1>3. MessageOf(e) \in Message
    BY DEF MessageOf, Message, Entry
  <1>4. /\ DOMAIN Append(Messages(es), MessageOf(e)) = 1..(z + 1)
        /\ \A i \in 1..z : Append(Messages(es), MessageOf(e))[i] = Messages(es)[i]
        /\ Append(Messages(es), MessageOf(e))[z + 1] = MessageOf(e)
        /\ Append(Messages(es), MessageOf(e)) \in Seq(Message)
        /\ Len(Append(Messages(es), MessageOf(e))) = z + 1
    BY <1>2, <1>3
  <1>5. /\ Messages(u) \in Seq(Message) /\ Len(Messages(u)) = z + 1
        /\ \A i \in 1..(z + 1) : Messages(u)[i] = MessageOf(u[i])
    <2>1. u \in Seq(Entry) /\ Len(u) = z + 1
      OBVIOUS
    <2> HIDE DEF u
    <2> QED BY <2>1, MessagesOfEntries
  <1>6. \A i \in 1..z : Messages(es)[i] = MessageOf(es[i])
    BY MessagesOfEntries
  <1> DEFINE v == Append(Messages(es), MessageOf(e))
  <1> HIDE DEF u, v, z
  <1>7. \A i \in 1..(z + 1) : Messages(u)[i] = v[i]
    <2>1. \A i \in 1..(z + 1) : i \in 1..z \/ i = z + 1
      BY <1>1
    <2> QED BY <1>1, <1>4, <1>5, <1>6, <2>1 DEF v
  <1>8. Messages(u) = v
    BY <1>4, <1>5, <1>7, SeqEqual DEF v
  <1> QED BY <1>8 DEF u, v

LEMMA MessagesConcat ==
  ASSUME NEW es \in Seq(Entry), NEW fs \in Seq(Entry)
  PROVE  Messages(es \o fs) = Messages(es) \o Messages(fs)
  <1> DEFINE P == {u \in Seq(Entry) : Messages(es \o u) = Messages(es) \o Messages(u)}
             k == Messages(es)
  <1>k. k \in Seq(Message)
    BY MessagesOfEntries
  <1>1. <<>> \in P
    <2>1. Messages(<<>>) = <<>>
      BY DEF Messages
    <2>2. es \o <<>> = es /\ <<>> \in Seq(Entry)
      OBVIOUS
    <2>3. k \o <<>> = k
      <3> HIDE DEF k
      <3> QED BY <1>k
    <2> QED BY <2>1, <2>2, <2>3
  <1>2. ASSUME NEW u \in Seq(Entry), NEW x \in Entry, u \in P PROVE Append(u, x) \in P
    <2> DEFINE l == Messages(u)  v == es \o u  m == MessageOf(x)
    <2>1. es \o Append(u, x) = Append(v, x) /\ v \in Seq(Entry) /\ Append(u, x) \in Seq(Entry)
      OBVIOUS
    <2>2. Messages(v) = k \o l
      BY <1>2
    <2>3. l \in Seq(Message) /\ m \in Message
      BY MessagesOfEntries DEF MessageOf, Message, Entry
    <2>4. Messages(Append(v, x)) = Append(k \o l, m)
      BY <2>1, <2>2, MessagesAppend
    <2>5. Messages(Append(u, x)) = Append(l, m)
      BY MessagesAppend
    <2> HIDE DEF k, l, v, m
    <2>6. ASSUME NEW a \in Seq(Message), NEW b \in Seq(Message), NEW c \in Message
          PROVE  Append(a \o b, c) = a \o Append(b, c)
      <3>1. a \o b \in Seq(Message) /\ <<c>> \in Seq(Message)
        OBVIOUS
      <3>2. Append(a \o b, c) = (a \o b) \o <<c>> /\ Append(b, c) = b \o <<c>>
        BY <3>1, AppendIsConcat
      <3>3. (a \o b) \o <<c>> = a \o (b \o <<c>>)
        BY <3>1, ConcatAssociative
      <3> QED BY <3>2, <3>3
    <2>8. Append(k \o l, m) = k \o Append(l, m)
      BY <1>k, <2>3, <2>6
    <2>7. Messages(es \o Append(u, x)) = k \o Messages(Append(u, x))
      BY <2>1, <2>4, <2>5, <2>8
    <2> QED BY <2>1, <2>7 DEF k
  <1> HIDE DEF P
  <1>3. Seq(Entry) \subseteq P
    BY <1>1, <1>2, SequenceInduction
  <1> QED BY <1>3 DEF P

\* Keeping entries is keeping their messages.
LEMMA KeepMessages ==
  ASSUME NEW es \in Seq(Entry), NEW T, NEW M,
         \A e \in ToSet(es) : MessageOf(e) \in M <=> e \in T
  PROVE  Keep(Messages(es), M) = Messages(Keep(es, T))
  <1> DEFINE P == {u \in Seq(Entry) :
                     (\A e \in ToSet(u) : MessageOf(e) \in M <=> e \in T) =>
                     Keep(Messages(u), M) = Messages(Keep(u, T))}
  <1>1. <<>> \in P
    <2>1. Messages(<<>>) = <<>> /\ Keep(<<>>, T) = <<>> /\ Keep(<<>>, M) = <<>>
      BY KeepEmpty DEF Messages
    <2>2. <<>> \in Seq(Entry)
      OBVIOUS
    <2> QED BY <2>1, <2>2
  <1>2. ASSUME NEW u \in Seq(Entry), NEW x \in Entry, u \in P PROVE Append(u, x) \in P
    <2> SUFFICES ASSUME \A e \in ToSet(Append(u, x)) : MessageOf(e) \in M <=> e \in T
                 PROVE  Keep(Messages(Append(u, x)), M) = Messages(Keep(Append(u, x), T))
      OBVIOUS
    <2>1. ToSet(Append(u, x)) = ToSet(u) \cup {x}
      BY DistinctAppend
    <2>2. Keep(Messages(u), M) = Messages(Keep(u, T))
      BY <1>2, <2>1
    <2>3. MessageOf(x) \in M <=> x \in T
      BY <2>1
    <2>4. /\ Messages(u) \in Seq(Message) /\ MessageOf(x) \in Message
          /\ Keep(u, T) \in Seq(Entry)
      BY MessagesOfEntries, KeepInSeq DEF MessageOf, Message, Entry
    <2>5. Keep(Messages(Append(u, x)), M) =
            IF MessageOf(x) \in M THEN Append(Keep(Messages(u), M), MessageOf(x))
            ELSE Keep(Messages(u), M)
      <3>1. Messages(Append(u, x)) = Append(Messages(u), MessageOf(x))
        BY MessagesAppend
      <3>2. Keep(Append(Messages(u), MessageOf(x)), M) =
              IF MessageOf(x) \in M THEN Append(Keep(Messages(u), M), MessageOf(x))
              ELSE Keep(Messages(u), M)
        BY <2>4, KeepAppend
      <3> QED BY <3>1, <3>2
    <2>6. Keep(Append(u, x), T) = IF x \in T THEN Append(Keep(u, T), x) ELSE Keep(u, T)
      BY KeepAppend
    <2>7. Messages(Append(Keep(u, T), x)) = Append(Messages(Keep(u, T)), MessageOf(x))
      BY <2>4, MessagesAppend
    <2> QED BY <2>2, <2>3, <2>5, <2>6, <2>7
  <1> HIDE DEF P
  <1>3. Seq(Entry) \subseteq P
    BY <1>1, <1>2, SequenceInduction
  <1> QED BY <1>3 DEF P

\* What was said is part of what build_context makes of a journal.
LEMMA RebuildReads ==
  ASSUME NEW es \in Seq(Entry), Distinct(IdSeq(es)), NoCompaction(es)
  PROVE  InOrder(SaidOf(es), BuildContext(es))
  <1> DEFINE C == {e \in ToSet(es) : InContext(e)}
             fs == Keep(es, C)
             M == ToSet(SaidOf(es))
  <1>1. fs \in Seq(Entry) /\ ToSet(fs) = ToSet(es) \cap C
    BY KeepInSeq, KeepElements
  <1>2. BuildContext(es) = Messages(fs)
    <2>1. ~\E i \in 1..Len(es) : es[i].kind = "compaction"
      <3>1. DOMAIN es = 1..Len(es)
        OBVIOUS
      <3> QED BY <3>1 DEF NoCompaction, ToSet
    <2> QED BY <2>1, BuildContextIs DEF Those
  <1>3. /\ Keep(es, IsSaid) \in Seq(Entry) /\ ToSet(Keep(es, IsSaid)) = ToSet(es) \cap IsSaid
    BY KeepInSeq, KeepElements
  <1>4. M = {MessageOf(e) : e \in ToSet(es) \cap IsSaid}
    BY <1>3 DEF SaidOf, Messages, ToSet
  <1>5. \A e, f \in ToSet(es) : MessageOf(e) = MessageOf(f) => e = f
    <2>1. \A e, f \in ToSet(es) : e.id = f.id => e = f
      BY DEF Distinct, IdSeq, ToSet
    <2>2. \A e, f : MessageOf(e) = MessageOf(f) => e.id = f.id
      <3>1. \A e : MessageOf(e).n = e.id
        BY DEF MessageOf
      <3> QED BY <3>1, Zenon
    <2> QED BY <2>1, <2>2
  <1>6. \A e \in ToSet(fs) : MessageOf(e) \in M <=> e \in IsSaid
    <2> HIDE DEF C, fs, M
    <2> QED BY <1>1, <1>4, <1>5
  <1>7. Keep(Messages(fs), M) = Messages(Keep(fs, IsSaid))
    <2> HIDE DEF C, fs, M
    <2> QED BY <1>1, <1>6, KeepMessages
  <1>8. Keep(fs, IsSaid) = Keep(es, C \cap IsSaid)
    BY KeepTwice
  <1>9. Keep(es, C \cap IsSaid) = Keep(es, IsSaid)
    <2>1. ToSet(es) \cap (C \cap IsSaid) = ToSet(es) \cap IsSaid
      BY DEF IsSaid, InContext
    <2> QED BY <2>1, KeepSame
  <1>10. Keep(BuildContext(es), M) = SaidOf(es)
    BY <1>2, <1>7, <1>8, <1>9 DEF SaidOf
  <1> QED BY <1>10 DEF InOrder

----------------------------------------------------------------------------
(* InOrder, as the context grows. *)

LEMMA InOrderPads ==
  ASSUME NEW s \in Seq(Message), NEW c \in Seq(Message), NEW p \in Seq(Message),
         ToSet(s) \cap ToSet(p) = {}
  PROVE  InOrder(s, c \o p) <=> InOrder(s, c)
  <1>1. Keep(c \o p, ToSet(s)) = Keep(c, ToSet(s)) \o Keep(p, ToSet(s))
    BY KeepConcat
  <1>2. Keep(p, ToSet(s)) = <<>>
    BY KeepNone
  <1>3. Keep(c, ToSet(s)) \in Seq(Message)
    BY KeepInSeq
  <1>4. Keep(c, ToSet(s)) \o <<>> = Keep(c, ToSet(s))
    BY <1>3
  <1> QED BY <1>1, <1>2, <1>4 DEF InOrder

LEMMA InOrderGrows ==
  ASSUME NEW s \in Seq(Message), NEW c \in Seq(Message), NEW p \in Seq(Message),
         ToSet(s) \cap ToSet(p) = {}, ToSet(c) \cap ToSet(p) = {}, InOrder(s, c),
         NEW M
  PROVE  InOrder(s \o Keep(p, M), c \o p)
  <1> DEFINE k == Keep(p, M)  U == ToSet(s \o k)
  <1>1. k \in Seq(Message) /\ ToSet(k) = ToSet(p) \cap M
    BY KeepInSeq, KeepElements
  <1> HIDE DEF k
  <1>2. U = ToSet(s) \cup ToSet(k)
    BY <1>1, ConcatElements
  <1> HIDE DEF U
  <1>3. Keep(c \o p, U) = Keep(c, U) \o Keep(p, U)
    BY KeepConcat
  <1>4. Keep(c, U) = s
    <2>1. ToSet(c) \cap U = ToSet(c) \cap ToSet(s)
      BY <1>1, <1>2
    <2>2. Keep(c, U) = Keep(c, ToSet(s))
      BY <2>1, KeepSame
    <2> QED BY <2>2 DEF InOrder
  <1>5. Keep(p, U) = k
    <2>1. ToSet(p) \cap U = ToSet(p) \cap M
      BY <1>1, <1>2
    <2>2. Keep(p, U) = Keep(p, M)
      BY <2>1, KeepSame
    <2> QED BY <2>2 DEF k
  <1>6. Keep(c \o p, U) = s \o k
    BY <1>3, <1>4, <1>5
  <1> QED BY <1>6 DEF InOrder, U, k

\* Messages with different numbers are different.
LEMMA NumbersApart ==
  ASSUME NEW s \in Seq(Message), NEW p \in Seq(Message),
         ToSet(Numbers(s)) \cap ToSet(Numbers(p)) = {}
  PROVE  ToSet(s) \cap ToSet(p) = {}
  <1> SUFFICES ASSUME NEW m \in ToSet(s), m \in ToSet(p) PROVE FALSE
    OBVIOUS
  <1>1. m.n \in ToSet(Numbers(s)) /\ m.n \in ToSet(Numbers(p))
    BY DEF Numbers, ToSet
  <1> QED BY <1>1

LEMMA SaidParts ==
  ASSUME NEW es \in Seq(Entry)
  PROVE  SaidOf(es) \in Seq(Message) /\ ToSet(Numbers(SaidOf(es))) \subseteq Ids(es)
  <1> DEFINE k == Keep(es, IsSaid)
  <1>1. k \in Seq(Entry) /\ ToSet(k) \subseteq ToSet(es)
    BY KeepInSeq, KeepElements
  <1> HIDE DEF k
  <1>2. Messages(k) \in Seq(Message)
    BY <1>1, MessagesOfEntries
  <1>3. Numbers(Messages(k)) = IdSeq(k)
    BY DEF Numbers, Messages, MessageOf, IdSeq
  <1>4. ToSet(IdSeq(k)) \subseteq Ids(es)
    <2>1. \A i \in DOMAIN k : \E j \in DOMAIN es : k[i] = es[j]
      BY <1>1 DEF ToSet
    <2> QED BY <2>1 DEF IdSeq, ToSet, Ids
  <1> QED BY <1>2, <1>3, <1>4 DEF SaidOf, k

----------------------------------------------------------------------------
(* Every message is in the context once. *)

LEMMA SameApart ==
  ASSUME ContextApart, UNCHANGED <<context, steering, followUp>>, next' \in Nat,
         next' >= next
  PROVE  ContextApart'
  <1>1. Apart({}, Numbers(context), Numbers(steering), Numbers(followUp), <<>>, next')
    BY ApartNew DEF ContextApart
  <1> QED BY <1>1 DEF ContextApart

LEMMA AppendApart ==
  ASSUME TypeOK, ContextApart, Make(1), NEW by \in Authors,
         context' = Append(context, Msg(1, by)), UNCHANGED <<steering, followUp>>
  PROVE  ContextApart'
  <1>1. /\ Msg(1, by) \in Message /\ Msg(1, by).n = next + 1 /\ next' = next + 1
        /\ context \in Seq(Message)
    BY FreshMessage DEF TypeOK
  <1>2. Numbers(context') = Append(Numbers(context), next + 1)
    BY <1>1, NumbersAppend
  <1>3. Apart({}, Append(Numbers(context), next + 1), Numbers(steering),
              Numbers(followUp), <<>>, next + 1)
    BY ApartAppend DEF ContextApart
  <1> QED BY <1>1, <1>2, <1>3 DEF ContextApart

LEMMA ContextQuiet ==
  ASSUME ControlInv, ContextApart,
         \/ Send \/ HookCancels \/ LoopFails \/ Timeout \/ Compact \/ Abort
         \/ Summarised \/ SetInfo \/ HookLetsEnd
         \/ \E m \in BOOLEAN : StreamDone(m)
         \/ \E k \in {"custom", "custom_message"} : ExtensionWrites(k)
         \/ \E c \in BOOLEAN : \E i \in 1..2 : PromptNotSaved(c, i)
         \/ \E n \in 0..(Len(entries) - 1) : BranchFails(entries, n)
  PROVE  ContextApart'
  <1>1. next \in Nat
    BY SessionAssumption DEF ControlInv, Types
  <1> USE DEF queues
  <1>2. ASSUME Send \/ HookCancels \/ LoopFails \/ Timeout \/ Compact \/ Abort \/ HookLetsEnd
        PROVE  ContextApart'
    <2>1. UNCHANGED <<context, steering, followUp, next>>
      BY <1>2 DEF Send, HookCancels, LoopFails, Timeout, Compact, Abort, HookLetsEnd
    <2> QED BY <1>1, <2>1, SameApart
  <1>3. ASSUME Summarised \/ SetInfo PROVE ContextApart'
    <2>1. UNCHANGED <<context, steering, followUp>> /\ Make(1)
      BY <1>3 DEF Summarised, SetInfo
    <2>2. next' = next + 1
      BY <2>1 DEF Make
    <2> QED BY <1>1, <2>1, <2>2, SameApart
  <1>4. ASSUME NEW m \in BOOLEAN, StreamDone(m) PROVE ContextApart'
    <2>1. UNCHANGED <<context, steering, followUp, next>>
      BY <1>4 DEF StreamDone
    <2> QED BY <1>1, <2>1, SameApart
  <1>5. ASSUME NEW k \in {"custom", "custom_message"}, ExtensionWrites(k)
        PROVE  ContextApart'
    <2>1. UNCHANGED <<context, steering, followUp>> /\ next' = next + 1
      BY <1>5 DEF ExtensionWrites, Make
    <2> QED BY <1>1, <2>1, SameApart
  <1>6. ASSUME NEW c \in BOOLEAN, NEW i \in 1..2, PromptNotSaved(c, i)
        PROVE  ContextApart'
    <2>1. UNCHANGED <<context, steering, followUp>> /\ next' = next + i
      BY <1>6 DEF PromptNotSaved, Make
    <2> QED BY <1>1, <2>1, SameApart
  <1>7. ASSUME NEW n \in 0..(Len(entries) - 1), BranchFails(entries, n)
        PROVE  ContextApart'
    <2>1. UNCHANGED <<context, steering, followUp, next>>
      BY <1>7 DEF BranchFails
    <2> QED BY <1>1, <2>1, SameApart
  <1> QED BY <1>2, <1>3, <1>4, <1>5, <1>6, <1>7

LEMMA ContextGrows ==
  ASSUME ControlInv, ContextApart,
         \/ Poll \/ RequestAborted \/ Request \/ StreamBreaks \/ PollFollowUp
         \/ HookContinues \/ EnqueueSteer \/ EnqueueFollowUp
         \/ \E c \in BOOLEAN : BeginTurn(c)
  PROVE  ContextApart'
  <1>0. Types /\ Control /\ TypeOK
    BY TypesAreOK DEF ControlInv
  <1>1. /\ context \in Seq(Message) /\ steering \in Seq(Message)
        /\ followUp \in Seq(Message) /\ next \in Nat
    BY <1>0, SessionAssumption DEF Types
  <1> DEFINE a == Numbers(context)  b == Numbers(steering)  c == Numbers(followUp)
  <1>h. Apart({}, a, b, c, <<>>, next)
    BY DEF ContextApart
  <1> USE DEF queues
  <1>2. ASSUME Poll PROVE ContextApart'
    <2> DEFINE got == IF cancelled THEN <<>> ELSE Drained(steering)
    <2>1. /\ context' = context \o got /\ UNCHANGED <<followUp, next>>
          /\ steering' = IF cancelled THEN steering ELSE Rest(steering)
      BY <1>2 DEF Poll
    <2>2. got \in Seq(Message) /\ steering' \in Seq(Message) /\ got \o steering' = steering
      <3>1. <<>> \o steering = steering /\ <<>> \in Seq(Message)
        BY <1>1
      <3> QED BY <1>1, <2>1, <3>1, DrainedParts
    <2> HIDE DEF got
    <2>3. Numbers(context') = a \o Numbers(got) /\ b = Numbers(got) \o Numbers(steering')
      <3>1. Numbers(context \o got) = Numbers(context) \o Numbers(got)
        BY <1>1, <2>2, NumbersConcat, Zenon
      <3>2. Numbers(got \o steering') = Numbers(got) \o Numbers(steering')
        BY <2>2, NumbersConcat, Zenon
      <3> QED BY <2>1, <2>2, <3>1, <3>2
    <2>4. Numbers(got) \in Seq(Nat) /\ Numbers(steering') \in Seq(Nat)
      BY <2>2, NumbersParts
    <2>5. Apart({}, a \o Numbers(got), Numbers(steering'), c, <<>>, next)
      BY <1>h, <2>3, <2>4, ApartMove
    <2> QED BY <2>1, <2>3, <2>5 DEF ContextApart
  <1>3. ASSUME NEW got, got = Drained(followUp), followUp' = Rest(followUp),
               context' = context \o got, UNCHANGED <<steering, next>>
        PROVE  ContextApart'
    <2>1. got \in Seq(Message) /\ followUp' \in Seq(Message) /\ got \o followUp' = followUp
      BY <1>1, <1>3, DrainedParts
    <2>2. Numbers(context') = a \o Numbers(got) /\ c = Numbers(got) \o Numbers(followUp')
      <3>1. Numbers(context \o got) = Numbers(context) \o Numbers(got)
        BY <1>1, <2>1, NumbersConcat, Zenon
      <3>2. Numbers(got \o followUp') = Numbers(got) \o Numbers(followUp')
        BY <2>1, NumbersConcat, Zenon
      <3> QED BY <1>3, <2>1, <3>1, <3>2
    <2>3. Numbers(got) \in Seq(Nat) /\ Numbers(followUp') \in Seq(Nat)
      BY <2>1, NumbersParts
    <2>4. Apart({}, a \o Numbers(got), b, Numbers(followUp'), <<>>, next)
      BY <1>h, <2>2, <2>3, ApartMoveThird
    <2> QED BY <1>3, <2>2, <2>4 DEF ContextApart
  <1>4. ASSUME PollFollowUp PROVE ContextApart'
    <2>1. PICK hook : FollowUpOrEnd(hook)
      BY <1>4, Zenon DEF PollFollowUp
    <2>2. /\ UNCHANGED <<steering, next>>
          /\ \/ Resume(Drained(followUp)) /\ followUp' = Rest(followUp)
             \/ UNCHANGED <<context, followUp>>
      BY <2>1 DEF FollowUpOrEnd
    <2>3. CASE Resume(Drained(followUp)) /\ followUp' = Rest(followUp)
      BY <1>3, <2>2, <2>3 DEF Resume
    <2>4. CASE UNCHANGED <<context, followUp>>
      BY <1>1, <2>2, <2>4, SameApart
    <2> QED BY <2>2, <2>3, <2>4
  <1>5. ASSUME RequestAborted PROVE ContextApart'
    <2>1. /\ context' = Append(context, Msg(1, "aborted")) /\ Make(1)
          /\ UNCHANGED <<steering, followUp>>
      BY <1>5 DEF RequestAborted
    <2> QED BY <1>0, <2>1, AppendApart DEF Authors
  <1>6. ASSUME Request PROVE ContextApart'
    <2>1. /\ context' = Append(context, Msg(1, "assistant")) /\ Make(1)
          /\ UNCHANGED <<steering, followUp>>
      BY <1>6 DEF Request
    <2> QED BY <1>0, <2>1, AppendApart DEF Authors
  <1>7. ASSUME HookContinues PROVE ContextApart'
    <2>1. /\ context' = context \o <<Msg(1, "hook")>> /\ Make(1)
          /\ UNCHANGED <<steering, followUp>>
      BY <1>7 DEF HookContinues, Resume
    <2>2. Msg(1, "hook") \in Message
      BY <1>0, <2>1, FreshMessage DEF Authors
    <2>3. context' = Append(context, Msg(1, "hook"))
      BY <1>1, <2>1, <2>2, AppendIsConcat
    <2> QED BY <1>0, <2>1, <2>3, AppendApart DEF Authors
  <1>8. ASSUME StreamBreaks PROVE ContextApart'
    <2>1. /\ phase = "stream" /\ context' = [context EXCEPT ![Len(context)] = Broken]
          /\ UNCHANGED <<steering, followUp, next>>
      BY <1>8, Zenon DEF StreamBreaks, Broken
    <2>2. context # <<>>
      BY <1>0, <2>1 DEF Control, StreamHasContext
    <2>3. /\ Broken \in Message /\ Broken.n = Last(context).n
          /\ Last(context) = context[Len(context)] /\ Len(context) \in DOMAIN context
      BY <1>0, <2>2, BrokenParts
    <2>4. Numbers(context') = a
      <3>1. /\ DOMAIN context' = DOMAIN context
            /\ \A i \in DOMAIN context :
                 context'[i] = IF i = Len(context) THEN Broken ELSE context[i]
        BY <1>1, <2>1
      <3>2. \A i \in DOMAIN context : context'[i].n = context[i].n
        BY <2>3, <3>1
      <3> QED BY <3>1, <3>2 DEF Numbers
    <2> QED BY <1>h, <2>1, <2>4 DEF ContextApart
  <1>9. ASSUME EnqueueSteer PROVE ContextApart'
    <2>1. /\ Make(1) /\ steering' = Append(steering, Msg(1, "user"))
          /\ UNCHANGED <<context, followUp>>
      BY <1>9 DEF EnqueueSteer
    <2>2. /\ Msg(1, "user") \in Message /\ Msg(1, "user").n = next + 1
          /\ next' = next + 1
      BY <1>0, <2>1, FreshMessage DEF Authors
    <2>3. Numbers(steering') = Append(b, next + 1)
      BY <1>1, <2>1, <2>2, NumbersAppend
    <2>4. Apart({}, a, Append(b, next + 1), c, <<>>, next + 1)
      <3>1. Apart({}, b, a, c, <<>>, next)
        BY <1>h, ApartSwaps
      <3>2. Apart({}, Append(b, next + 1), a, c, <<>>, next + 1)
        BY <3>1, ApartAppend
      <3> QED BY <3>2, ApartSwaps
    <2> QED BY <2>1, <2>2, <2>3, <2>4 DEF ContextApart
  <1>10. ASSUME EnqueueFollowUp PROVE ContextApart'
    <2>1. /\ Make(1) /\ followUp' = Append(followUp, Msg(1, "user"))
          /\ UNCHANGED <<context, steering>>
      BY <1>10 DEF EnqueueFollowUp
    <2>2. /\ Msg(1, "user") \in Message /\ Msg(1, "user").n = next + 1
          /\ next' = next + 1
      BY <1>0, <2>1, FreshMessage DEF Authors
    <2>3. Numbers(followUp') = Append(c, next + 1)
      BY <1>1, <2>1, <2>2, NumbersAppend
    <2>4. Apart({}, a, b, Append(c, next + 1), <<>>, next + 1)
      <3>1. Apart({}, c, b, a, <<>>, next)
        BY <1>h, ApartSwaps
      <3>2. Apart({}, Append(c, next + 1), b, a, <<>>, next + 1)
        BY <3>1, ApartAppend
      <3> QED BY <3>2, ApartSwaps
    <2> QED BY <2>1, <2>2, <2>3, <2>4 DEF ContextApart
  <1>11. ASSUME NEW w \in BOOLEAN, BeginTurn(w) PROVE ContextApart'
    <2> DEFINE p == Prompts(w)
    <2>1. /\ context' = context \o p /\ Make(Len(p)) /\ UNCHANGED <<steering, followUp>>
      BY <1>11 DEF BeginTurn, Launch
    <2>2. Len(p) \in Nat /\ Len(p) = IF w THEN 2 ELSE 1
      BY DEF Prompts
    <2>3. p \in Seq(Message) /\ next' = next + Len(p)
      BY <1>0, <2>1, <2>2, MadeNext, AllPrompts DEF Make
    <2>4. Numbers(p) = IF w THEN <<next + 1, next + 2>> ELSE <<next + 1>>
      BY DEF Prompts, Numbers, Msg
    <2>5. Numbers(context') = a \o Numbers(p) /\ a \in Seq(Nat)
      BY <1>1, <2>1, <2>3, NumbersConcat, NumbersParts
    <2>6. Apart({}, Append(a, next + 1), b, c, <<>>, next + 1)
      BY <1>h, ApartAppend
    <2>7. CASE w
      <3>1. Apart({}, Append(Append(a, next + 1), (next + 1) + 1), b, c, <<>>,
                  (next + 1) + 1)
        BY <2>6, ApartAppend
      <3>2. (next + 1) + 1 = next + 2 /\ next + 1 \in Nat /\ next + 2 \in Nat
        BY <1>1
      <3> HIDE DEF a
      <3>3. a \o <<next + 1, next + 2>> = Append(Append(a, next + 1), next + 2)
        BY <2>5, <3>2
      <3>4. Numbers(context') = Append(Append(a, next + 1), next + 2) /\ next' = next + 2
        BY <2>2, <2>3, <2>4, <2>5, <2>7, <3>3
      <3> QED BY <2>1, <3>1, <3>2, <3>4 DEF ContextApart
    <2>8. CASE ~w
      <3> HIDE DEF a
      <3>1. a \o <<next + 1>> = Append(a, next + 1)
        BY <1>1, <2>5, AppendIsConcat
      <3>2. Numbers(context') = Append(a, next + 1) /\ next' = next + 1
        BY <2>2, <2>3, <2>4, <2>5, <2>8, <3>1
      <3> QED BY <2>1, <2>6, <3>2 DEF ContextApart
    <2> QED BY <2>7, <2>8
  <1> QED BY <1>2, <1>4, <1>5, <1>6, <1>7, <1>8, <1>9, <1>10, <1>11

\* A context rebuilt from a journal has each of its messages once.
LEMMA ContextRebuilt ==
  ASSUME NEW es \in Seq(Entry), Distinct(IdSeq(es)), NEW n \in Nat, Ids(es) \subseteq 1..n
  PROVE  Apart({}, Numbers(BuildContext(es)), <<>>, <<>>, <<>>, n)
  <1>1. ASSUME NEW a \in Seq(Nat), Distinct(a), ToSet(a) \subseteq 1..n
        PROVE  Apart({}, a, <<>>, <<>>, <<>>, n)
    BY <1>1, EmptyIsDistinct DEF Apart
  <1> DEFINE k == Those(es, InContext)
  <1>2. k \in Seq(Entry) /\ Distinct(IdSeq(k)) /\ Ids(k) \subseteq Ids(es)
    BY KeptIds DEF Those
  <1>3. BuildContext(es) = <<>> \/ BuildContext(es) = Messages(k)
    BY BuildContextIs
  <1> HIDE DEF k
  <1>4. Numbers(Messages(k)) = IdSeq(k)
    BY DEF Numbers, Messages, MessageOf, IdSeq
  <1>5. IdSeq(k) \in Seq(Nat) /\ ToSet(IdSeq(k)) = Ids(k)
    BY <1>2, IdSeqParts
  <1>6. CASE BuildContext(es) = Messages(k)
    BY <1>1, <1>2, <1>4, <1>5, <1>6
  <1>7. CASE BuildContext(es) = <<>>
    <2>1. Numbers(<<>>) = <<>> /\ ToSet(<<>>) \subseteq 1..n
      BY EmptyIsDistinct DEF Numbers
    <2> QED BY <1>1, <1>7, <2>1, EmptyIsDistinct
  <1> QED BY <1>3, <1>6, <1>7

\* A session adopted: nothing waits, and its journal gives its context.
LEMMA ReadAdopts ==
  ASSUME ControlInv, NEW es \in Seq(Entry), Adopt(es), Distinct(IdSeq(es)),
         Ids(es) \subseteq 1..next, store'[sid'] = es
  PROVE  ReadInv'
  <1>1. /\ phase' = "idle" /\ entries' = es /\ context' = BuildContext(es)
        /\ steering' = <<>> /\ followUp' = <<>> /\ next' = next
    BY DEF Adopt
  <1>2. next \in Nat
    BY SessionAssumption DEF ControlInv, Types
  <1>3. ContextApart'
    <2>1. Numbers(<<>>) = <<>>
      BY DEF Numbers
    <2> QED BY <1>1, <1>2, <2>1, ContextRebuilt DEF ContextApart
  <1>4. RunInContext'
    BY <1>1 DEF RunInContext, Running
  <1>5. SaidIsRead'
    BY <1>1, RebuildReads DEF SaidIsRead
  <1> QED BY <1>3, <1>4, <1>5 DEF ReadInv

LEMMA ReadManages ==
  ASSUME ControlInv, OnceInv, ReadInv,
         \/ ResetSession \/ CloneSession
         \/ \E i \in DOMAIN entries : Fork(i)
         \/ \E s \in DOMAIN store : SwitchSession(s)
  PROVE  ReadInv'
  <1>0. Types
    BY DEF ControlInv
  <1>1. /\ entries \in Seq(Entry) /\ DOMAIN entries = 1..Len(entries)
        /\ Len(entries) \in Nat
        /\ store \in Seq(Seq(Entry)) /\ DOMAIN store = 1..Len(store)
    BY <1>0 DEF Types
  <1>2. /\ Distinct(IdSeq(entries)) /\ Ids(entries) \subseteq 1..next
        /\ \A s \in DOMAIN store : Distinct(IdSeq(store[s])) /\ Ids(store[s]) \subseteq 1..next
    <2>1. Recorded \subseteq 1..next
      BY DEF OnceInv, EachOnce, Apart
    <2> QED BY <2>1 DEF OnceInv, JournalsDistinct, Recorded
  <1>3. ASSUME NEW es \in Seq(Entry), NEW anc, NewSession(es, anc), Adopt(es),
               Distinct(IdSeq(es)), Ids(es) \subseteq 1..next
        PROVE  ReadInv'
    <2>1. store' = Append(store, es) /\ sid' = Len(store')
      BY <1>3 DEF NewSession
    <2>2. store'[sid'] = es
      BY <1>1, <2>1
    <2> QED BY <1>3, <2>2, ReadAdopts
  <1>4. ASSUME ResetSession PROVE ReadInv'
    <2>1. <<>> \in Seq(Entry) /\ Distinct(IdSeq(<<>>)) /\ Ids(<<>>) \subseteq 1..next
      BY DEF Distinct, IdSeq, Ids
    <2> QED BY <1>3, <1>4, <2>1 DEF ResetSession
  <1>5. ASSUME CloneSession PROVE ReadInv'
    BY <1>1, <1>2, <1>3, <1>5 DEF CloneSession
  <1>6. ASSUME NEW i \in DOMAIN entries, Fork(i) PROVE ReadInv'
    <2>1. i - 1 \in 0..Len(entries)
      BY <1>1
    <2>2. /\ SubSeq(entries, 1, i - 1) \in Seq(Entry)
          /\ Distinct(IdSeq(SubSeq(entries, 1, i - 1)))
          /\ Ids(SubSeq(entries, 1, i - 1)) \subseteq Ids(entries)
      BY <1>1, <1>2, <2>1, FrontIds
    <2>3. Ids(SubSeq(entries, 1, i - 1)) \subseteq 1..next
      BY <1>2, <2>2
    <2> QED BY <1>3, <1>6, <2>2, <2>3 DEF Fork
  <1>7. ASSUME NEW s \in DOMAIN store, SwitchSession(s) PROVE ReadInv'
    <2>1. Adopt(store[s]) /\ sid' = s /\ store' = store /\ store[s] \in Seq(Entry)
      BY <1>1, <1>7 DEF SwitchSession
    <2>2. store'[sid'] = store[s]
      BY <2>1
    <2> QED BY <1>2, <2>1, <2>2, ReadAdopts
  <1> QED BY <1>4, <1>5, <1>6, <1>7

----------------------------------------------------------------------------
(* A run is the end of the context. *)

LEMMA RunInContextStep ==
  ASSUME ControlInv, RunInContext, Turn \/ Handles \/ SetInfo
         \/ \E n \in 0..(Len(entries) - 1) : BranchFails(entries, n)
  PROVE  RunInContext'
  <1>0. Types /\ Control /\ TypeOK
    BY TypesAreOK DEF ControlInv
  <1>1. /\ context \in Seq(Message) /\ steering \in Seq(Message)
        /\ followUp \in Seq(Message) /\ produced \in Seq(Message)
    BY <1>0 DEF Types
  <1>e. <<>> \in Seq(Message)
    OBVIOUS
  <1>o. AfterPrompts(produced) \in Seq(Message)
    BY <1>0, <1>e, AfterPromptsParts
  <1>2. ASSUME phase' = phase \/ phase' \notin Running, UNCHANGED <<produced, promptsLen, context>>
        PROVE  RunInContext'
    BY <1>2, SpokenSame DEF RunInContext
  <1>3. ASSUME phase' \notin Running PROVE RunInContext'
    BY <1>3 DEF RunInContext
  <1>4. ASSUME NEW y \in Seq(Message), phase \in Running, context' = context \o y,
               Spoken \in Seq(Message), Spoken' = Spoken \o y
        PROVE  RunInContext'
    <2>1. PICK b \in Seq(Message) : context = b \o Spoken
      BY <1>4 DEF RunInContext
    <2>2. (b \o Spoken) \o y = b \o (Spoken \o y)
      BY <1>4, <2>1, ConcatAssociative
    <2>3. context' = b \o Spoken'
      BY <1>4, <2>1, <2>2
    <2> QED BY <2>3 DEF RunInContext
  <1> USE DEF run
  <1>5. ASSUME Send \/ HookCancels \/ LoopFails \/ Timeout \/ RequestAborted \/ StreamBreaks
               \/ HookLetsEnd \/ Compact \/ Summarised
        PROVE  RunInContext'
    <2>1. ASSUME NEW new, EndTurn(new) PROVE phase' \notin Running
      BY <2>1 DEF EndTurn, JournalTurn, Running
    <2>2. phase' \notin Running
      BY <1>5, <2>1 DEF Send, HookCancels, LoopFails, Timeout, RequestAborted,
         StreamBreaks, HookLetsEnd, Compact, Summarised, Running
    <2> QED BY <1>3, <2>2
  <1>6. ASSUME NEW c \in BOOLEAN, BeginTurn(c) PROVE RunInContext'
    <2> DEFINE p == Prompts(c)
    <2>1. /\ context' = context \o p /\ Make(Len(p)) /\ produced' = p
          /\ promptsLen' = Len(p) /\ phase' = "poll"
      BY <1>6 DEF BeginTurn, Launch
    <2>2. Len(p) \in Nat
      BY DEF Prompts
    <2>3. p \in Seq(Message)
      BY <1>0, <2>1, <2>2, MadeNext, AllPrompts
    <2> HIDE DEF p
    <2>4. Spoken' = <<>>
      <3>1. SubSeq(p, Len(p) + 1, Len(p)) = <<>>
        BY <2>2, <2>3
      <3> QED BY <2>1, <3>1 DEF Spoken, Partial, AfterPrompts
    <2>5. context' \in Seq(Message) /\ context' = context' \o <<>>
      BY <1>1, <2>1, <2>3
    <2> QED BY <2>4, <2>5 DEF RunInContext
  <1>7. ASSUME NEW c \in BOOLEAN, NEW i \in 1..2, PromptNotSaved(c, i)
        PROVE  RunInContext'
    <2>1. phase' \notin Running
      BY <1>7 DEF PromptNotSaved, Running
    <2> QED BY <1>3, <2>1
  <1>8. ASSUME NEW y \in Seq(Message), phase \in Running, phase # "stream",
               phase' # "stream", context' = context \o y, produced' = produced \o y,
               promptsLen' = promptsLen
        PROVE  RunInContext'
    <2>1. Spoken = AfterPrompts(produced) /\ Spoken' = AfterPrompts(produced) \o y
      BY <1>0, <1>8, SpokenOutside, SpokenAdds
    <2> QED BY <1>4, <1>8, <1>o, <2>1
  <1>9. ASSUME Poll PROVE RunInContext'
    <2> DEFINE got == IF cancelled THEN <<>> ELSE Drained(steering)
    <2>1. /\ context' = context \o got /\ produced' = produced \o got
          /\ promptsLen' = promptsLen /\ phase = "poll" /\ phase' # "stream"
      BY <1>9 DEF Poll
    <2>2. got \in Seq(Message)
      BY <1>1, <1>e, DrainedParts
    <2> HIDE DEF got
    <2> QED BY <1>8, <2>1, <2>2 DEF Running
  <1>10. ASSUME Request PROVE RunInContext'
    <2>1. /\ context' = Append(context, Msg(1, "assistant")) /\ Make(1)
          /\ phase = "request" /\ phase' = "stream"
          /\ UNCHANGED <<produced, promptsLen>>
      BY <1>10 DEF Request
    <2>2. Msg(1, "assistant") \in Message /\ <<Msg(1, "assistant")>> \in Seq(Message)
      BY <1>0, <2>1, FreshMessage DEF Authors
    <2>3. /\ Last(context') = Msg(1, "assistant")
          /\ context' = context \o <<Msg(1, "assistant")>>
      BY <1>1, <2>1, <2>2, AppendIsConcat DEF Last
    <2>4. Spoken' = AfterPrompts(produced) \o <<Msg(1, "assistant")>>
      BY <2>1, <2>3 DEF Spoken, Partial, AfterPrompts
    <2>5. Spoken = AfterPrompts(produced)
      BY <1>0, <2>1, SpokenOutside
    <2> QED BY <1>4, <1>o, <2>1, <2>2, <2>3, <2>4, <2>5 DEF Running
  <1>11. ASSUME NEW m \in BOOLEAN, StreamDone(m) PROVE RunInContext'
    <2>1. /\ phase = "stream" /\ context' = context
          /\ \/ EndTurn(<<Last(context)>>)
             \/ /\ phase' = "poll" /\ produced' = Append(produced, Last(context))
                /\ promptsLen' = promptsLen
      BY <1>11 DEF StreamDone
    <2>2. CASE EndTurn(<<Last(context)>>)
      <3>1. phase' \notin Running
        BY <2>2 DEF EndTurn, JournalTurn, Running
      <3> QED BY <1>3, <3>1
    <2>3. CASE /\ phase' = "poll" /\ produced' = Append(produced, Last(context))
               /\ promptsLen' = promptsLen
      <3>1. <<Last(context)>> \in Seq(Message) /\ Last(context) \in Message
        BY <1>0, <2>1, BrokenParts DEF Control, StreamHasContext
      <3>2. produced' = produced \o <<Last(context)>>
        BY <1>1, <2>3, <3>1, AppendIsConcat
      <3>3. Spoken' = AfterPrompts(produced) \o <<Last(context)>>
        BY <1>0, <2>3, <3>1, <3>2, SpokenAdds
      <3>4. Spoken' = Spoken
        BY <2>1, <3>3 DEF Spoken, Partial
      <3> QED BY <2>1, <3>4 DEF RunInContext, Running
    <2> QED BY <2>1, <2>2, <2>3
  <1>12. ASSUME PollFollowUp PROVE RunInContext'
    <2>0. PICK hook : FollowUpOrEnd(hook)
      BY <1>12, Zenon DEF PollFollowUp
    <2>1. /\ phase = "stop"
          /\ \/ Resume(Drained(followUp)) /\ promptsLen' = promptsLen
             \/ phase' = "turn_end" /\ UNCHANGED <<context, produced, promptsLen>>
             \/ EndTurn(<<>>)
      BY <2>0 DEF FollowUpOrEnd
    <2>2. CASE Resume(Drained(followUp)) /\ promptsLen' = promptsLen
      <3>1. Drained(followUp) \in Seq(Message)
        BY <1>1, DrainedParts
      <3> QED BY <1>8, <2>1, <2>2, <3>1 DEF Resume, Running
    <2>3. CASE phase' = "turn_end" /\ UNCHANGED <<context, produced, promptsLen>>
      <3>1. Spoken' = Spoken
        BY <2>1, <2>3, SpokenSame
      <3> QED BY <2>1, <2>3, <3>1 DEF RunInContext, Running
    <2>4. CASE EndTurn(<<>>)
      <3>1. phase' \notin Running
        BY <2>4 DEF EndTurn, JournalTurn, Running
      <3> QED BY <1>3, <3>1
    <2> QED BY <2>1, <2>2, <2>3, <2>4
  <1>13. ASSUME HookContinues PROVE RunInContext'
    <2>1. /\ phase = "turn_end" /\ Make(1) /\ Resume(<<Msg(1, "hook")>>)
          /\ promptsLen' = promptsLen
      BY <1>13 DEF HookContinues
    <2>2. <<Msg(1, "hook")>> \in Seq(Message)
      BY <1>0, <2>1, FreshMessage DEF Authors
    <2> QED BY <1>8, <2>1, <2>2 DEF Resume, Running
  <1>14. ASSUME NEW k \in {"custom", "custom_message"}, ExtensionWrites(k)
         PROVE  RunInContext'
    <2>1. UNCHANGED <<phase, produced, promptsLen, context>>
      BY <1>14 DEF ExtensionWrites
    <2> QED BY <1>2, <2>1
  <1>15. ASSUME EnqueueSteer \/ EnqueueFollowUp \/ Abort \/ SetInfo PROVE RunInContext'
    <2>1. UNCHANGED <<phase, produced, promptsLen, context>>
      BY <1>15 DEF EnqueueSteer, EnqueueFollowUp, Abort, SetInfo
    <2> QED BY <1>2, <2>1
  <1>16. ASSUME NEW n \in 0..(Len(entries) - 1), BranchFails(entries, n)
         PROVE  RunInContext'
    <2>1. UNCHANGED <<phase, produced, promptsLen, context>>
      BY <1>16 DEF BranchFails
    <2> QED BY <1>2, <2>1
  <1> QED BY <1>5, <1>6, <1>7, <1>9, <1>10, <1>11, <1>12, <1>13, <1>14, <1>15, <1>16,
             Zenon DEF Turn, Handles

----------------------------------------------------------------------------
(* What was said is read. *)

\* What the journal holds, and what was said in this run or waits, are apart.
LEMMA SaidApart ==
  ASSUME ControlInv, OnceInv
  PROVE  LET said == ToSet(Numbers(SaidOf(store[sid])))
         IN  /\ store[sid] \in Seq(Entry) /\ SaidOf(store[sid]) \in Seq(Message)
             /\ said \subseteq 1..next
             /\ said \cap ToSet(Numbers(Spoken)) = {}
             /\ said \cap ToSet(Numbers(steering)) = {}
             /\ said \cap ToSet(Numbers(followUp)) = {}
  <1> DEFINE said == ToSet(Numbers(SaidOf(store[sid])))
  <1>1. store[sid] \in Seq(Entry) /\ sid \in DOMAIN store
    BY DEF ControlInv, Types
  <1>2. SaidOf(store[sid]) \in Seq(Message) /\ said \subseteq Ids(store[sid])
    BY <1>1, SaidParts
  <1> HIDE DEF said
  <1>3. said \subseteq Recorded
    BY <1>1, <1>2 DEF Recorded
  <1>4. /\ Recorded \subseteq 1..next
        /\ Recorded \cap ToSet(Numbers(Spoken)) = {}
        /\ Recorded \cap ToSet(Numbers(steering)) = {}
        /\ Recorded \cap ToSet(Numbers(followUp)) = {}
    BY DEF OnceInv, EachOnce, Apart
  <1>5. /\ said \subseteq 1..next
        /\ said \cap ToSet(Numbers(Spoken)) = {}
        /\ said \cap ToSet(Numbers(steering)) = {}
        /\ said \cap ToSet(Numbers(followUp)) = {}
    BY <1>3, <1>4
  <1> QED BY <1>1, <1>2, <1>5 DEF said

LEMMA ReadSame ==
  ASSUME SaidIsRead, UNCHANGED <<entries, sid, context>>, store'[sid'] = store[sid]
  PROVE  SaidIsRead'
  BY DEF SaidIsRead

LEMMA ReadGrows ==
  ASSUME ControlInv, OnceInv, SaidIsRead, UNCHANGED conversation, NEW y \in Seq(Message),
         context' = context \o y,
         ToSet(Numbers(SaidOf(store[sid]))) \cap ToSet(Numbers(y)) = {}
  PROVE  SaidIsRead'
  <1> DEFINE s == SaidOf(store[sid])
  <1>1. s \in Seq(Message) /\ context \in Seq(Message)
    BY SaidApart DEF ControlInv, Types
  <1>2. SaidOf(store'[sid']) = s /\ entries' = entries
    BY DEF conversation
  <1> HIDE DEF s
  <1>3. ToSet(s) \cap ToSet(y) = {}
    BY <1>1, NumbersApart DEF s
  <1>4. InOrder(s, context) => InOrder(s, context \o y)
    BY <1>1, <1>3, InOrderPads
  <1> QED BY <1>2, <1>4 DEF SaidIsRead, s

\* Journalled messages are said, entries of any other kind are not.
LEMMA SaidJournalled ==
  ASSUME TypeOK, NEW ms \in Seq(Message), NEW ws \in Seq(Entry),
         \A i \in DOMAIN ws : ws[i].kind # "message", NEW saved,
         Journal(AsEntries("message", ms) \o ws, saved)
  PROVE  \E M : SaidOf(store'[sid']) = SaidOf(store[sid]) \o Keep(ms, M)
  <1> DEFINE A == AsEntries("message", ms)  es == A \o ws
             K == {e \in ToSet(es) : e.id \in saved}
             T == K \cap IsSaid
             M == {m \in Message : EntryOf("message", m) \in T}
             k == SavedOf(es, saved)  j == store[sid]
  <1>1. /\ A \in Seq(Entry) /\ DOMAIN A = 1..Len(ms) /\ DOMAIN ms = 1..Len(ms)
        /\ \A i \in 1..Len(ms) : A[i] = EntryOf("message", ms[i]) /\ ms[i] \in Message
    BY EntriesOfMessages, Elements DEF Kinds
  <1>2. es \in Seq(Entry)
    BY <1>1
  <1>3. /\ j \in Seq(Entry) /\ k \in Seq(Entry) /\ k = Keep(es, K)
        /\ store'[sid'] = j \o k
    <2>1. /\ store' = [store EXCEPT ![sid] = store[sid] \o k] /\ sid' = sid
          /\ k \in Seq(Entry)
      BY <1>2, JournalTypes, Zenon
    <2>2. store[sid] \in Seq(Entry) /\ sid \in DOMAIN store
      BY DEF TypeOK
    <2> HIDE DEF k
    <2>3. store'[sid'] = j \o k
      BY <2>1, <2>2
    <2> QED BY <2>1, <2>2, <2>3 DEF k, SavedOf
  <1>4. SaidOf(j \o k) = SaidOf(j) \o SaidOf(k)
    <2>1. Keep(j \o k, IsSaid) = Keep(j, IsSaid) \o Keep(k, IsSaid)
      BY <1>3, KeepConcat
    <2>2. Keep(j, IsSaid) \in Seq(Entry) /\ Keep(k, IsSaid) \in Seq(Entry)
      BY <1>3, KeepInSeq
    <2> HIDE DEF j, k
    <2>3. Messages(Keep(j, IsSaid) \o Keep(k, IsSaid))
            = Messages(Keep(j, IsSaid)) \o Messages(Keep(k, IsSaid))
      BY <2>2, MessagesConcat
    <2> QED BY <2>1, <2>3 DEF SaidOf
  <1>5. Keep(k, IsSaid) = Keep(es, T)
    <2>1. Keep(Keep(es, K), IsSaid) = Keep(es, K \cap IsSaid)
      <3> HIDE DEF K, es
      <3> QED BY <1>2, KeepTwice
    <2> QED BY <1>3, <2>1
  <1>6. Keep(es, T) = Keep(A, T)
    <2>1. Keep(es, T) = Keep(A, T) \o Keep(ws, T)
      <3> HIDE DEF T
      <3> QED BY <1>1, KeepConcat
    <2>2. ToSet(ws) \cap T = {}
      <3>1. ToSet(ws) \cap IsSaid = {}
        BY DEF ToSet, IsSaid
      <3> QED BY <3>1
    <2>3. Keep(ws, T) = <<>>
      BY <2>2, KeepNone
    <2>4. Keep(A, T) \in Seq(Entry)
      BY <1>1, KeepInSeq
    <2>5. Keep(A, T) \o <<>> = Keep(A, T)
      BY <2>4
    <2> QED BY <2>1, <2>3, <2>5
  <1> HIDE DEF T
  <1>7. Messages(Keep(A, T)) = Keep(ms, M)
    <2>1. \A i \in 1..Len(ms) : MessageOf(A[i]) = ms[i]
      <3>1. \A m \in Message : MessageOf(EntryOf("message", m)) = m
        BY DEF MessageOf, EntryOf, Message
      <3> HIDE DEF A
      <3> QED BY <1>1, <3>1
    <2>2. ASSUME NEW e \in ToSet(A) PROVE MessageOf(e) \in M <=> e \in T
      <3>1. PICK i \in 1..Len(ms) : e = A[i]
        BY <1>1 DEF ToSet
      <3>2. MessageOf(e) = ms[i] /\ ms[i] \in Message /\ e = EntryOf("message", ms[i])
        BY <1>1, <2>1, <3>1
      <3> QED BY <3>2
    <2>3. Messages(A) = ms
      BY <1>1, <2>1 DEF Messages
    <2> HIDE DEF A, M
    <2>4. Keep(Messages(A), M) = Messages(Keep(A, T))
      BY <1>1, <2>2, KeepMessages
    <2> QED BY <2>3, <2>4
  <1>8. SaidOf(k) = Keep(ms, M)
    BY <1>5, <1>6, <1>7 DEF SaidOf
  <1>9. SaidOf(store'[sid']) = SaidOf(store[sid]) \o Keep(ms, M)
    BY <1>3, <1>4, <1>8
  <1> QED BY <1>9

\* Messages journalled as they come into the context.
LEMMA ReadAdds ==
  ASSUME ControlInv, NEW b \in Seq(Message), NEW ms \in Seq(Message),
         context' = b \o ms,
         NEW ws \in Seq(Entry), \A i \in DOMAIN ws : ws[i].kind # "message", NEW saved,
         Journal(AsEntries("message", ms) \o ws, saved),
         NoCompaction(entries) => InOrder(SaidOf(store[sid]), b),
         ToSet(Numbers(b)) \cap ToSet(Numbers(ms)) = {},
         ToSet(Numbers(SaidOf(store[sid]))) \cap ToSet(Numbers(ms)) = {}
  PROVE  SaidIsRead'
  <1>0. Types /\ TypeOK
    BY TypesAreOK DEF ControlInv
  <1> DEFINE s == SaidOf(store[sid])  es == AsEntries("message", ms) \o ws
  <1>1. s \in Seq(Message)
    <2>1. store[sid] \in Seq(Entry)
      BY <1>0 DEF Types
    <2> QED BY <2>1, SaidParts
  <1>2. PICK M : SaidOf(store'[sid']) = s \o Keep(ms, M)
    BY <1>0, SaidJournalled
  <1>3. ToSet(s) \cap ToSet(ms) = {} /\ ToSet(b) \cap ToSet(ms) = {}
    BY <1>1, NumbersApart
  <1>4. entries' = entries \o es /\ entries \in Seq(Entry) /\ es \in Seq(Entry)
    BY <1>0, EntriesOfMessages DEF Journal, Types, Kinds
  <1> HIDE DEF s, es
  <1>5. NoCompaction(entries') => NoCompaction(entries)
    <2>1. ToSet(entries \o es) = ToSet(entries) \cup ToSet(es)
      BY <1>4, ConcatElements
    <2> QED BY <1>4, <2>1 DEF NoCompaction
  <1>6. InOrder(s, b) => InOrder(s \o Keep(ms, M), b \o ms)
    BY <1>1, <1>3, InOrderGrows
  <1> QED BY <1>2, <1>5, <1>6 DEF SaidIsRead, s

\* The end of a turn.
LEMMA ReadTurnEnds ==
  ASSUME ControlInv, OwnInv, NEW b \in Seq(Message), NEW new \in Seq(Message),
         EndTurn(new), context' = b \o (AfterPrompts(produced) \o new),
         NoCompaction(entries) => InOrder(SaidOf(store[sid]), b),
         ToSet(Numbers(b)) \cap ToSet(Numbers(AfterPrompts(produced) \o new)) = {},
         ToSet(Numbers(SaidOf(store[sid])))
           \cap ToSet(Numbers(AfterPrompts(produced) \o new)) = {}
  PROVE  SaidIsRead'
  <1>0. Types /\ TypeOK
    BY TypesAreOK DEF ControlInv
  <1> DEFINE ms == AfterPrompts(produced) \o new
  <1>1. ms \in Seq(Message) /\ JournalTurn(ms)
    BY <1>0, RunEnds
  <1>2. PICK saved : Journal(AsEntries("message", ms) \o Writes, saved)
    BY <1>0, <1>1, TurnEnds
  <1>3. Writes \in Seq(Entry) /\ \A i \in DOMAIN Writes : Writes[i].kind # "message"
    <2>1. /\ Writes \in Seq(Entry) /\ DOMAIN Writes = DOMAIN sink
          /\ \A i \in DOMAIN sink : Writes[i].kind = sink[i].kind
      BY <1>0, WritesType DEF Writes, EntryOf
    <2> QED BY <2>1 DEF OwnInv, SinkIsCustom
  <1> HIDE DEF ms
  <1>4. /\ context' = b \o ms
        /\ ToSet(Numbers(b)) \cap ToSet(Numbers(ms)) = {}
        /\ ToSet(Numbers(SaidOf(store[sid]))) \cap ToSet(Numbers(ms)) = {}
    BY DEF ms
  <1> QED BY <1>1, <1>2, <1>3, <1>4, ReadAdds

\* What a run has said, and what was in the context before, are apart.
LEMMA BeforeTheRun ==
  ASSUME ControlInv, OnceInv, ReadInv, phase \in Running, Spoken \in Seq(Message)
  PROVE  \E b \in Seq(Message) :
           /\ context = b \o Spoken
           /\ NoCompaction(entries) => InOrder(SaidOf(store[sid]), b)
           /\ ToSet(Numbers(b)) \cap ToSet(Numbers(Spoken)) = {}
           /\ ToSet(Numbers(b)) \subseteq 1..next
  <1>1. PICK b \in Seq(Message) : context = b \o Spoken
    BY DEF ReadInv, RunInContext
  <1>2. Numbers(context) = Numbers(b) \o Numbers(Spoken)
    BY <1>1, NumbersConcat
  <1>3. Numbers(b) \in Seq(Nat) /\ Numbers(Spoken) \in Seq(Nat)
    BY <1>1, NumbersParts
  <1>4. Distinct(Numbers(context)) /\ ToSet(Numbers(context)) \subseteq 1..next
    BY DEF ReadInv, ContextApart, Apart
  <1>5. /\ ToSet(Numbers(b)) \cap ToSet(Numbers(Spoken)) = {}
        /\ ToSet(Numbers(b)) \subseteq 1..next
    BY <1>2, <1>3, <1>4, ConcatElements
  <1>6. /\ SaidOf(store[sid]) \in Seq(Message)
        /\ ToSet(SaidOf(store[sid])) \cap ToSet(Spoken) = {}
    BY SaidApart, NumbersApart
  <1>7. NoCompaction(entries) => InOrder(SaidOf(store[sid]), b)
    BY <1>1, <1>6, InOrderPads DEF ReadInv, SaidIsRead
  <1> QED BY <1>1, <1>5, <1>7

LEMMA ExceptLast ==
  ASSUME NEW f \in Seq(Message), NEW x \in Message, NEW y \in Message
  PROVE  [(f \o <<x>>) EXCEPT ![Len(f \o <<x>>)] = y] = f \o <<y>>
  <1> DEFINE z == Len(f)  u == f \o <<x>>  v == f \o <<y>>
  <1>1. /\ u \in Seq(Message) /\ Len(u) = z + 1 /\ v \in Seq(Message) /\ Len(v) = z + 1 /\ z \in Nat
        /\ \A i \in 1..z : u[i] = f[i] /\ v[i] = f[i]
        /\ v[z + 1] = y
    OBVIOUS
  <1> HIDE DEF u, v, z
  <1>2. DOMAIN u = 1..(z + 1) /\ DOMAIN v = 1..(z + 1)
    BY <1>1
  <1> DEFINE w == [u EXCEPT ![Len(u)] = y]
  <1>3. w \in Seq(Message) /\ Len(w) = z + 1
    BY <1>1, <1>2, ExceptSeq
  <1>4. \A i \in 1..(z + 1) : w[i] = v[i]
    <2>1. \A i \in 1..(z + 1) : (i \in 1..z /\ i # z + 1) \/ i = z + 1
      BY <1>1
    <2>2. \A i \in 1..(z + 1) : w[i] = IF i = z + 1 THEN y ELSE u[i]
      BY <1>1, <1>2
    <2> HIDE DEF w
    <2> QED BY <1>1, <2>1, <2>2
  <1> HIDE DEF w
  <1>5. w = v
    BY <1>1, <1>3, <1>4, SeqEqual
  <1> QED BY <1>5 DEF u, v, w

\* The steps that may end a run.
LEMMA ReadEnds ==
  ASSUME ControlInv, OwnInv, OnceInv, ReadInv,
         \/ RequestAborted \/ StreamBreaks \/ PollFollowUp \/ HookLetsEnd
         \/ \E m \in BOOLEAN : StreamDone(m)
  PROVE  SaidIsRead'
  <1>0. Types /\ Control /\ TypeOK
    BY TypesAreOK DEF ControlInv
  <1>1. /\ context \in Seq(Message) /\ steering \in Seq(Message)
        /\ followUp \in Seq(Message) /\ produced \in Seq(Message) /\ next \in Nat
    BY <1>0, SessionAssumption DEF Types
  <1>e. <<>> \in Seq(Message)
    OBVIOUS
  <1>o. AfterPrompts(produced) \in Seq(Message)
    BY <1>0, <1>e, AfterPromptsParts
  <1> DEFINE s == SaidOf(store[sid])  S == ToSet(Numbers(s))
  <1>s. S \subseteq 1..next /\ S \cap ToSet(Numbers(Spoken)) = {}
        /\ S \cap ToSet(Numbers(followUp)) = {}
    BY SaidApart
  <1>r. SaidIsRead
    BY DEF ReadInv
  <1>2. ASSUME EndTurn(<<>>), phase \in Running, phase # "stream", context' = context
        PROVE  SaidIsRead'
    <2>1. Spoken = AfterPrompts(produced) /\ Spoken \in Seq(Message)
          /\ AfterPrompts(produced) \o <<>> = Spoken
      BY <1>0, <1>o, <1>2, SpokenOutside
    <2>2. PICK b \in Seq(Message) :
            /\ context = b \o Spoken
            /\ NoCompaction(entries) => InOrder(s, b)
            /\ ToSet(Numbers(b)) \cap ToSet(Numbers(Spoken)) = {}
      BY <1>2, <2>1, BeforeTheRun
    <2> QED BY <1>2, <1>e, <1>s, <2>1, <2>2, ReadTurnEnds
  <1>3. ASSUME HookLetsEnd PROVE SaidIsRead'
    BY <1>2, <1>3 DEF HookLetsEnd, Running
  <1>4. ASSUME PollFollowUp PROVE SaidIsRead'
    <2>0. PICK hook : FollowUpOrEnd(hook)
      BY <1>4, Zenon DEF PollFollowUp
    <2>1. /\ phase = "stop"
          /\ \/ Resume(Drained(followUp)) /\ UNCHANGED conversation
             \/ UNCHANGED <<context, conversation>>
             \/ EndTurn(<<>>) /\ context' = context
      BY <2>0 DEF FollowUpOrEnd
    <2>2. CASE Resume(Drained(followUp)) /\ UNCHANGED conversation
      <3>1. /\ Drained(followUp) \in Seq(Message) /\ Rest(followUp) \in Seq(Message)
            /\ Drained(followUp) \o Rest(followUp) = followUp
        BY <1>1, DrainedParts
      <3>2. Numbers(followUp) = Numbers(Drained(followUp)) \o Numbers(Rest(followUp))
        BY <3>1, NumbersConcat
      <3>3. Numbers(Drained(followUp)) \in Seq(Nat) /\ Numbers(Rest(followUp)) \in Seq(Nat)
        BY <3>1, NumbersParts
      <3>4. ToSet(Numbers(Drained(followUp))) \subseteq ToSet(Numbers(followUp))
        BY <3>2, <3>3, ConcatElements
      <3>5. S \cap ToSet(Numbers(Drained(followUp))) = {}
        BY <1>s, <3>4
      <3> QED BY <1>r, <2>2, <3>1, <3>5, ReadGrows DEF Resume
    <2>3. CASE UNCHANGED <<context, conversation>>
      BY <1>r, <2>3, ReadSame DEF conversation
    <2>4. CASE EndTurn(<<>>) /\ context' = context
      BY <1>2, <2>1, <2>4 DEF Running
    <2> QED BY <2>1, <2>2, <2>3, <2>4
  <1>5. ASSUME RequestAborted PROVE SaidIsRead'
    <2> DEFINE m == Msg(1, "aborted")
    <2>1. /\ phase = "request" /\ context' = Append(context, m) /\ Make(1)
          /\ EndTurn(<<m>>)
      BY <1>5 DEF RequestAborted
    <2>2. m \in Message /\ <<m>> \in Seq(Message) /\ m.n = next + 1
      BY <1>0, <2>1, FreshMessage DEF Authors
    <2> HIDE DEF m
    <2>3. Spoken = AfterPrompts(produced) /\ Spoken \in Seq(Message)
      BY <1>0, <1>o, <2>1, SpokenOutside
    <2>4. PICK b \in Seq(Message) :
            /\ context = b \o Spoken
            /\ NoCompaction(entries) => InOrder(s, b)
            /\ ToSet(Numbers(b)) \cap ToSet(Numbers(Spoken)) = {}
            /\ ToSet(Numbers(b)) \subseteq 1..next
      BY <2>1, <2>3, BeforeTheRun DEF Running
    <2>5. context' = b \o (AfterPrompts(produced) \o <<m>>)
      <3>1. Append(context, m) = context \o <<m>>
        BY <1>1, <2>2, AppendIsConcat
      <3>2. (b \o Spoken) \o <<m>> = b \o (Spoken \o <<m>>)
        BY <2>2, <2>3, ConcatAssociative
      <3> QED BY <2>1, <2>3, <2>4, <3>1, <3>2
    <2>6. ToSet(Numbers(AfterPrompts(produced) \o <<m>>))
            = ToSet(Numbers(Spoken)) \cup {next + 1}
      <3>1. Numbers(AfterPrompts(produced) \o <<m>>) = Append(Numbers(Spoken), next + 1)
        BY <2>2, <2>3, NumbersAppend
      <3>2. Numbers(Spoken) \in Seq(Nat) /\ next + 1 \in Nat
        BY <1>1, <2>3, NumbersParts
      <3>3. ASSUME NEW a \in Seq(Nat), NEW x \in Nat
            PROVE  ToSet(Append(a, x)) = ToSet(a) \cup {x}
        BY DistinctAppend
      <3> QED BY <3>1, <3>2, <3>3
    <2>7. next + 1 \notin 1..next
      BY <1>1
    <2> HIDE DEF s, S
    <2>8. /\ ToSet(Numbers(b)) \cap ToSet(Numbers(AfterPrompts(produced) \o <<m>>)) = {}
          /\ S \cap ToSet(Numbers(AfterPrompts(produced) \o <<m>>)) = {}
      BY <1>s, <2>4, <2>6, <2>7
    <2> QED BY <2>1, <2>2, <2>4, <2>5, <2>8, ReadTurnEnds DEF s, S
  <1>6. ASSUME phase = "stream"
        PROVE  /\ Spoken = AfterPrompts(produced) \o <<Last(context)>>
               /\ Spoken \in Seq(Message) /\ context # <<>>
               /\ <<Last(context)>> \in Seq(Message) /\ <<Broken>> \in Seq(Message)
               /\ Numbers(AfterPrompts(produced) \o <<Broken>>) = Numbers(Spoken)
    <2>1. context # <<>>
      BY <1>0, <1>6 DEF Control, StreamHasContext
    <2>2. /\ <<Broken>> \in Seq(Message) /\ <<Last(context)>> \in Seq(Message)
          /\ Broken.n = Last(context).n /\ Last(context) \in Message
          /\ Broken \in Message
      BY <1>0, <2>1, BrokenParts
    <2>3. Spoken = AfterPrompts(produced) \o <<Last(context)>>
      BY <1>6 DEF Spoken, Partial
    <2>4. Spoken \in Seq(Message)
      BY <1>o, <2>2, <2>3
    <2>5. Numbers(AfterPrompts(produced) \o <<Broken>>) = Numbers(Spoken)
      BY <1>o, <2>2, <2>3, NumbersAppend
    <2> QED BY <2>1, <2>2, <2>3, <2>4, <2>5
  <1>7. ASSUME StreamBreaks PROVE SaidIsRead'
    <2>1. /\ EndTurn(<<Broken>>) /\ phase = "stream"
          /\ context' = [context EXCEPT ![Len(context)] = Broken]
      BY <1>7, Zenon DEF StreamBreaks, Broken
    <2>2. PICK b \in Seq(Message) :
            /\ context = b \o Spoken
            /\ NoCompaction(entries) => InOrder(s, b)
            /\ ToSet(Numbers(b)) \cap ToSet(Numbers(Spoken)) = {}
      BY <1>6, <2>1, BeforeTheRun DEF Running
    <2>3. context' = b \o (AfterPrompts(produced) \o <<Broken>>)
      <3> DEFINE f == b \o AfterPrompts(produced)  x == Last(context)
      <3>1. x \in Message /\ Broken \in Message
        BY <1>0, <1>6, <2>1, BrokenParts
      <3>2. f \in Seq(Message) /\ context = f \o <<x>>
        <4>1. b \o (AfterPrompts(produced) \o <<x>>) = f \o <<x>>
          BY <1>6, <1>o, <2>1, ConcatAssociative
        <4>2. f \in Seq(Message)
          BY <1>o
        <4>3. context = b \o (AfterPrompts(produced) \o <<x>>)
          BY <1>6, <2>1, <2>2, Zenon
        <4> QED BY <4>1, <4>2, <4>3, Zenon
      <3>3. b \o (AfterPrompts(produced) \o <<Broken>>) = f \o <<Broken>>
        BY <1>6, <1>o, <2>1, ConcatAssociative
      <3> HIDE DEF f, x
      <3>4. [(f \o <<x>>) EXCEPT ![Len(f \o <<x>>)] = Broken] = f \o <<Broken>>
        BY <3>1, <3>2, ExceptLast
      <3>5. context' = f \o <<Broken>>
        BY <2>1, <3>2, <3>4, Zenon
      <3> QED BY <3>3, <3>5, Zenon
    <2> QED BY <1>6, <1>s, <2>1, <2>2, <2>3, ReadTurnEnds
  <1>8. ASSUME NEW m \in BOOLEAN, StreamDone(m) PROVE SaidIsRead'
    <2>1. /\ phase = "stream" /\ context' = context
          /\ EndTurn(<<Last(context)>>) \/ UNCHANGED conversation
      BY <1>8 DEF StreamDone
    <2>2. CASE UNCHANGED conversation
      BY <1>r, <2>1, <2>2, ReadSame DEF conversation
    <2>3. CASE EndTurn(<<Last(context)>>)
      <3>1. PICK b \in Seq(Message) :
              /\ context = b \o Spoken
              /\ NoCompaction(entries) => InOrder(s, b)
              /\ ToSet(Numbers(b)) \cap ToSet(Numbers(Spoken)) = {}
        BY <1>6, <2>1, BeforeTheRun DEF Running
      <3> QED BY <1>6, <1>s, <2>1, <2>3, <3>1, ReadTurnEnds
    <2> QED BY <2>1, <2>2, <2>3
  <1> QED BY <1>3, <1>4, <1>5, <1>7, <1>8

\* Entries of which none that reaches the store is a message to show.
LEMMA ReadSilent ==
  ASSUME ControlInv, SaidIsRead, NEW es \in Seq(Entry), NEW saved, Journal(es, saved),
         \A e \in ToSet(es) : e.id \in saved => e \notin IsSaid, context' = context
  PROVE  SaidIsRead'
  <1>0. Types /\ TypeOK
    BY TypesAreOK DEF ControlInv
  <1> DEFINE k == SavedOf(es, saved)  j == store[sid]
  <1>1. /\ k \in Seq(Entry) /\ store' = [store EXCEPT ![sid] = j \o k] /\ sid' = sid
        /\ entries' = entries \o es /\ entries \in Seq(Entry) /\ j \in Seq(Entry)
        /\ sid \in DOMAIN store
    <2>1. j \in Seq(Entry) /\ sid \in DOMAIN store /\ entries \in Seq(Entry)
      BY <1>0 DEF Types
    <2>2. /\ k \in Seq(Entry) /\ store' = [store EXCEPT ![sid] = j \o k] /\ sid' = sid
          /\ entries' = entries \o es
      BY <1>0, JournalTypes, Zenon
    <2> QED BY <2>1, <2>2
  <1>2. ToSet(k) \cap IsSaid = {}
    <2>1. ToSet(k) = ToSet(es) \cap {e \in ToSet(es) : e.id \in saved}
      BY KeepElements DEF SavedOf
    <2> HIDE DEF k
    <2> QED BY <2>1
  <1> HIDE DEF k, j
  <1>3. store'[sid'] = j \o k
    BY <1>1 DEF j
  <1>4. Keep(j \o k, IsSaid) = Keep(j, IsSaid)
    <2>1. Keep(j \o k, IsSaid) = Keep(j, IsSaid) \o Keep(k, IsSaid)
      BY <1>1, KeepConcat
    <2>2. Keep(k, IsSaid) = <<>>
      BY <1>1, <1>2, KeepNone
    <2>3. Keep(j, IsSaid) \in Seq(Entry)
      BY <1>1, KeepInSeq
    <2>4. Keep(j, IsSaid) \o <<>> = Keep(j, IsSaid)
      BY <2>3
    <2> QED BY <2>1, <2>2, <2>4
  <1>5. NoCompaction(entries') => NoCompaction(entries)
    <2>1. ToSet(entries \o es) = ToSet(entries) \cup ToSet(es)
      BY <1>1, ConcatElements
    <2> QED BY <1>1, <2>1 DEF NoCompaction
  <1> QED BY <1>3, <1>4, <1>5 DEF SaidIsRead, SaidOf, j

\* The steps that journal something while no run ends.
LEMMA ReadJournals ==
  ASSUME ControlInv, OwnInv, OnceInv, ReadInv,
         \/ SetInfo \/ Summarised
         \/ \E c \in BOOLEAN : BeginTurn(c) \/ (\E i \in 1..2 : PromptNotSaved(c, i))
  PROVE  SaidIsRead'
  <1>0. Types /\ Control /\ TypeOK
    BY TypesAreOK DEF ControlInv
  <1>1. /\ context \in Seq(Message) /\ next \in Nat /\ entries \in Seq(Entry)
    BY <1>0, SessionAssumption DEF Types
  <1>r. SaidIsRead
    BY DEF ReadInv
  <1>2. ASSUME SetInfo PROVE SaidIsRead'
    <2> DEFINE es == <<EntryOf("info", Msg(1, "custom"))>>
    <2>1. /\ Make(1) /\ context' = context /\ \E saved : Journal(es, saved)
      BY <1>2, Zenon DEF SetInfo
    <2>2. es \in Seq(Entry)
      BY <1>0, <2>1, OneFreshEntry DEF Kinds
    <2>3. \A e \in ToSet(es) : e \notin IsSaid
      BY DEF ToSet, IsSaid, EntryOf
    <2> HIDE DEF es
    <2> QED BY <1>r, <2>1, <2>2, <2>3, ReadSilent
  <1>3. ASSUME Summarised PROVE SaidIsRead'
    <2> DEFINE e == EntryOf("compaction", Msg(1, "custom"))
    <2>1. Make(1) /\ \E saved : Journal(<<e>>, saved)
      BY <1>3, Zenon DEF Summarised
    <2>2. <<e>> \in Seq(Entry) /\ e.kind = "compaction"
      BY <1>0, <2>1, OneFreshEntry DEF Kinds, EntryOf
    <2>3. entries' = entries \o <<e>>
      BY <2>1 DEF Journal
    <2> HIDE DEF e
    <2>4. ToSet(entries') = ToSet(entries) \cup ToSet(<<e>>)
      <3>1. entries \in Seq(Entry)
        BY <1>1
      <3>2. ToSet(entries \o <<e>>) = ToSet(entries) \cup ToSet(<<e>>)
        <4> DEFINE u == <<e>>
        <4>1. u \in Seq(Entry)
          BY <2>2
        <4> HIDE DEF u
        <4>2. ToSet(entries \o u) = ToSet(entries) \cup ToSet(u)
          BY <3>1, <4>1, ConcatElements
        <4> QED BY <4>2 DEF u
      <3> QED BY <2>3, <3>2
    <2>5. e \in ToSet(<<e>>)
      BY DEF ToSet
    <2>6. ~NoCompaction(entries')
      BY <2>2, <2>4, <2>5 DEF NoCompaction
    <2> QED BY <2>6 DEF SaidIsRead
  <1>4. ASSUME NEW c \in BOOLEAN, NEW i \in 1..2, PromptNotSaved(c, i)
        PROVE  SaidIsRead'
    <2> DEFINE q == SubSeq(Prompts(c), 1, i)  es == AsEntries("message", q)
               before == SubSeq(q, 1, i - 1)
    <2>1. /\ Make(i) /\ context' = context /\ i \in 1..Len(Prompts(c))
          /\ Journal(es, Ids(AsEntries("message", before)))
      BY <1>4 DEF PromptNotSaved, Prompts
    <2>2. Room(i)
      BY <1>0, <2>1, MadeNext
    <2>3. /\ q \in Seq(Message) /\ Len(q) = i /\ es \in Seq(Entry)
          /\ \A j \in 1..i : es[j] = EntryOf("message", q[j])
          /\ DOMAIN es = 1..i
      <3>1. q \in Seq(Message) /\ Len(q) = i
        BY <1>0, <2>1, <2>2, PromptsParts
      <3> HIDE DEF q
      <3> QED BY <3>1, EntriesOfMessages DEF Kinds
    <2>4. \A j \in 1..i : q[j].n = next + j
      <3>1. \A j \in 1..i : \E by \in {"context", "user"} : q[j] = Msg(j, by)
        BY <1>0, <2>1, <2>2, PromptsParts
      <3>2. \A j, by : Msg(j, by).n = next + j
        BY DEF Msg
      <3> HIDE DEF q
      <3> QED BY <3>1, <3>2, Zenon
    <2>5. Ids(AsEntries("message", before)) \subseteq {next + j : j \in 1..(i - 1)}
      <3>1. /\ before \in Seq(Message) /\ DOMAIN before = 1..(i - 1)
            /\ \A j \in 1..(i - 1) : before[j] = q[j]
        <4> HIDE DEF q
        <4>1. i - 1 \in 0..Len(q)
          BY <2>3
        <4> QED BY <2>3, <4>1, SubSeqProperties
      <3>2. \A j \in 1..(i - 1) : j \in 1..i
        OBVIOUS
      <3> HIDE DEF q, before
      <3>3. \A j \in DOMAIN AsEntries("message", before) :
              AsEntries("message", before)[j].id = next + j /\ j \in 1..(i - 1)
        BY <2>4, <3>1, <3>2 DEF AsEntries, EntryOf
      <3> QED BY <3>3 DEF Ids
    <2>6. ASSUME NEW e \in ToSet(es), e.id \in Ids(AsEntries("message", before))
          PROVE  e \notin IsSaid
      <3>0. q[1] = Prompts(c)[1] \/ i # 2
        <4> SUFFICES ASSUME i = 2 PROVE q[1] = Prompts(c)[1]
          OBVIOUS
        <4>1. Len(Prompts(c)) = 2
          <5>1. Len(Prompts(c)) \in 1..2
            BY <1>0, <2>1, <2>2, PromptsParts
          <5>2. i \in 1..Len(Prompts(c))
            BY <2>1, Zenon
          <5> QED BY <5>1, <5>2
        <4>2. Prompts(c) \in Seq(Message)
          BY <1>0, <2>2, <4>1, AllPrompts
        <4>3. 2 \in 0..Len(Prompts(c)) /\ 1 \in 1..2
          BY <4>1
        <4> QED BY <4>2, <4>3, SubSeqProperties
      <3> HIDE DEF q, es, before
      <3>1. PICK j \in 1..i : e = es[j]
        <4>1. \E j \in DOMAIN es : e = es[j]
          BY <2>6 DEF ToSet
        <4> QED BY <2>3, <4>1
      <3>2. e.id = next + j /\ e.by = q[j].by
        <4>1. e = EntryOf("message", q[j])
          BY <2>3, <3>1
        <4>2. e.id = q[j].n /\ e.by = q[j].by
          BY <4>1 DEF EntryOf
        <4> QED BY <2>4, <3>1, <4>2
      <3>3. PICK h \in 1..(i - 1) : e.id = next + h
        BY <2>5, <2>6
      <3>4. j = 1 /\ i = 2
        <4>1. j = h
          BY <1>1, <3>2, <3>3
        <4> QED BY <4>1
      <3>5. c
        BY <2>1, <3>4 DEF Prompts
      <3>6. q[1].by = "context"
        <4>1. Prompts(c)[1] = Msg(1, "context")
          BY <3>5 DEF Prompts
        <4> QED BY <3>0, <3>4, <4>1 DEF Msg
      <3> QED BY <3>2, <3>4, <3>6 DEF IsSaid
    <2> HIDE DEF q, es, before
    <2> QED BY <1>r, <2>1, <2>3, <2>6, ReadSilent
  <1>5. ASSUME NEW c \in BOOLEAN, BeginTurn(c) PROVE SaidIsRead'
    <2> DEFINE p == Prompts(c)
    <2>1. /\ Make(Len(p)) /\ context' = context \o p
          /\ Journal(AsEntries("message", p), Ids(AsEntries("message", p)))
      BY <1>5 DEF BeginTurn, Launch
    <2>2. Len(p) \in Nat /\ Len(p) \in 1..Len(p)
      BY DEF Prompts
    <2>3. Room(Len(p)) /\ p \in Seq(Message)
      BY <1>0, <2>1, <2>2, MadeNext, AllPrompts
    <2>4. ToSet(Numbers(p)) \cap (1..next) = {}
      <3>1. Numbers(p) = IF c THEN <<next + 1, next + 2>> ELSE <<next + 1>>
        BY DEF Prompts, Numbers, Msg
      <3>2. ToSet(Numbers(p)) \subseteq {next + 1, next + 2}
        BY <3>1 DEF ToSet
      <3>3. next + 1 \notin 1..next /\ next + 2 \notin 1..next
        BY <1>1
      <3> QED BY <3>2, <3>3
    <2> HIDE DEF p
    <2>5. AsEntries("message", p) \o <<>> = AsEntries("message", p) /\ <<>> \in Seq(Entry)
      <3>1. AsEntries("message", p) \in Seq(Entry)
        BY <2>3, EntriesOfMessages DEF Kinds
      <3> QED BY <3>1
    <2>6. \E saved : Journal(AsEntries("message", p) \o <<>>, saved)
      BY <2>1, <2>5, Zenon
    <2>7. /\ ToSet(Numbers(context)) \cap ToSet(Numbers(p)) = {}
          /\ ToSet(Numbers(SaidOf(store[sid]))) \cap ToSet(Numbers(p)) = {}
      <3>1. ToSet(Numbers(context)) \subseteq 1..next
        BY DEF ReadInv, ContextApart, Apart
      <3>2. ToSet(Numbers(SaidOf(store[sid]))) \subseteq 1..next
        BY SaidApart
      <3> QED BY <2>4, <3>1, <3>2
    <2>8. \A i \in DOMAIN <<>> : <<>>[i].kind # "message"
      OBVIOUS
    <2>9. NoCompaction(entries) => InOrder(SaidOf(store[sid]), context)
      BY <1>r DEF SaidIsRead
    <2>10. PICK saved : Journal(AsEntries("message", p) \o <<>>, saved)
      BY <2>6
    <2> QED BY <1>1, <2>1, <2>3, <2>5, <2>7, <2>8, <2>9, <2>10, ReadAdds
  <1> QED BY <1>2, <1>3, <1>4, <1>5

\* The steps that journal nothing.
LEMMA ReadQuiet ==
  ASSUME ControlInv, OnceInv, ReadInv,
         \/ Send \/ HookCancels \/ LoopFails \/ Timeout \/ Compact \/ Abort
         \/ Poll \/ Request \/ HookContinues \/ EnqueueSteer \/ EnqueueFollowUp
         \/ \E k \in {"custom", "custom_message"} : ExtensionWrites(k)
         \/ \E n \in 0..(Len(entries) - 1) : BranchFails(entries, n)
  PROVE  SaidIsRead'
  <1>0. Types /\ TypeOK
    BY TypesAreOK DEF ControlInv
  <1>1. context \in Seq(Message) /\ steering \in Seq(Message) /\ next \in Nat
    BY <1>0, SessionAssumption DEF Types
  <1> DEFINE S == ToSet(Numbers(SaidOf(store[sid])))
  <1>s. S \subseteq 1..next /\ S \cap ToSet(Numbers(steering)) = {}
    BY SaidApart
  <1>r. SaidIsRead
    BY DEF ReadInv
  <1>2. ASSUME UNCHANGED <<conversation, context>> PROVE SaidIsRead'
    BY <1>2, <1>r, ReadSame DEF conversation
  <1>3. ASSUME Send \/ HookCancels \/ LoopFails \/ Timeout \/ Compact \/ Abort
               \/ EnqueueSteer \/ EnqueueFollowUp
        PROVE  SaidIsRead'
    <2>1. UNCHANGED <<conversation, context>>
      BY <1>3, Zenon DEF Send, HookCancels, LoopFails, Timeout, Compact, Abort,
         EnqueueSteer, EnqueueFollowUp
    <2> QED BY <1>2, <2>1
  <1>4. ASSUME NEW k \in {"custom", "custom_message"}, ExtensionWrites(k)
        PROVE  SaidIsRead'
    <2>1. UNCHANGED <<conversation, context>>
      BY <1>4, Zenon DEF ExtensionWrites
    <2> QED BY <1>2, <2>1
  <1>5. ASSUME NEW n \in 0..(Len(entries) - 1), BranchFails(entries, n)
        PROVE  SaidIsRead'
    <2>1. /\ store' = Append(store, SubSeq(entries, 1, n))
          /\ UNCHANGED <<entries, sid, context>>
      BY <1>5 DEF BranchFails
    <2>2. store \in Seq(Seq(Entry)) /\ sid \in 1..Len(store) /\ entries \in Seq(Entry)
      BY <1>0 DEF Types
    <2>3. store'[sid'] = store[sid]
      BY <2>1, <2>2
    <2> QED BY <1>r, <2>1, <2>3, ReadSame
  <1>6. ASSUME NEW by \in Authors, Make(1), UNCHANGED conversation,
               context' = context \o <<Msg(1, by)>>
        PROVE  SaidIsRead'
    <2>1. /\ Msg(1, by) \in Message /\ <<Msg(1, by)>> \in Seq(Message)
          /\ Msg(1, by).n = next + 1
      BY <1>0, <1>6, FreshMessage
    <2>2. ToSet(Numbers(<<Msg(1, by)>>)) = {next + 1}
      BY <2>1 DEF ToSet, Numbers
    <2>3. next + 1 \notin 1..next
      BY <1>1
    <2>4. S \cap ToSet(Numbers(<<Msg(1, by)>>)) = {}
      BY <1>s, <2>2, <2>3
    <2> QED BY <1>6, <1>r, <2>1, <2>4, ReadGrows
  <1>7. ASSUME Request PROVE SaidIsRead'
    <2>1. /\ context' = Append(context, Msg(1, "assistant")) /\ Make(1)
          /\ UNCHANGED conversation
      BY <1>7 DEF Request
    <2>2. Msg(1, "assistant") \in Message
      BY <1>0, <2>1, FreshMessage DEF Authors
    <2>3. context' = context \o <<Msg(1, "assistant")>>
      BY <1>1, <2>1, <2>2, AppendIsConcat
    <2> QED BY <1>6, <2>1, <2>3 DEF Authors
  <1>8. ASSUME HookContinues PROVE SaidIsRead'
    <2>1. /\ context' = context \o <<Msg(1, "hook")>> /\ Make(1)
          /\ UNCHANGED conversation
      BY <1>8 DEF HookContinues, Resume
    <2> QED BY <1>6, <2>1 DEF Authors
  <1>9. ASSUME Poll PROVE SaidIsRead'
    <2> DEFINE got == IF cancelled THEN <<>> ELSE Drained(steering)
               rest == IF cancelled THEN steering ELSE Rest(steering)
    <2>1. context' = context \o got /\ UNCHANGED conversation
      BY <1>9 DEF Poll
    <2>2. got \in Seq(Message) /\ rest \in Seq(Message) /\ got \o rest = steering
      <3>1. <<>> \o steering = steering /\ <<>> \in Seq(Message)
        BY <1>1
      <3> QED BY <1>1, <3>1, DrainedParts
    <2> HIDE DEF got, rest
    <2>3. Numbers(steering) = Numbers(got) \o Numbers(rest)
      BY <2>2, NumbersConcat
    <2>4. Numbers(got) \in Seq(Nat) /\ Numbers(rest) \in Seq(Nat)
      BY <2>2, NumbersParts
    <2>5. ToSet(Numbers(got)) \subseteq ToSet(Numbers(steering))
      BY <2>3, <2>4, ConcatElements
    <2>6. S \cap ToSet(Numbers(got)) = {}
      BY <1>s, <2>5
    <2> QED BY <1>r, <2>1, <2>2, <2>6, ReadGrows
  <1> QED BY <1>3, <1>4, <1>5, <1>7, <1>8, <1>9

LEMMA ReadInit == Init => ReadInv
  <1> SUFFICES ASSUME Init PROVE ReadInv
    OBVIOUS
  <1>1. /\ phase = "idle" /\ context = <<>> /\ entries = <<>> /\ store[sid] = <<>>
        /\ steering = <<>> /\ followUp = <<>> /\ next = 0
    BY DEF Init
  <1>2. Numbers(<<>>) = <<>>
    BY DEF Numbers
  <1>3. ContextApart
    BY <1>1, <1>2, EmptyIsDistinct DEF ContextApart, Apart
  <1>4. RunInContext
    BY <1>1 DEF RunInContext, Running
  <1>5. SaidIsRead
    <2>1. Keep(<<>>, IsSaid) = <<>> /\ Messages(<<>>) = <<>>
      BY KeepEmpty DEF Messages
    <2>2. InOrder(<<>>, <<>>)
      BY KeepEmpty DEF InOrder
    <2> QED BY <1>1, <2>1, <2>2 DEF SaidIsRead, SaidOf
  <1> QED BY <1>3, <1>4, <1>5 DEF ReadInv

LEMMA ReadStep ==
  ControlInv /\ OwnInv /\ OnceInv /\ ReadInv /\ [Next]_vars => ReadInv'
  <1> SUFFICES ASSUME ControlInv, OwnInv, OnceInv, ReadInv, [Next]_vars PROVE ReadInv'
    OBVIOUS
  <1>0. ContextApart /\ RunInContext /\ SaidIsRead
    BY DEF ReadInv
  <1>1. CASE Turn
    <2>1. ContextApart'
      BY <1>0, <1>1, ContextQuiet, ContextGrows, Zenon DEF Turn
    <2>2. RunInContext'
      BY <1>0, <1>1, RunInContextStep, Zenon
    <2>3. SaidIsRead'
      BY <1>1, ReadQuiet, ReadJournals, ReadEnds, Zenon DEF Turn
    <2> QED BY <2>1, <2>2, <2>3, Zenon DEF ReadInv
  <1>2. CASE Handles
    <2>1. ContextApart'
      BY <1>0, <1>2, ContextQuiet, ContextGrows, Zenon DEF Handles
    <2>2. RunInContext'
      BY <1>0, <1>2, RunInContextStep, Zenon
    <2>3. SaidIsRead'
      BY <1>2, ReadQuiet, Zenon DEF Handles
    <2> QED BY <2>1, <2>2, <2>3, Zenon DEF ReadInv
  <1>3. CASE SetInfo \/ \E n \in 0..(Len(entries) - 1) : BranchFails(entries, n)
    <2>1. ContextApart'
      BY <1>0, <1>3, ContextQuiet, Zenon
    <2>2. RunInContext'
      BY <1>0, <1>3, RunInContextStep, Zenon
    <2>3. SaidIsRead'
      BY <1>3, ReadQuiet, ReadJournals, Zenon
    <2> QED BY <2>1, <2>2, <2>3, Zenon DEF ReadInv
  <1>4. CASE \/ ResetSession \/ CloneSession
             \/ \E i \in DOMAIN entries : Fork(i)
             \/ \E s \in DOMAIN store : SwitchSession(s)
    BY <1>4, ReadManages, Zenon
  <1>5. CASE UNCHANGED vars
    <2>1. UNCHANGED <<phase, context, conversation, run, queues, next>>
      BY <1>5 DEF vars
    <2>2. Spoken' = Spoken
      BY <2>1, SpokenSame DEF run
    <2>3. ContextApart'
      BY <1>0, <2>1 DEF ContextApart, queues
    <2>4. RunInContext'
      BY <1>0, <2>1, <2>2 DEF RunInContext
    <2>5. SaidIsRead'
      BY <1>0, <2>1, ReadSame DEF conversation
    <2> QED BY <2>3, <2>4, <2>5, Zenon DEF ReadInv
  <1> QED BY <1>1, <1>2, <1>3, <1>4, <1>5 DEF Next, Manage

LEMMA ReadHolds == Spec => []ReadInv
  <1> QED BY ReadInit, ControlHolds, OwnHolds, OnceHolds, ReadStep, PTL DEF Spec

\* Until a compaction, what the journal says was said is in the context the model
\* reads, in the same order, however sends end and whatever the store refuses
\* (send_message's appends, the loop's context, build_context).
THEOREM SaidWasRead == Spec => []TranscriptWasRead
  <1>1. ControlInv /\ ReadInv => TranscriptWasRead
    <2> SUFFICES ASSUME ControlInv, ReadInv, \A e \in ToSet(entries) : e.kind # "compaction"
                 PROVE  LET said == Keep(store[sid], {e \in ToSet(store[sid]) :
                                           e.kind = "message" /\ e.by # "context"})
                        IN  InOrder([i \in DOMAIN said |-> MessageOf(said[i])], context)
      BY DEF TranscriptWasRead, Those
    <2> DEFINE T == {e \in ToSet(store[sid]) : e.kind = "message" /\ e.by # "context"}
    <2>1. store[sid] \in Seq(Entry)
      BY DEF ControlInv, Types
    <2>2. ToSet(store[sid]) \cap T = ToSet(store[sid]) \cap IsSaid
      <3>1. ToSet(store[sid]) \subseteq Entry
        BY <2>1 DEF ToSet
      <3> QED BY <3>1 DEF IsSaid
    <2> HIDE DEF T
    <2>3. Keep(store[sid], T) = Keep(store[sid], IsSaid)
      BY <2>1, <2>2, KeepSame
    <2>4. InOrder(Messages(Keep(store[sid], IsSaid)), context)
      BY DEF ReadInv, SaidIsRead, NoCompaction, SaidOf
    <2> QED BY <2>3, <2>4 DEF T, Messages
  <1> QED BY <1>1, ControlHolds, ReadHolds, PTL

----------------------------------------------------------------------------
(* A session that meets no fault resumes as it is. *)

Undisturbed == ~MayFail /\ ~MayTimeout /\ ~MayCompact /\ ~MayWrite /\ ~WritesFail

\* What build_context makes of a journal without a compaction.
IsContext == {e \in Entry : InContext(e)}
Rebuilt(es) == Messages(Keep(es, IsContext))

\* Memory and store agree, no compaction is recorded or under way, no extension
\* has queued a write, and the live context is what the journal rebuilds to
\* followed by what the run has said and the end of the turn will journal.
ReplayInv ==
  /\ entries = store[sid] /\ sink = <<>>
  /\ phase \notin {"compact", "autocompact"}
  /\ \A s \in DOMAIN store : NoCompaction(store[s])
  /\ context = Rebuilt(entries) \o Spoken

LEMMA RebuiltIs ==
  ASSUME NEW es \in Seq(Entry)
  PROVE  /\ Rebuilt(es) \in Seq(Message)
         /\ NoCompaction(es) => BuildContext(es) = Rebuilt(es)
  <1> DEFINE C == {e \in ToSet(es) : InContext(e)}
  <1>1. Keep(es, IsContext) \in Seq(Entry)
    BY KeepInSeq
  <1>2. Rebuilt(es) \in Seq(Message)
    BY <1>1, MessagesOfEntries DEF Rebuilt
  <1>3. DOMAIN es = 1..Len(es) /\ \A i \in DOMAIN es : es[i] \in Entry
    BY Elements
  <1>4. ASSUME NoCompaction(es) PROVE BuildContext(es) = Rebuilt(es)
    <2>1. ~\E i \in 1..Len(es) : es[i].kind = "compaction"
      BY <1>3, <1>4 DEF NoCompaction, ToSet
    <2>2. BuildContext(es) = Messages(Keep(es, C))
      BY <2>1, BuildContextIs DEF Those
    <2>3. ToSet(es) \cap C = ToSet(es) \cap IsContext
      BY <1>3 DEF IsContext, ToSet
    <2> HIDE DEF C
    <2>4. Keep(es, C) = Keep(es, IsContext)
      BY <2>3, KeepSame
    <2> QED BY <2>2, <2>4 DEF Rebuilt
  <1> QED BY <1>2, <1>4

LEMMA RebuiltConcat ==
  ASSUME NEW es \in Seq(Entry), NEW fs \in Seq(Entry)
  PROVE  Rebuilt(es \o fs) = Rebuilt(es) \o Rebuilt(fs)
  <1>1. Keep(es \o fs, IsContext) = Keep(es, IsContext) \o Keep(fs, IsContext)
    BY KeepConcat
  <1>2. Keep(es, IsContext) \in Seq(Entry) /\ Keep(fs, IsContext) \in Seq(Entry)
    BY KeepInSeq
  <1> QED BY <1>1, <1>2, MessagesConcat DEF Rebuilt

\* Messages that are journalled are rebuilt as they are.
LEMMA RebuiltMessages ==
  ASSUME NEW ms \in Seq(Message)
  PROVE  /\ Rebuilt(AsEntries("message", ms)) = ms
         /\ NoCompaction(AsEntries("message", ms))
  <1> DEFINE A == AsEntries("message", ms)
  <1>1. /\ A \in Seq(Entry) /\ DOMAIN A = 1..Len(ms) /\ DOMAIN ms = 1..Len(ms)
        /\ \A i \in 1..Len(ms) : A[i] = EntryOf("message", ms[i]) /\ ms[i] \in Message
    BY EntriesOfMessages, Elements DEF Kinds
  <1> HIDE DEF A
  <1>2. \A m \in Message : /\ EntryOf("message", m) \in IsContext
                           /\ EntryOf("message", m).kind = "message"
                           /\ MessageOf(EntryOf("message", m)) = m
    <2>1. \A m \in Message : MessageOf(EntryOf("message", m)) = m
      BY DEF MessageOf, EntryOf, Message
    <2>2. \A m \in Message : /\ EntryOf("message", m) \in Entry
                             /\ EntryOf("message", m).kind = "message"
      BY EntryOfMessage DEF Kinds
    <2> QED BY <2>1, <2>2 DEF IsContext, InContext
  <1>3. ToSet(A) \subseteq IsContext /\ NoCompaction(A)
    BY <1>1, <1>2 DEF ToSet, NoCompaction
  <1>4. Keep(A, IsContext) = A
    BY <1>1, <1>3, KeepAll
  <1>5. Messages(A) = ms
    BY <1>1, <1>2 DEF Messages
  <1> QED BY <1>3, <1>4, <1>5 DEF Rebuilt, A

\* Without refusals what is journalled is in memory and in the store.
LEMMA ReplayJournals ==
  ASSUME TypeOK, ReplayInv, NEW es \in Seq(Entry), NoCompaction(es),
         Journal(es, Ids(es))
  PROVE  /\ entries' = store'[sid'] /\ entries' = entries \o es
         /\ \A s \in DOMAIN store' : NoCompaction(store'[s])
         /\ Rebuilt(entries)' = Rebuilt(entries) \o Rebuilt(es)
  <1>1. SavedOf(es, Ids(es)) = es
    <2>1. ToSet(es) \subseteq {e \in ToSet(es) : e.id \in Ids(es)}
      BY DEF ToSet, Ids
    <2> QED BY <2>1, KeepAll DEF SavedOf
  <1>2. /\ entries' = entries \o es /\ sid' = sid
        /\ store' = [store EXCEPT ![sid] = store[sid] \o es]
    BY <1>1, JournalTypes
  <1>3. /\ store \in Seq(Seq(Entry)) /\ sid \in DOMAIN store /\ entries \in Seq(Entry)
        /\ entries = store[sid] /\ \A s \in DOMAIN store : NoCompaction(store[s])
    BY DEF TypeOK, ReplayInv
  <1>4. NoCompaction(entries \o es)
    <2>1. ToSet(entries \o es) = ToSet(entries) \cup ToSet(es)
      BY <1>3, ConcatElements
    <2> QED BY <1>3, <2>1 DEF NoCompaction
  <1>5. DOMAIN store' = DOMAIN store /\ store'[sid] = entries \o es
        /\ \A s \in DOMAIN store : s # sid => store'[s] = store[s]
    BY <1>2, <1>3
  <1>6. Rebuilt(entries \o es) = Rebuilt(entries) \o Rebuilt(es)
    BY <1>3, RebuiltConcat
  <1> QED BY <1>2, <1>3, <1>4, <1>5, <1>6 DEF Rebuilt

\* A step that journals nothing, and adds to the context what the run says.
LEMMA ReplayGrows ==
  ASSUME TypeOK, ReplayInv, UNCHANGED <<conversation, sink>>,
         phase' \notin {"compact", "autocompact"},
         NEW y \in Seq(Message), Spoken \in Seq(Message),
         context' = context \o y, Spoken' = Spoken \o y
  PROVE  ReplayInv'
  <1>1. Rebuilt(entries) \in Seq(Message)
    BY RebuiltIs DEF TypeOK
  <1>2. context' = Rebuilt(entries) \o (Spoken \o y)
    BY <1>1, ConcatAssociative DEF ReplayInv
  <1> QED BY <1>2 DEF ReplayInv, conversation, Rebuilt

LEMMA ReplaySame ==
  ASSUME ReplayInv, UNCHANGED <<conversation, sink, context>>, Spoken' = Spoken,
         phase' \notin {"compact", "autocompact"}
  PROVE  ReplayInv'
  BY DEF ReplayInv, conversation, Rebuilt

\* The end of a turn journals what the run has said, and nothing else.
LEMMA ReplayEnds ==
  ASSUME Undisturbed, TypeOK, ReplayInv, NEW new \in Seq(Message), EndTurn(new),
         context' = Rebuilt(entries) \o (AfterPrompts(produced) \o new)
  PROVE  ReplayInv'
  <1> DEFINE ms == AfterPrompts(produced) \o new  A == AsEntries("message", ms)
  <1>1. ms \in Seq(Message) /\ JournalTurn(ms)
    BY RunEnds
  <1> HIDE DEF ms
  <1>2. A \in Seq(Entry) /\ Rebuilt(A) = ms /\ NoCompaction(A)
    BY <1>1, EntriesOfMessages, RebuiltMessages DEF Kinds
  <1> HIDE DEF A
  <1>3. /\ \E saved \in Saves(A \o Writes) : Journal(A \o Writes, saved)
        /\ sink' = <<>> /\ phase' = "idle" /\ produced' = <<>> /\ promptsLen' = 0
    BY <1>1 DEF JournalTurn, A, Writes, EndRun, Undisturbed
  <1>4. Writes = <<>>
    BY DEF Writes, ReplayInv
  <1>5. Journal(A, Ids(A))
    <2>1. A \o <<>> = A
      BY <1>2
    <2> QED BY <1>3, <1>4, <2>1 DEF Saves, Undisturbed
  <1>6. /\ entries' = store'[sid'] /\ \A s \in DOMAIN store' : NoCompaction(store'[s])
        /\ Rebuilt(entries)' = Rebuilt(entries) \o ms
    BY <1>2, <1>5, ReplayJournals
  <1>7. Spoken' = <<>>
    BY <1>3, SpokenGone
  <1>8. Rebuilt(entries) \o ms = (Rebuilt(entries) \o ms) \o <<>>
    <2>1. Rebuilt(entries) \in Seq(Message)
      BY RebuiltIs DEF TypeOK
    <2> QED BY <1>1, <2>1
  <1> QED BY <1>3, <1>6, <1>7, <1>8 DEF ReplayInv, ms

\* The steps of a send.
LEMMA ReplayTurns ==
  ASSUME Undisturbed, ControlInv, ReplayInv, Turn
  PROVE  ReplayInv'
  <1>0. Types /\ Control /\ TypeOK
    BY TypesAreOK DEF ControlInv
  <1>1. /\ context \in Seq(Message) /\ steering \in Seq(Message)
        /\ followUp \in Seq(Message) /\ produced \in Seq(Message)
        /\ entries \in Seq(Entry)
    BY <1>0 DEF Types
  <1>e. <<>> \in Seq(Message)
    OBVIOUS
  <1>o. AfterPrompts(produced) \in Seq(Message)
    BY <1>0, <1>e, AfterPromptsParts
  <1>r. Rebuilt(entries) \in Seq(Message) /\ context = Rebuilt(entries) \o Spoken
    BY <1>1, RebuiltIs DEF ReplayInv
  <1> USE DEF run
  <1>2. ASSUME phase \notin Running PROVE Spoken = <<>>
    <2>1. produced = <<>> /\ promptsLen = 0 /\ phase # "stream"
      BY <1>0, <1>2 DEF Control, RunsWhileRunning, Running
    <2> QED BY <2>1 DEF Spoken, Partial, AfterPrompts
  <1>3. ASSUME Send \/ HookCancels PROVE ReplayInv'
    <2>1. /\ UNCHANGED <<conversation, sink, context, produced, promptsLen>>
          /\ phase # "stream" /\ phase' \in {"idle", "hooks"}
      BY <1>3 DEF Send, HookCancels
    <2> QED BY <2>1, SpokenSame, ReplaySame
  <1>4. ASSUME NEW c \in BOOLEAN, BeginTurn(c) PROVE ReplayInv'
    <2> DEFINE p == Prompts(c)
    <2>1. /\ context' = context \o p /\ Make(Len(p)) /\ produced' = p /\ phase = "hooks"
          /\ Journal(AsEntries("message", p), Ids(AsEntries("message", p)))
          /\ promptsLen' = Len(p) /\ phase' = "poll" /\ sink' = sink
      BY <1>4 DEF BeginTurn, Launch
    <2>2. Len(p) \in Nat
      BY DEF Prompts
    <2>3. p \in Seq(Message)
      BY <1>0, <2>1, <2>2, MadeNext, AllPrompts
    <2> HIDE DEF p
    <2>4. Spoken' = <<>>
      <3>1. SubSeq(p, Len(p) + 1, Len(p)) = <<>>
        BY <2>2, <2>3
      <3> QED BY <2>1, <3>1 DEF Spoken, Partial, AfterPrompts
    <2>5. AsEntries("message", p) \in Seq(Entry)
      BY <2>3, EntriesOfMessages DEF Kinds
    <2>6. /\ entries' = store'[sid'] /\ \A s \in DOMAIN store' : NoCompaction(store'[s])
          /\ Rebuilt(entries)' = Rebuilt(entries) \o p
      BY <1>0, <2>1, <2>3, <2>5, RebuiltMessages, ReplayJournals
    <2>7. context' = Rebuilt(entries)' \o <<>>
      <3>1. Spoken = <<>>
        BY <1>2, <2>1 DEF Running
      <3>2. Rebuilt(entries) \o <<>> = Rebuilt(entries)
            /\ (Rebuilt(entries) \o p) \o <<>> = Rebuilt(entries) \o p
        BY <1>r, <2>3
      <3> QED BY <1>r, <2>1, <2>6, <3>1, <3>2
    <2> QED BY <2>1, <2>4, <2>6, <2>7 DEF ReplayInv
  <1>5. ASSUME NEW y \in Seq(Message), UNCHANGED <<conversation, sink>>, phase # "stream",
               phase' \in Running, phase' # "stream", context' = context \o y,
               produced' = produced \o y, promptsLen' = promptsLen
        PROVE  ReplayInv'
    <2>1. Spoken = AfterPrompts(produced) /\ Spoken' = AfterPrompts(produced) \o y
      BY <1>0, <1>5, SpokenOutside, SpokenAdds
    <2> QED BY <1>0, <1>5, <1>o, <2>1, ReplayGrows DEF Running
  <1>6. ASSUME Poll PROVE ReplayInv'
    <2> DEFINE got == IF cancelled THEN <<>> ELSE Drained(steering)
    <2>1. /\ context' = context \o got /\ produced' = produced \o got
          /\ promptsLen' = promptsLen /\ phase = "poll" /\ phase' \in {"request", "stop"}
          /\ UNCHANGED <<conversation, sink>>
      BY <1>6 DEF Poll
    <2>2. got \in Seq(Message)
      BY <1>1, <1>e, DrainedParts
    <2> HIDE DEF got
    <2> QED BY <1>5, <2>1, <2>2 DEF Running
  <1>7. ASSUME NEW new \in Seq(Message), EndTurn(new), phase # "stream", context' = context \o new
        PROVE  ReplayInv'
    <2>1. Spoken = AfterPrompts(produced)
      BY <1>0, <1>7, SpokenOutside
    <2>2. context' = Rebuilt(entries) \o (AfterPrompts(produced) \o new)
      BY <1>7, <1>o, <1>r, <2>1, ConcatAssociative
    <2> QED BY <1>0, <1>7, <2>2, ReplayEnds
  <1>8. ASSUME RequestAborted PROVE ReplayInv'
    <2>1. /\ phase = "request" /\ context' = Append(context, Msg(1, "aborted")) /\ Make(1)
          /\ EndTurn(<<Msg(1, "aborted")>>)
      BY <1>8 DEF RequestAborted
    <2>2. Msg(1, "aborted") \in Message /\ <<Msg(1, "aborted")>> \in Seq(Message)
      BY <1>0, <2>1, FreshMessage DEF Authors
    <2>3. context' = context \o <<Msg(1, "aborted")>>
      BY <1>1, <2>1, <2>2, AppendIsConcat
    <2> QED BY <1>7, <2>1, <2>2, <2>3
  <1>9. ASSUME Request PROVE ReplayInv'
    <2>1. /\ context' = Append(context, Msg(1, "assistant")) /\ Make(1)
          /\ phase = "request" /\ phase' = "stream"
          /\ UNCHANGED <<produced, promptsLen, conversation, sink>>
      BY <1>9 DEF Request
    <2>2. Msg(1, "assistant") \in Message /\ <<Msg(1, "assistant")>> \in Seq(Message)
      BY <1>0, <2>1, FreshMessage DEF Authors
    <2>3. /\ Last(context') = Msg(1, "assistant")
          /\ context' = context \o <<Msg(1, "assistant")>>
      BY <1>1, <2>1, <2>2, AppendIsConcat DEF Last
    <2>4. Spoken' = AfterPrompts(produced) \o <<Msg(1, "assistant")>>
      BY <2>1, <2>3 DEF Spoken, Partial, AfterPrompts
    <2>5. Spoken = AfterPrompts(produced)
      BY <1>0, <2>1, SpokenOutside
    <2> QED BY <1>0, <1>o, <2>1, <2>2, <2>3, <2>4, <2>5, ReplayGrows
  <1>10. ASSUME phase = "stream"
         PROVE  /\ Spoken = AfterPrompts(produced) \o <<Last(context)>>
                /\ Last(context) \in Message /\ <<Last(context)>> \in Seq(Message)
                /\ Broken \in Message /\ <<Broken>> \in Seq(Message)
    <2>1. context # <<>>
      BY <1>0, <1>10 DEF Control, StreamHasContext
    <2> QED BY <1>0, <1>10, <2>1, BrokenParts DEF Spoken, Partial
  <1>11. ASSUME StreamBreaks PROVE ReplayInv'
    <2>1. /\ EndTurn(<<Broken>>) /\ phase = "stream"
          /\ context' = [context EXCEPT ![Len(context)] = Broken]
      BY <1>11, Zenon DEF StreamBreaks, Broken
    <2> DEFINE f == Rebuilt(entries) \o AfterPrompts(produced)  x == Last(context)
    <2>2. f \in Seq(Message) /\ x \in Message /\ Broken \in Message
      BY <1>o, <1>r, <1>10, <2>1
    <2>3. context = f \o <<x>>
      <3>1. context = Rebuilt(entries) \o (AfterPrompts(produced) \o <<x>>)
        BY <1>r, <1>10, <2>1
      <3>2. <<x>> \in Seq(Message)
        BY <1>10, <2>1
      <3> HIDE DEF x
      <3>3. f \o <<x>> = Rebuilt(entries) \o (AfterPrompts(produced) \o <<x>>)
        BY <1>o, <1>r, <3>2, ConcatAssociative
      <3> QED BY <3>1, <3>3
    <2>4. f \o <<Broken>> = Rebuilt(entries) \o (AfterPrompts(produced) \o <<Broken>>)
      BY <1>o, <1>r, <1>10, <2>1, ConcatAssociative
    <2> HIDE DEF f, x
    <2>5. context' = f \o <<Broken>>
      BY <2>1, <2>2, <2>3, ExceptLast
    <2> QED BY <1>0, <1>10, <2>1, <2>4, <2>5, ReplayEnds
  <1>12. ASSUME NEW m \in BOOLEAN, StreamDone(m) PROVE ReplayInv'
    <2>1. /\ phase = "stream" /\ context' = context
          /\ \/ EndTurn(<<Last(context)>>)
             \/ /\ phase' = "poll" /\ produced' = Append(produced, Last(context))
                /\ promptsLen' = promptsLen /\ UNCHANGED <<conversation, sink>>
      BY <1>12 DEF StreamDone
    <2>2. CASE EndTurn(<<Last(context)>>)
      BY <1>0, <1>r, <1>10, <2>1, <2>2, ReplayEnds
    <2>3. CASE /\ phase' = "poll" /\ produced' = Append(produced, Last(context))
               /\ promptsLen' = promptsLen /\ UNCHANGED <<conversation, sink>>
      <3>1. produced' = produced \o <<Last(context)>>
        BY <1>1, <1>10, <2>1, <2>3, AppendIsConcat
      <3>2. Spoken' = AfterPrompts(produced) \o <<Last(context)>>
        BY <1>0, <1>10, <2>1, <2>3, <3>1, SpokenAdds
      <3> QED BY <1>10, <2>1, <2>3, <3>2, ReplaySame
    <2> QED BY <2>1, <2>2, <2>3
  <1>c. context = context \o <<>>
    BY <1>1
  <1>13. ASSUME PollFollowUp PROVE ReplayInv'
    <2>0. PICK hook : FollowUpOrEnd(hook)
      BY <1>13, Zenon DEF PollFollowUp
    <2>1. /\ phase = "stop"
          /\ \/ Resume(Drained(followUp)) /\ UNCHANGED <<promptsLen, conversation, sink>>
             \/ phase' = "turn_end" /\ UNCHANGED <<context, produced, promptsLen, conversation, sink>>
             \/ EndTurn(<<>>) /\ context' = context
      BY <2>0 DEF FollowUpOrEnd
    <2>2. CASE Resume(Drained(followUp)) /\ UNCHANGED <<promptsLen, conversation, sink>>
      <3>1. Drained(followUp) \in Seq(Message)
        BY <1>1, DrainedParts
      <3> QED BY <1>5, <2>1, <2>2, <3>1 DEF Resume, Running
    <2>3. CASE phase' = "turn_end" /\ UNCHANGED <<context, produced, promptsLen, conversation, sink>>
      <3>1. Spoken' = Spoken
        BY <2>1, <2>3, SpokenSame
      <3> QED BY <2>3, <3>1, ReplaySame
    <2>4. CASE EndTurn(<<>>) /\ context' = context
      BY <1>7, <1>c, <1>e, <2>1, <2>4
    <2> QED BY <2>1, <2>2, <2>3, <2>4
  <1>14. ASSUME HookContinues PROVE ReplayInv'
    <2>1. /\ phase = "turn_end" /\ Make(1) /\ Resume(<<Msg(1, "hook")>>)
          /\ UNCHANGED <<promptsLen, conversation, sink>>
      BY <1>14 DEF HookContinues
    <2>2. <<Msg(1, "hook")>> \in Seq(Message)
      BY <1>0, <2>1, FreshMessage DEF Authors
    <2> QED BY <1>5, <2>1, <2>2 DEF Resume, Running
  <1>15. ASSUME HookLetsEnd PROVE ReplayInv'
    BY <1>7, <1>c, <1>e, <1>15 DEF HookLetsEnd
  <1>16. /\ ~LoopFails /\ ~Timeout /\ ~Compact /\ ~Summarised
         /\ \A k : ~ExtensionWrites(k)
         /\ \A c, i : ~PromptNotSaved(c, i)
    BY DEF Undisturbed, ReplayInv, LoopFails, Timeout, Compact, Summarised,
       ExtensionWrites, PromptNotSaved
  <1> QED BY <1>3, <1>4, <1>6, <1>8, <1>9, <1>11, <1>12, <1>13, <1>14, <1>15, <1>16,
             Zenon DEF Turn

\* The session operations.
LEMMA ReplayManages ==
  ASSUME Undisturbed, ControlInv, ReplayInv, Manage
  PROVE  ReplayInv'
  <1>0. Types /\ Control /\ TypeOK
    BY TypesAreOK DEF ControlInv
  <1>1. /\ entries \in Seq(Entry) /\ DOMAIN entries = 1..Len(entries)
        /\ Len(entries) \in Nat /\ NoCompaction(entries)
        /\ store \in Seq(Seq(Entry)) /\ DOMAIN store = 1..Len(store)
        /\ \A s \in DOMAIN store : NoCompaction(store[s])
    <2>1. /\ entries \in Seq(Entry) /\ store \in Seq(Seq(Entry)) /\ sid \in DOMAIN store
      BY <1>0 DEF Types
    <2>2. entries = store[sid] /\ \A s \in DOMAIN store : NoCompaction(store[s])
      BY DEF ReplayInv
    <2>3. NoCompaction(entries)
      BY <2>1, <2>2
    <2> QED BY <2>1, <2>2, <2>3
  <1>2. ASSUME phase = "idle", phase' = "idle", UNCHANGED <<produced, promptsLen>>
        PROVE  Spoken = <<>> /\ Spoken' = <<>>
    <2>1. produced = <<>> /\ promptsLen = 0
      BY <1>0, <1>2 DEF Control, RunsWhileRunning, Running
    <2> QED BY <1>2, <2>1 DEF Spoken, Partial, AfterPrompts
  <1>3. ASSUME NEW es \in Seq(Entry), Adopt(es), NoCompaction(es), store'[sid'] = es,
               \A s \in DOMAIN store' : NoCompaction(store'[s])
        PROVE  ReplayInv'
    <2>1. /\ entries' = es /\ context' = BuildContext(es) /\ phase = "idle"
          /\ UNCHANGED <<phase, produced, promptsLen, sink>>
      BY <1>3 DEF Adopt, run
    <2>2. context' = Rebuilt(es) /\ Rebuilt(es) \in Seq(Message)
      BY <1>3, <2>1, RebuiltIs
    <2>3. Rebuilt(es) = Rebuilt(es) \o <<>> /\ Rebuilt(entries)' = Rebuilt(es)
      BY <2>1, <2>2 DEF Rebuilt
    <2> QED BY <1>2, <1>3, <2>1, <2>2, <2>3 DEF ReplayInv
  <1>4. ASSUME NEW es \in Seq(Entry), NEW anc, NewSession(es, anc), Adopt(es), NoCompaction(es)
        PROVE  ReplayInv'
    <2>1. store' = Append(store, es) /\ sid' = Len(store')
      BY <1>4 DEF NewSession
    <2>2. store'[sid'] = es
      BY <1>1, <2>1
    <2>3. \A s \in DOMAIN store' : (s \in DOMAIN store /\ store'[s] = store[s]) \/ store'[s] = es
      BY <1>1, <2>1
    <2> QED BY <1>1, <1>3, <1>4, <2>2, <2>3
  <1>5. ASSUME ResetSession PROVE ReplayInv'
    <2>1. <<>> \in Seq(Entry) /\ NoCompaction(<<>>)
      BY DEF NoCompaction, ToSet
    <2> QED BY <1>4, <1>5, <2>1 DEF ResetSession
  <1>6. ASSUME CloneSession PROVE ReplayInv'
    BY <1>1, <1>4, <1>6 DEF CloneSession
  <1>7. ASSUME NEW i \in DOMAIN entries, Fork(i) PROVE ReplayInv'
    <2> DEFINE f == SubSeq(entries, 1, i - 1)
    <2>1. i - 1 \in 0..Len(entries)
      BY <1>1
    <2>2. /\ f \in Seq(Entry) /\ DOMAIN f = 1..(i - 1)
          /\ \A k \in 1..(i - 1) : f[k] = entries[k] /\ k \in DOMAIN entries
      BY <1>1, <2>1, SubSeqProperties
    <2>3. NewSession(f, lineage[sid]) /\ Adopt(f)
      BY <1>7 DEF Fork
    <2> HIDE DEF f
    <2>4. NoCompaction(f)
      BY <1>1, <2>2 DEF NoCompaction, ToSet
    <2> QED BY <1>4, <2>2, <2>3, <2>4
  <1>8. ASSUME NEW s \in DOMAIN store, SwitchSession(s) PROVE ReplayInv'
    <2>1. Adopt(store[s]) /\ sid' = s /\ store' = store /\ store[s] \in Seq(Entry)
      BY <1>1, <1>8 DEF SwitchSession
    <2> QED BY <1>1, <1>3, <2>1
  <1>9. ASSUME SetInfo PROVE ReplayInv'
    <2> DEFINE es == <<EntryOf("info", Msg(1, "custom"))>>
    <2>1. /\ Make(1) /\ \E saved \in Saves(es) : Journal(es, saved)
          /\ phase = "idle" /\ UNCHANGED <<phase, context, produced, promptsLen, sink>>
      BY <1>9, Zenon DEF SetInfo, run
    <2>2. es \in Seq(Entry)
      BY <1>0, <2>1, OneFreshEntry DEF Kinds
    <2>3. ToSet(es) \cap IsContext = {} /\ NoCompaction(es)
      BY DEF ToSet, IsContext, InContext, EntryOf, NoCompaction
    <2> HIDE DEF es
    <2>4. Journal(es, Ids(es))
      BY <2>1 DEF Saves, Undisturbed
    <2>5. Rebuilt(es) = <<>>
      <3>1. Keep(es, IsContext) = <<>>
        BY <2>2, <2>3, KeepNone
      <3> QED BY <3>1 DEF Rebuilt, Messages
    <2>6. /\ entries' = store'[sid'] /\ \A s \in DOMAIN store' : NoCompaction(store'[s])
          /\ Rebuilt(entries)' = Rebuilt(entries) \o <<>>
      BY <1>0, <2>2, <2>3, <2>4, <2>5, ReplayJournals
    <2>7. Rebuilt(entries) \in Seq(Message)
      BY <1>1, RebuiltIs
    <2>8. Rebuilt(entries)' = Rebuilt(entries)
      BY <2>6, <2>7
    <2>9. Spoken' = Spoken
      BY <1>2, <2>1
    <2> QED BY <2>1, <2>6, <2>8, <2>9 DEF ReplayInv
  <1>10. \A n : ~BranchFails(entries, n)
    BY DEF BranchFails, Undisturbed
  <1> QED BY <1>5, <1>6, <1>7, <1>8, <1>9, <1>10, Zenon DEF Manage

LEMMA ReplayStep ==
  ASSUME Undisturbed PROVE ControlInv /\ ReplayInv /\ [Next]_vars => ReplayInv'
  <1> SUFFICES ASSUME ControlInv, ReplayInv, [Next]_vars PROVE ReplayInv'
    OBVIOUS
  <1>1. CASE Turn
    BY <1>1, ReplayTurns
  <1>2. CASE Manage
    BY <1>2, ReplayManages
  <1>3. CASE Handles \/ UNCHANGED vars
    <2>1. UNCHANGED <<conversation, sink, context, phase, produced, promptsLen>>
      BY <1>3 DEF Handles, EnqueueSteer, EnqueueFollowUp, Abort, vars, run
    <2>2. Spoken' = Spoken
      BY <2>1, SpokenSame
    <2>3. phase' \notin {"compact", "autocompact"}
      BY <2>1 DEF ReplayInv
    <2> QED BY <2>1, <2>2, <2>3, ReplaySame
  <1> QED BY <1>1, <1>2, <1>3 DEF Next

LEMMA ReplayInit == Init => ReplayInv
  <1> SUFFICES ASSUME Init PROVE ReplayInv
    OBVIOUS
  <1>1. /\ phase = "idle" /\ context = <<>> /\ entries = <<>> /\ store = <<<<>>>> /\ sid = 1
        /\ sink = <<>> /\ produced = <<>> /\ promptsLen = 0
    BY DEF Init
  <1>2. Rebuilt(<<>>) = <<>>
    <2>1. Keep(<<>>, IsContext) = <<>>
      BY KeepEmpty
    <2> QED BY <2>1 DEF Rebuilt, Messages
  <1>3. Spoken = <<>>
    BY <1>1 DEF Spoken, Partial, AfterPrompts
  <1>4. NoCompaction(<<>>)
    BY DEF NoCompaction, ToSet
  <1>5. \A s \in DOMAIN store : store[s] = <<>>
    BY <1>1
  <1> QED BY <1>1, <1>2, <1>3, <1>4, <1>5 DEF ReplayInv

LEMMA ReplaySound == ControlInv /\ ReplayInv => ResumeReplays
  <1> SUFFICES ASSUME ControlInv, ReplayInv, phase = "idle"
               PROVE  BuildContext(store[sid]) = context
    BY DEF ResumeReplays
  <1>1. /\ produced = <<>> /\ promptsLen = 0 /\ entries \in Seq(Entry) /\ sid \in DOMAIN store
    BY DEF ControlInv, Control, RunsWhileRunning, Running, Types
  <1>2. Spoken = <<>>
    BY <1>1 DEF Spoken, Partial, AfterPrompts
  <1>3. BuildContext(entries) = Rebuilt(entries) /\ Rebuilt(entries) \in Seq(Message)
    BY <1>1, RebuiltIs DEF ReplayInv
  <1>4. Rebuilt(entries) \o <<>> = Rebuilt(entries)
    BY <1>3
  <1> QED BY <1>2, <1>3, <1>4 DEF ReplayInv

\* A session that meets no fault resumes with the conversation it has, through any
\* number of sends, continuations, aborts, forks, clones, resets and switches
\* (send_message's two journal writes against build_context).
THEOREM UndisturbedResumes == Undisturbed => (Spec => []ResumeReplays)
  <1> SUFFICES ASSUME Undisturbed PROVE Spec => []ResumeReplays
    OBVIOUS
  <1>1. ControlInv /\ ReplayInv /\ [Next]_vars => ReplayInv'
    BY ReplayStep
  <1>2. Spec => []ReplayInv
    BY <1>1, ReplayInit, ControlHolds, PTL DEF Spec
  <1> QED BY <1>2, ReplaySound, ControlHolds, PTL
=============================================================================
