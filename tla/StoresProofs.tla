----------------------------- MODULE StoresProofs -----------------------------
(***************************************************************************)
(* Proofs about what processes share in files (MCStores), for any number   *)
(* of processes, connections, sessions and entries: a directory with one   *)
(* writer and the database implement the contract of the session store, an *)
(* import is complete, no setting is lost, the watcher has the last word.  *)
(* StoresAssumption and NoneAssumption are all that is assumed: imported   *)
(* sessions are of both stores, and what stands for none is nothing else.  *)
(***************************************************************************)
EXTENDS MCStores, SequenceLemmas

----------------------------------------------------------------------------
(* The imported directory and the directory of the contract are a          *)
(* JsonlStore, to which the proofs about JsonlStore apply.                 *)

DirProofs == INSTANCE JsonlStoreProofs WITH
  files <- dir, op <- dirOp, nextEntry <- dirNext, acked <- dirAcked,
  Writers <- {"writer"}, Interrupts <- FALSE,
  Sessions <- DirSessions, MaxEntries <- DirEntries

\* Both instances say the same.
LEMMA SameText == DirProofs!Text = Dir!Text
  BY DEF DirProofs!Text, DirProofs!Torn, Dir!Text, Dir!Torn, DirProofs!Entries, Dir!Entries

LEMMA SameLoad == \A f : DirProofs!Load(f) = Dir!Load(f)
  BY DEF DirProofs!Load, Dir!Load, DirProofs!NonBlank, Dir!NonBlank, DirProofs!Keep, Dir!Keep,
         DirProofs!Texts, Dir!Texts, DirProofs!Parses, Dir!Parses, DirProofs!Corrupt,
         Dir!Corrupt, DirProofs!Torn, Dir!Torn

LEMMA SameView == DirProofs!View = Dir!View /\ DirProofs!View' = Dir!View'
  BY SameLoad DEF DirProofs!View, Dir!View

LEMMA SameEntriesUpTo ==
  \A log : DirProofs!Contract!EntriesUpTo(log) = Dir!Contract!EntriesUpTo(log)
  BY DEF DirProofs!Entries, Dir!Entries,
         DirProofs!Contract!EntriesUpTo, Dir!Contract!EntriesUpTo,
         DirProofs!Contract!Copied, Dir!Contract!Copied,
         DirProofs!Contract!Before, Dir!Contract!Before,
         DirProofs!Contract!Positions, Dir!Contract!Positions,
         DirProofs!Contract!Keep, Dir!Contract!Keep

LEMMA SameContract == /\ DirProofs!Contract!Next <=> Dir!Contract!Next
                      /\ DirProofs!Contract!Init <=> Dir!Contract!Init
  <1>1. /\ \A h, l : DirProofs!Contract!Record(h, l) = Dir!Contract!Record(h, l)
        /\ \A s, parent : DirProofs!Contract!Header(s, parent) = Dir!Contract!Header(s, parent)
        /\ \A e : DirProofs!Contract!Entry(e) = Dir!Contract!Entry(e)
        /\ DirProofs!Entries = Dir!Entries
    BY DEF DirProofs!Entries, Dir!Entries, DirProofs!Contract!Header, Dir!Contract!Header,
           DirProofs!Contract!Record, Dir!Contract!Record,
           DirProofs!Contract!Entry, Dir!Contract!Entry
  <1>2. \A s : DirProofs!Contract!Create(s) <=> Dir!Contract!Create(s)
    BY <1>1, SameView DEF DirProofs!Contract!Create, Dir!Contract!Create
  <1>3. \A s, e : DirProofs!Contract!AppendEntry(s, e) <=> Dir!Contract!AppendEntry(s, e)
    BY <1>1, SameView DEF DirProofs!Contract!AppendEntry, Dir!Contract!AppendEntry
  <1>4. \A from, s : DirProofs!Contract!Fork(from, s) <=> Dir!Contract!Fork(from, s)
    BY <1>1, SameView, SameEntriesUpTo DEF DirProofs!Contract!Fork, Dir!Contract!Fork
  <1>5. DirProofs!Contract!Init <=> Dir!Contract!Init
    BY SameView DEF DirProofs!Contract!Init, Dir!Contract!Init
  <1>6. DirProofs!Contract!Next <=> Dir!Contract!Next
    BY <1>1, <1>2, <1>3, <1>4 DEF DirProofs!Contract!Next, Dir!Contract!Next
  <1> QED BY <1>5, <1>6

LEMMA SameInit == DirProofs!Init <=> Dir!Init
  BY DEF DirProofs!Init, Dir!Init, DirProofs!NoFile, Dir!NoFile, DirProofs!Idle, Dir!Idle

LEMMA SameOpens ==
  ASSUME NEW w, NEW s
  PROVE  /\ DirProofs!Create(w, s) <=> Dir!Create(w, s)
         /\ DirProofs!AppendEntry(w, s) <=> Dir!AppendEntry(w, s)
         /\ \A from : DirProofs!Fork(w, from, s) <=> Dir!Fork(w, from, s)
  <1>1. \A step, content : DirProofs!Begin(w, step, s, content) <=> Dir!Begin(w, step, s, content)
    BY DEF DirProofs!Begin, Dir!Begin, DirProofs!Idle, Dir!Idle
  <1>2. DirProofs!EmptyFile = Dir!EmptyFile
    BY DEF DirProofs!EmptyFile, Dir!EmptyFile, DirProofs!NoFile, Dir!NoFile
  <1>3. /\ \A parent : DirProofs!Header(s, parent) = Dir!Header(s, parent)
        /\ \A e : DirProofs!Entry(e) = Dir!Entry(e)
    BY DEF DirProofs!Header, Dir!Header, DirProofs!Entry, Dir!Entry
  <1>4. DirProofs!Create(w, s) <=> Dir!Create(w, s)
    BY <1>1, <1>2, <1>3 DEF DirProofs!Create, Dir!Create
  <1>5. DirProofs!AppendEntry(w, s) <=> Dir!AppendEntry(w, s)
    BY <1>1, <1>3 DEF DirProofs!AppendEntry, Dir!AppendEntry
  <1>6. \A from : DirProofs!Fork(w, from, s) <=> Dir!Fork(w, from, s)
    BY <1>1, <1>2, <1>3, SameLoad, SameEntriesUpTo DEF DirProofs!Fork, Dir!Fork
  <1> QED BY <1>4, <1>5, <1>6

LEMMA SameWrites ==
  ASSUME NEW w
  PROVE  /\ DirProofs!WriteText(w) <=> Dir!WriteText(w)
         /\ DirProofs!WriteNewline(w) <=> Dir!WriteNewline(w)
         /\ DirProofs!WriteContent(w) <=> Dir!WriteContent(w)
         /\ ~DirProofs!Interrupt(w) /\ ~Dir!Interrupt(w)
  <1>1. DirProofs!Ack(w) <=> Dir!Ack(w)
    BY DEF DirProofs!Ack, Dir!Ack, DirProofs!Idle, Dir!Idle, DirProofs!EntryIds, Dir!EntryIds
  <1>2. /\ \A f, lines, rest : DirProofs!Extended(f, lines, rest) = Dir!Extended(f, lines, rest)
        /\ \A c, n : DirProofs!AsLines(c, n) = Dir!AsLines(c, n)
    BY DEF DirProofs!Extended, Dir!Extended, DirProofs!AsLines, Dir!AsLines
  <1>3. DirProofs!WriteText(w) <=> Dir!WriteText(w)
    BY DEF DirProofs!WriteText, Dir!WriteText
  <1>4. DirProofs!WriteNewline(w) <=> Dir!WriteNewline(w)
    BY <1>1 DEF DirProofs!WriteNewline, Dir!WriteNewline
  <1>5. DirProofs!WriteContent(w) <=> Dir!WriteContent(w)
    BY <1>1, <1>2 DEF DirProofs!WriteContent, Dir!WriteContent
  <1>6. ~DirProofs!Interrupt(w) /\ ~Dir!Interrupt(w)
    BY DEF DirProofs!Interrupt, Dir!Interrupt
  <1> QED BY <1>3, <1>4, <1>5, <1>6

LEMMA SameNext == DirProofs!Next <=> Dir!Next
  BY SameOpens, SameWrites DEF DirProofs!Next, Dir!Next

DirInv == DirProofs!FileInv /\ DirProofs!Solo("writer")

LEMMA DirAssumptions == DirProofs!StoreAssumption /\ DirProofs!NoSessionAssumption
  <1>1. DirProofs!StoreAssumption
    BY StoresAssumption, NoneAssumption DEF DirProofs!StoreAssumption
  <1>2. DirProofs!NoSessionAssumption
    BY NoneAssumption, SameText DEF DirProofs!NoSessionAssumption
  <1> QED BY <1>1, <1>2

LEMMA DirStarts == Dir!Init => DirInv /\ Dir!Contract!Init
  <1> SUFFICES ASSUME Dir!Init PROVE DirInv /\ Dir!Contract!Init
    OBVIOUS
  <1>1. DirProofs!Init
    BY SameInit
  <1>2. DirProofs!FileInv
    BY <1>1, DirAssumptions, DirProofs!FileInit
  <1>3. DirProofs!Solo("writer") /\ DirProofs!Contract!Init
    BY <1>1, DirAssumptions, DirProofs!SoloInit
  <1> QED BY <1>2, <1>3, SameContract DEF DirInv

LEMMA DirKeeps ==
  ASSUME DirInv, [Dir!Next]_dirVars
  PROVE  DirInv' /\ (Dir!Contract!Next \/ Dir!View' = Dir!View)
  <1>1. [DirProofs!Next]_(DirProofs!vars)
    BY SameNext DEF DirProofs!vars, dirVars
  <1>2. DirProofs!FileInv'
    BY <1>1, DirAssumptions, DirProofs!FileStep DEF DirInv
  <1>3. DirProofs!Solo("writer")' /\ (DirProofs!Contract!Next \/ DirProofs!View' = DirProofs!View)
    BY <1>1, DirAssumptions, DirProofs!SoloStep DEF DirInv
  <1> QED BY <1>2, <1>3, SameContract, SameView DEF DirInv

\* What a load of the directory finds.
DirHeaders == [kind : {"session"}, id : DirSessions, parent : DirSessions \cup {NoSession}]
DirFinds(found) == \/ found = NoSession
                   \/ \E h \in DirHeaders, log \in Seq(Dir!Text) : found = [header |-> h, entries |-> log]

LEMMA SessionTexts ==
  ASSUME NEW t \in Dir!Text, t.kind = "session" PROVE t \in DirHeaders
  BY DEF Dir!Text, Dir!Torn, DirHeaders

LEMMA LoadFinds ==
  ASSUME DirInv, NEW s \in DirSessions PROVE DirFinds(Dir!View[s])
  <1> DEFINE f == dir[s]
  <1>1. f \in DirProofs!File
    BY DEF DirInv, DirProofs!FileInv, DirProofs!TypeOK, DirProofs!File
  <1>2. Dir!View[s] = IF Dir!Load(f).ok
                        THEN [header |-> Dir!Load(f).header, entries |-> Dir!Load(f).entries]
                        ELSE NoSession
    BY DEF Dir!View
  <1> HIDE DEF f
  <1>3. ASSUME Dir!Load(f).ok
        PROVE  Dir!Load(f).header \in DirHeaders /\ Dir!Load(f).entries \in Seq(Dir!Text)
    <2>1. /\ DirProofs!Parsed(f) # <<>> /\ DirProofs!Parsed(f)[1].kind = "session"
          /\ Dir!Load(f) = [ok |-> TRUE, header |-> DirProofs!Parsed(f)[1],
                            entries |-> Tail(DirProofs!Parsed(f))]
      BY <1>1, <1>3, SameLoad, DirAssumptions, DirProofs!LoadReads
    <2>2. DirProofs!Parsed(f) \in Seq(Dir!Text)
      BY <1>1, SameText, DirAssumptions, DirProofs!ReadParts
    <2> DEFINE p == DirProofs!Parsed(f)
    <2>3. Tail(p) \in Seq(Dir!Text) /\ p[1] \in Dir!Text
      <3> HIDE DEF p
      <3>1. p \in Seq(Dir!Text) /\ p # <<>>
        BY <2>1, <2>2 DEF p
      <3> QED BY <3>1
    <2> QED BY <2>1, <2>3, SessionTexts
  <1> QED BY <1>2, <1>3 DEF DirFinds

\* A session that the directory shows it goes on to show, with its entries.
LEMMA DirShowsMore ==
  ASSUME DirInv, [Dir!Next]_dirVars, NEW s \in DirSessions, Dir!View[s] # NoSession
  PROVE  /\ Dir!View'[s] # NoSession
         /\ Sql!EntryIds(Dir!View[s].entries) \subseteq Sql!EntryIds(Dir!View'[s].entries)
  <1>1. CASE Dir!View' = Dir!View
    BY <1>1
  <1> DEFINE v == Dir!View  w == Dir!View'
  <1>2. PICK h \in DirHeaders, log \in Seq(Dir!Text) : v[s] = [header |-> h, entries |-> log]
    BY LoadFinds DEF DirFinds
  <1>3. CASE Dir!Contract!Next
    <2>2. v \in [DirSessions -> {v[t] : t \in DirSessions}]
      BY DEF Dir!View
    <2>3. ASSUME NEW t \in DirSessions, Dir!Contract!Create(t) PROVE w[s] = v[s]
      <3>1. t # s
        BY <2>3 DEF Dir!Contract!Create
      <3>2. w = [v EXCEPT ![t] = Dir!Contract!Record(Dir!Contract!Header(t, NoSession), <<>>)]
        BY <2>3 DEF Dir!Contract!Create
      <3> HIDE DEF v, w
      <3> QED BY <2>2, <3>1, <3>2
    <2>4. ASSUME NEW t \in DirSessions, NEW from \in DirSessions, Dir!Contract!Fork(from, t)
          PROVE  w[s] = v[s]
      <3>1. t # s
        BY <2>4 DEF Dir!Contract!Fork
      <3>2. PICK new : w = [v EXCEPT ![t] = new]
        BY <2>4 DEF Dir!Contract!Fork
      <3> HIDE DEF v, w
      <3> QED BY <2>2, <3>1, <3>2
    <2>5. ASSUME NEW t \in DirSessions, NEW e \in Dir!Entries, Dir!Contract!AppendEntry(t, e)
          PROVE  \/ w[s] = v[s]
                 \/ \E x \in Dir!Text : w[s] = [header |-> h, entries |-> Append(log, x)]
      <3> DEFINE x == Dir!Contract!Entry(e)
      <3>1. w = [v EXCEPT ![t] = [v[t] EXCEPT !.entries = Append(v[t].entries, x)]]
        BY <2>5 DEF Dir!Contract!AppendEntry
      <3>2. x \in Dir!Text
        BY DEF Dir!Contract!Entry, Dir!Text
      <3> HIDE DEF v, w, x
      <3>3. CASE t # s
        BY <2>2, <3>1, <3>3
      <3>4. CASE t = s
        <4>1. w[s] = [v[s] EXCEPT !.entries = Append(v[s].entries, x)]
          BY <2>2, <3>1, <3>4
        <4>2. v[s].entries = log
          BY <1>2
        <4>3. w[s] = [[header |-> h, entries |-> log] EXCEPT !.entries = Append(log, x)]
          BY <1>2, <4>1, <4>2
        <4>4. w[s] = [header |-> h, entries |-> Append(log, x)]
          BY <4>3
        <4> QED BY <3>2, <4>4
      <3> QED BY <3>3, <3>4
    <2>6. w[s] = v[s] \/ \E x \in Dir!Text : w[s] = [header |-> h, entries |-> Append(log, x)]
      BY <1>3, <2>3, <2>4, <2>5 DEF Dir!Contract!Next
    <2> HIDE DEF v, w
    <2>7. CASE w[s] = v[s]
      BY <2>7 DEF v, w
    <2>8. CASE \E x \in Dir!Text : w[s] = [header |-> h, entries |-> Append(log, x)]
      <3>1. PICK x \in Dir!Text : w[s] = [header |-> h, entries |-> Append(log, x)]
        BY <2>8
      <3> DEFINE z == Len(log)
      <3>2. /\ DOMAIN log = 1..z /\ z \in Nat /\ DOMAIN Append(log, x) = 1..(z + 1)
            /\ \A k \in 1..z : Append(log, x)[k] = log[k]
            /\ Append(log, x) \in Seq(Dir!Text)
        OBVIOUS
      <3> HIDE DEF z
      <3>3. Sql!EntryIds(log) \subseteq Sql!EntryIds(Append(log, x))
        BY <3>2 DEF Sql!EntryIds
      <3>4. w[s].entries = Append(log, x) /\ v[s].entries = log
        BY <1>2, <3>1
      <3>5. h \in Dir!Text
        BY DEF DirHeaders, Dir!Text
      <3>6. w[s] # NoSession
        BY <3>1, <3>2, <3>5, NoneAssumption
      <3> QED BY <3>3, <3>4, <3>6 DEF v, w
    <2> QED BY <2>6, <2>7, <2>8
  <1> QED BY <1>1, <1>3, DirKeeps


----------------------------------------------------------------------------
(* The database. *)

Rows == [header : SqlHeaders, entries : Seq(SqlTexts)]

Appends == [op : {"append"}, fresh : BOOLEAN, session : Sessions, seq : Nat,
            entry : {Sql!Entry(e) : e \in NewEntries}]
Forks == [op : {"fork"}, fresh : BOOLEAN, session : Sessions, header : SqlHeaders,
          entries : Seq(SqlTexts)]
IsImport(t) == t.op = "import" /\ t = [op |-> "import", todo |-> t.todo, due |-> t.due]
IsImporting(t) ==
  /\ t.op = "importing"
  /\ t = [op |-> "importing", todo |-> t.todo, due |-> t.due, session |-> t.session,
          header |-> t.header, entries |-> t.entries]
  /\ t.session \in Sessions /\ t.header \in SqlHeaders /\ t.entries \in Seq(SqlTexts)

\* What a connection is doing.
TxKind(t) == t = Sql!Idle \/ t \in Appends \/ t \in Forks \/ IsImport(t) \/ IsImporting(t)

\* The snapshot of a transaction nobody has overtaken is what the tables hold.
Snapshot(t) ==
  /\ t.op = "append" /\ t.fresh =>
       rows[t.session] # NoSession /\ t.seq = Len(rows[t.session].entries) + 1
  /\ t.op = "fork" /\ t.fresh =>
       \E from \in Sessions :
         /\ rows[from] # NoSession
         /\ t.header = Sql!Header(t.session, rows[from].header.id)
         /\ t.entries \in Sql!Contract!EntriesUpTo(rows[from].entries)

\* What an import is due to bring over is still in the directory.
DueThere(t) ==
  t.op \in {"import", "importing"} =>
    \A s \in Sessions : t.due[s] # {} =>
      /\ s \in FileSessions /\ Dir!View[s] # NoSession
      /\ t.due[s] \subseteq Sql!EntryIds(Dir!View[s].entries)

\* Sql!ImportComplete, of one connection.
Complete(t) ==
  /\ t.op = "importing" => t.due[t.session] \subseteq Sql!EntryIds(t.entries)
  /\ t.op \in {"import", "importing"} =>
       \A s \in Sessions :
         \/ t.due[s] = {}
         \/ s \in t.todo
         \/ t.op = "importing" /\ s = t.session
         \/ rows[s] # NoSession

\* What a connection that holds the write lock is at.
Holds(t) == /\ t.op \in {"append", "fork", "importing"}
            /\ t.op \in {"append", "fork"} => t.fresh

ConnOK(t) == TxKind(t) /\ Snapshot(t) /\ DueThere(t) /\ Complete(t)

SqlInv ==
  /\ rows \in [Sessions -> Rows \cup {NoSession}]
  /\ unused \subseteq NewEntries
  /\ DOMAIN tx = Conns
  /\ \A c \in Conns : ConnOK(tx[c]) /\ (writer = c => Holds(tx[c]))

LEMMA SameCardinality == \A T : Sql!Cardinality(T) = Cardinality(T)
  BY DEF Sql!Cardinality, Cardinality

\* Reading the table of a session.
LEMMA SelectsAll ==
  ASSUME NEW S, NEW log \in Seq(S)
  PROVE  Sql!SelectEntries(log) = log /\ Sql!NextSeq(log) = Len(log) + 1
  <1> DEFINE z == Len(log)
  <1>1. z \in Nat /\ DOMAIN log = 1..z /\ log \in [1..z -> S]
    OBVIOUS
  <1>2. \A n \in Nat : Cardinality(1..n) = n
    BY FS_Interval
  <1> HIDE DEF z
  <1>3. Sql!SelectEntries(log) = log
    <2> DEFINE at(n) == CHOOSE k \in DOMAIN log : Sql!Cardinality({j \in DOMAIN log : j <= k}) = n
    <2>1. ASSUME NEW n \in 1..z PROVE at(n) = n
      <3>1. \A k \in 1..z : {j \in 1..z : j <= k} = 1..k /\ k \in Nat
        BY <1>1
      <3>2. \A k \in 1..z : Sql!Cardinality({j \in 1..z : j <= k}) = k
        BY <1>2, <3>1, SameCardinality
      <3>3. (CHOOSE k \in 1..z : Sql!Cardinality({j \in 1..z : j <= k}) = n) = n
        BY <3>2
      <3> QED BY <1>1, <3>3
    <2>2. Sql!Cardinality(DOMAIN log) = z
      BY <1>1, <1>2, SameCardinality
    <2>3. Sql!SelectEntries(log) = [n \in 1..Sql!Cardinality(DOMAIN log) |-> log[at(n)]]
      BY DEF Sql!SelectEntries
    <2> HIDE DEF at
    <2> QED BY <1>1, <2>1, <2>2, <2>3
  <1>4. Sql!NextSeq(log) = z + 1
    <2> DEFINE top == CHOOSE n \in DOMAIN log : \A m \in DOMAIN log : m <= n
    <2>1. Sql!NextSeq(log) = 1 + (IF DOMAIN log = {} THEN 0 ELSE top)
      BY DEF Sql!NextSeq
    <2>2. CASE z = 0
      BY <1>1, <2>1, <2>2
    <2>3. CASE z # 0
      <3>1. z \in 1..z /\ 1..z # {} /\ \A m \in 1..z : m <= z
        BY <1>1, <2>3
      <3>2. (CHOOSE n \in 1..z : \A m \in 1..z : m <= n) = z
        BY <1>1, <3>1
      <3>3. top = z
        BY <1>1, <3>2
      <3> HIDE DEF top
      <3> QED BY <1>1, <2>1, <3>1, <3>3
    <2> QED BY <2>2, <2>3
  <1> QED BY <1>3, <1>4 DEF z

LEMMA RowsSelected ==
  ASSUME NEW R \in [Sessions -> Rows \cup {NoSession}]
  PROVE  R = [s \in Sessions |-> IF R[s] = NoSession THEN NoSession
                                 ELSE [header |-> R[s].header,
                                       entries |-> Sql!SelectEntries(R[s].entries)]]
  <1>1. ASSUME NEW s \in Sessions
        PROVE  R[s] = (IF R[s] = NoSession THEN NoSession
                       ELSE [header |-> R[s].header,
                             entries |-> Sql!SelectEntries(R[s].entries)])
    <2>1. CASE R[s] = NoSession
      BY <2>1
    <2>2. CASE R[s] # NoSession
      <3>1. R[s] \in Rows
        BY <2>2
      <3>2. Sql!SelectEntries(R[s].entries) = R[s].entries
        BY <3>1, SelectsAll DEF Rows
      <3> QED BY <2>2, <3>1, <3>2 DEF Rows
    <2> QED BY <2>1, <2>2
  <1> QED BY <1>1

\* What a load returns is the row.
LEMMA SqlViewIsRows ==
  /\ SqlInv => Sql!View = rows
  /\ SqlInv' => Sql!View' = rows'
  <1>1. SqlInv => Sql!View = rows
    BY RowsSelected DEF SqlInv, Sql!View
  <1>2. SqlInv' => Sql!View' = rows'
    BY RowsSelected DEF SqlInv, Sql!View
  <1> QED BY <1>1, <1>2

\* What a fork copies is entries.
LEMMA SqlCopies ==
  ASSUME NEW log \in Seq(SqlTexts), NEW copied \in Sql!Contract!EntriesUpTo(log)
  PROVE  copied \in Seq(SqlTexts)
  <1>1. ASSUME NEW u \in Seq(SqlTexts) PROVE Sql!Contract!Copied(u) \in Seq(SqlTexts)
    <2>1. \A T : Sql!Contract!Keep(u, T) = Keep(u, T)
      BY DEF Sql!Contract!Keep, Keep
    <2> QED BY <2>1, KeepInSeq DEF Sql!Contract!Copied
  <1>2. CASE copied = Sql!Contract!Copied(log)
    BY <1>1, <1>2
  <1>3. ASSUME NEW e, Sql!Contract!Positions(log, e) # {}, copied = Sql!Contract!Before(log, e)
        PROVE  copied \in Seq(SqlTexts)
    <2> DEFINE P == Sql!Contract!Positions(log, e)
               cut == CHOOSE k \in P : \A j \in P : k <= j
    <2>1. P \subseteq 1..Len(log) /\ P \subseteq Nat /\ P # {}
      BY <1>3 DEF Sql!Contract!Positions
    <2>2. copied = Sql!Contract!Copied(SubSeq(log, 1, cut - 1))
      BY <1>3 DEF Sql!Contract!Before
    <2> HIDE DEF P
    <2>3. \E k \in P : \A j \in P : k <= j
      BY <2>1, MinOfPlaces
    <2>4. cut \in P
      BY <2>3
    <2> HIDE DEF cut
    <2>5. cut - 1 \in 0..Len(log)
      BY <2>1, <2>4
    <2>6. SubSeq(log, 1, cut - 1) \in Seq(SqlTexts)
      BY <2>5
    <2> QED BY <1>1, <2>2, <2>6
  <1> QED BY <1>2, <1>3 DEF Sql!Contract!EntriesUpTo

LEMMA NoRow == NoSession \notin Rows
  BY NoneAssumption DEF Rows

\* What a load of the directory finds, as a row.
LEMMA FoundIsRow ==
  ASSUME DirInv, NEW s \in FileSessions, Dir!View[s] # NoSession
  PROVE  Dir!View[s].header \in SqlHeaders /\ Dir!View[s].entries \in Seq(SqlTexts)
  <1>1. s \in DirSessions
    BY StoresAssumption
  <1>2. PICK h \in DirHeaders, log \in Seq(Dir!Text) : Dir!View[s] = [header |-> h, entries |-> log]
    BY <1>1, LoadFinds DEF DirFinds
  <1>3. h \in SqlHeaders
    BY DEF DirHeaders, SqlHeaders
  <1>4. Dir!Text \subseteq SqlTexts
    BY DEF SqlTexts
  <1> HIDE DEF SqlTexts
  <1>5. log \in Seq(SqlTexts)
    <2>1. \A k \in 1..Len(log) : log[k] \in SqlTexts
      BY <1>4
    <2>2. log \in [1..Len(log) -> SqlTexts] /\ Len(log) \in Nat
      BY <2>1
    <2> QED BY <2>2
  <1> QED BY <1>2, <1>3, <1>5

LEMMA IdleConn == ConnOK(Sql!Idle) /\ Sql!Idle.op = "idle"
  <1>1. Sql!Idle.op = "idle"
    BY DEF Sql!Idle
  <1> QED BY <1>1 DEF ConnOK, TxKind, Snapshot, DueThere, Complete

LEMMA SqlStarts == Sql!Init => SqlInv
  <1> SUFFICES ASSUME Sql!Init PROVE SqlInv
    OBVIOUS
  <1>1. /\ rows \in [Sessions -> Rows \cup {NoSession}] /\ unused \subseteq NewEntries
        /\ DOMAIN tx = Conns /\ \A c \in Conns : tx[c] = Sql!Idle /\ writer # c
    BY StoresAssumption DEF Sql!Init
  <1> QED BY <1>1, IdleConn DEF SqlInv

\* One connection moves on and the tables stay.
Moves(c, new) ==
  /\ DOMAIN tx' = Conns /\ tx'[c] = new
  /\ \A d \in Conns : d # c => tx'[d] = tx[d]

LEMMA MovesBy ==
  ASSUME SqlInv, NEW c \in Conns, NEW new, tx' = [tx EXCEPT ![c] = new]
  PROVE  Moves(c, new)
  BY DEF SqlInv, Moves

LEMMA ConnMoves ==
  ASSUME SqlInv, NEW c \in Conns, NEW new, Moves(c, new),
         rows' = rows, Dir!View' = Dir!View, unused' \subseteq unused, ConnOK(new),
         \A d \in Conns : writer' = d => IF d = c THEN Holds(new) ELSE writer = d
  PROVE  SqlInv'
  <1>1. \A t : ConnOK(t) => ConnOK(t)'
    BY DEF ConnOK, TxKind, Snapshot, DueThere, Complete
  <1>2. \A d \in Conns : ConnOK(tx[d])'
    BY <1>1 DEF SqlInv, Moves
  <1>3. \A d \in Conns : writer' = d => Holds(tx[d])'
    BY DEF SqlInv, Holds, Moves
  <1> QED BY <1>2, <1>3 DEF SqlInv, Moves

\* A connection that has let go of its work.
LEMMA EndedConn ==
  ASSUME SqlInv, NEW c \in Conns, rows' = rows,
         tx[c].op = "importing" => rows[tx[c].session] # NoSession
  PROVE  ConnOK(Sql!Ended(c))
  <1>1. CASE tx[c].op = "importing"
    <2> DEFINE t == [op |-> "import", todo |-> tx[c].todo, due |-> tx[c].due]
    <2>1. Sql!Ended(c) = t
      BY <1>1 DEF Sql!Ended
    <2>2. t.op = "import" /\ t.todo = tx[c].todo /\ t.due = tx[c].due
      OBVIOUS
    <2>3. TxKind(t)
      BY DEF TxKind, IsImport
    <2> HIDE DEF t
    <2>4. Snapshot(t) /\ DueThere(t) /\ Complete(t)
      BY <1>1, <2>2 DEF SqlInv, ConnOK, Snapshot, DueThere, Complete
    <2> QED BY <2>1, <2>3, <2>4 DEF ConnOK
  <1>2. CASE tx[c].op # "importing"
    BY <1>2, IdleConn DEF Sql!Ended
  <1> QED BY <1>1, <1>2

LEMMA SnapshotOfRows ==
  ASSUME SqlInv, NEW s \in Sessions, rows[s] # NoSession
  PROVE  /\ rows[s] \in Rows /\ Sql!SelectEntries(rows[s].entries) = rows[s].entries
         /\ Sql!NextSeq(rows[s].entries) = Len(rows[s].entries) + 1
         /\ Len(rows[s].entries) \in Nat /\ rows[s].entries \in Seq(SqlTexts)
         /\ rows[s].header.id \in Sessions \cup DirSessions
  <1>1. rows[s] \in Rows
    BY DEF SqlInv
  <1> QED BY <1>1, SelectsAll DEF Rows, SqlHeaders

LEMMA BeginAppendKeeps ==
  ASSUME SqlInv, Dir!View' = Dir!View, NEW c \in Conns, NEW s \in Sessions, NEW e \in unused,
         Sql!BeginAppend(c, s, e)
  PROVE  SqlInv'
  <1> DEFINE new == [op |-> "append", fresh |-> TRUE, session |-> s,
                     seq |-> Sql!NextSeq(rows[s].entries), entry |-> Sql!Entry(e)]
  <1>1. /\ rows[s] # NoSession /\ tx[c] = Sql!Idle /\ tx' = [tx EXCEPT ![c] = new]
        /\ rows' = rows /\ writer' = writer /\ unused' = unused \ {e}
    BY DEF Sql!BeginAppend
  <1>2. /\ Sql!NextSeq(rows[s].entries) = Len(rows[s].entries) + 1
        /\ Len(rows[s].entries) \in Nat
    BY <1>1, SnapshotOfRows
  <1>3. e \in NewEntries
    BY DEF SqlInv
  <1>4. /\ new.op = "append" /\ new.session = s /\ new.fresh = TRUE
        /\ new.seq = Len(rows[s].entries) + 1
    BY <1>2
  <1>5. TxKind(new)
    BY <1>2, <1>3 DEF TxKind, Appends
  <1> HIDE DEF new
  <1>6. ConnOK(new)
    BY <1>1, <1>4, <1>5 DEF ConnOK, Snapshot, DueThere, Complete
  <1>7. writer # c
    BY <1>1, IdleConn DEF SqlInv, Holds
  <1> QED BY <1>1, <1>6, <1>7, MovesBy, ConnMoves

LEMMA BeginForkKeeps ==
  ASSUME SqlInv, Dir!View' = Dir!View, NEW c \in Conns, NEW from \in Sessions,
         NEW s \in Sessions, Sql!BeginFork(c, from, s)
  PROVE  SqlInv'
  <1>1. /\ rows[from] # NoSession /\ tx[c] = Sql!Idle
        /\ rows' = rows /\ writer' = writer /\ unused' = unused
    BY DEF Sql!BeginFork
  <1>2. PICK copied \in Sql!Contract!EntriesUpTo(Sql!SelectEntries(rows[from].entries)) :
          tx' = [tx EXCEPT ![c] = [op |-> "fork", fresh |-> TRUE, session |-> s,
                                   header |-> Sql!Header(s, rows[from].header.id),
                                   entries |-> copied]]
    BY DEF Sql!BeginFork
  <1>3. /\ copied \in Sql!Contract!EntriesUpTo(rows[from].entries) /\ copied \in Seq(SqlTexts)
        /\ rows[from].header.id \in Sessions \cup DirSessions
    BY <1>1, <1>2, SnapshotOfRows, SqlCopies
  <1> DEFINE h == Sql!Header(s, rows[from].header.id)
             new == [op |-> "fork", fresh |-> TRUE, session |-> s, header |-> h, entries |-> copied]
  <1>4. h \in SqlHeaders
    BY <1>3 DEF Sql!Header, SqlHeaders
  <1> HIDE DEF h
  <1>5. /\ new.op = "fork" /\ new.session = s /\ new.header = h /\ new.entries = copied
        /\ new.fresh = TRUE
    OBVIOUS
  <1>6. TxKind(new)
    BY <1>3, <1>4 DEF TxKind, Forks
  <1>7. tx' = [tx EXCEPT ![c] = new]
    BY <1>2 DEF h
  <1> HIDE DEF new
  <1>8. ConnOK(new)
    BY <1>1, <1>3, <1>5, <1>6 DEF ConnOK, Snapshot, DueThere, Complete, h
  <1>9. writer # c
    BY <1>1, IdleConn DEF SqlInv, Holds
  <1> QED BY <1>1, <1>7, <1>8, <1>9, MovesBy, ConnMoves

LEMMA BeginImportKeeps ==
  ASSUME SqlInv, Dir!View' = Dir!View, NEW c \in Conns, Sql!BeginImport(c)
  PROVE  SqlInv'
  <1> DEFINE there == {s \in FileSessions : dir[s].exists /\ Dir!ScanHeader(dir[s]).ok}
             found == [s \in Sessions |-> IF s \in FileSessions THEN Dir!View[s] ELSE NoSession]
             due == [s \in Sessions |-> IF s \in there /\ found[s] # NoSession
                                          THEN Sql!EntryIds(found[s].entries) ELSE {}]
             new == [op |-> "import", todo |-> there, due |-> due]
  <1>1. /\ tx[c] = Sql!Idle /\ tx' = [tx EXCEPT ![c] = new]
        /\ rows' = rows /\ writer' = writer /\ unused' = unused
    BY DEF Sql!BeginImport
  <1>2. \A s \in Sessions : due[s] # {} =>
          /\ s \in there /\ s \in FileSessions /\ Dir!View[s] # NoSession
          /\ due[s] = Sql!EntryIds(Dir!View[s].entries)
    OBVIOUS
  <1> HIDE DEF there, due
  <1>3. new.op = "import" /\ new.todo = there /\ new.due = due /\ TxKind(new)
    BY DEF TxKind, IsImport
  <1> HIDE DEF new
  <1>4. ConnOK(new)
    BY <1>2, <1>3 DEF ConnOK, Snapshot, DueThere, Complete
  <1>5. writer # c
    BY <1>1, IdleConn DEF SqlInv, Holds
  <1> QED BY <1>1, <1>4, <1>5, MovesBy, ConnMoves

LEMMA ImportLoadKeeps ==
  ASSUME SqlInv, DirInv, Dir!View' = Dir!View, NEW c \in Conns, NEW s \in Sessions,
         Sql!ImportLoad(c, s)
  PROVE  SqlInv'
  <1> DEFINE found == [t \in Sessions |-> IF t \in FileSessions THEN Dir!View[t] ELSE NoSession]
             t == tx[c]
             skip == [t EXCEPT !.todo = @ \ {s}]
             read == [op |-> "importing", todo |-> t.todo \ {s}, due |-> t.due, session |-> s,
                      header |-> found[s].header, entries |-> found[s].entries]
  <1>0. /\ t.op = "import" /\ s \in t.todo
        /\ rows' = rows /\ writer' = writer /\ unused' = unused
    BY DEF Sql!ImportLoad
  <1>1. tx' = [tx EXCEPT ![c] = IF found[s] = NoSession THEN skip ELSE read]
    BY DEF Sql!ImportLoad
  <1>2. ConnOK(t) /\ writer # c
    BY <1>0, <1>1 DEF SqlInv, Holds
  <1>3. t = [op |-> "import", todo |-> t.todo, due |-> t.due]
    BY <1>0, <1>1, <1>2 DEF ConnOK, TxKind, Sql!Idle, Appends, Forks, IsImport, IsImporting
  <1>4. found[s] = IF s \in FileSessions THEN Dir!View[s] ELSE NoSession
    OBVIOUS
  <1> HIDE DEF found
  <1>5. CASE found[s] = NoSession
    <2>1. skip = [op |-> "import", todo |-> t.todo \ {s}, due |-> t.due]
      BY <1>3
    <2>2. t.due[s] = {}
      BY <1>0, <1>1, <1>2, <1>4, <1>5 DEF ConnOK, DueThere
    <2>3. tx' = [tx EXCEPT ![c] = skip]
      BY <1>0, <1>1, <1>5
    <2> HIDE DEF t
    <2>4. skip.op = "import" /\ skip.todo = t.todo \ {s} /\ skip.due = t.due /\ TxKind(skip)
      BY <2>1 DEF TxKind, IsImport
    <2> HIDE DEF skip
    <2>5. ConnOK(skip)
      BY <1>0, <1>1, <1>2, <2>2, <2>4 DEF ConnOK, Snapshot, DueThere, Complete
    <2> QED BY <1>0, <1>1, <1>2, <2>3, <2>5, MovesBy, ConnMoves
  <1>6. CASE found[s] # NoSession
    <2>1. found[s] = Dir!View[s] /\ s \in FileSessions
      BY <1>4, <1>6
    <2>2. found[s].header \in SqlHeaders /\ found[s].entries \in Seq(SqlTexts)
      BY <1>6, <2>1, FoundIsRow
    <2>3. t.due[s] \subseteq Sql!EntryIds(found[s].entries)
      BY <1>0, <1>1, <1>2, <2>1 DEF ConnOK, DueThere
    <2>4. tx' = [tx EXCEPT ![c] = read]
      BY <1>0, <1>1, <1>6
    <2> HIDE DEF t
    <2>5. /\ read.op = "importing" /\ read.todo = t.todo \ {s} /\ read.due = t.due
          /\ read.session = s /\ read.entries = found[s].entries /\ TxKind(read)
      BY <2>2 DEF TxKind, IsImporting
    <2> HIDE DEF read
    <2>6. ConnOK(read)
      BY <1>0, <1>1, <1>2, <2>3, <2>5 DEF ConnOK, Snapshot, DueThere, Complete
    <2> QED BY <1>0, <1>1, <1>2, <2>4, <2>6, MovesBy, ConnMoves
  <1> QED BY <1>5, <1>6

LEMMA QuietKeeps ==
  ASSUME SqlInv, Dir!View' = Dir!View, NEW c \in Conns,
         \/ Sql!ImportDone(c) \/ Sql!TakeLock(c) \/ Sql!Busy(c) \/ Sql!Ignored(c) \/ Sql!Crash(c)
  PROVE  SqlInv'
  <1>0. Sql!NoConn \notin Conns
    BY StoresAssumption
  <1>1. CASE Sql!TakeLock(c)
    <2>1. /\ writer' = c /\ rows' = rows /\ tx' = tx /\ unused' = unused /\ Holds(tx[c])
      BY <1>1 DEF Sql!TakeLock, Sql!MayWrite, Holds
    <2>2. Moves(c, tx[c])
      BY <2>1 DEF Moves, SqlInv
    <2>3. ConnOK(tx[c])
      BY DEF SqlInv
    <2> QED BY <2>1, <2>2, <2>3, ConnMoves
  <1>2. CASE Sql!Ignored(c)
    <2>1. /\ tx' = [tx EXCEPT ![c] = Sql!Ended(c)] /\ writer' = Sql!NoConn
          /\ rows' = rows /\ unused' = unused /\ rows[tx[c].session] # NoSession
      BY <1>2 DEF Sql!Ignored
    <2>2. ConnOK(Sql!Ended(c))
      BY <2>1, EndedConn
    <2> QED BY <1>0, <2>1, <2>2, MovesBy, ConnMoves
  <1>3. CASE Sql!ImportDone(c)
    <2>1. /\ tx' = [tx EXCEPT ![c] = Sql!Idle] /\ writer' = writer /\ writer # c
          /\ rows' = rows /\ unused' = unused
      BY <1>3 DEF Sql!ImportDone, SqlInv, Holds
    <2> QED BY <2>1, IdleConn, MovesBy, ConnMoves
  <1>4. CASE Sql!Busy(c)
    <2>1. /\ tx' = [tx EXCEPT ![c] = Sql!Idle] /\ writer' = writer /\ writer # c
          /\ rows' = rows /\ unused' = unused
      BY <1>4 DEF Sql!Busy
    <2> QED BY <2>1, IdleConn, MovesBy, ConnMoves
  <1>5. CASE Sql!Crash(c)
    <2>1. /\ tx' = [tx EXCEPT ![c] = Sql!Idle]
          /\ writer' = IF writer = c THEN Sql!NoConn ELSE writer
          /\ rows' = rows /\ unused' = unused
      BY <1>5 DEF Sql!Crash
    <2> QED BY <1>0, <2>1, IdleConn, MovesBy, ConnMoves
  <1> QED BY <1>1, <1>2, <1>3, <1>4, <1>5

\* What a commit leaves to a connection that was doing t.
LEMMA OutdatedConn ==
  ASSUME NEW t, ConnOK(t), NEW u,
         u = IF t.op \in {"append", "fork"} THEN [t EXCEPT !.fresh = FALSE] ELSE t,
         Dir!View' = Dir!View, \A s \in Sessions : rows[s] # NoSession => rows'[s] # NoSession
  PROVE  ConnOK(u)'
  <1>3. CASE t.op = "append"
    <2>1. t \in Appends
      BY <1>3 DEF ConnOK, TxKind, Sql!Idle, Forks, IsImport, IsImporting
    <2>2. u \in Appends /\ u.op = "append" /\ u.fresh = FALSE
      BY <1>3, <2>1 DEF Appends
    <2>3. TxKind(u)'
      BY <2>2 DEF TxKind
    <2>4. Snapshot(u)' /\ DueThere(u)' /\ Complete(u)'
      BY <2>2 DEF Snapshot, DueThere, Complete
    <2> QED BY <2>3, <2>4 DEF ConnOK
  <1>4. CASE t.op = "fork"
    <2>1. t \in Forks
      BY <1>4 DEF ConnOK, TxKind, Sql!Idle, Appends, IsImport, IsImporting
    <2>2. u \in Forks /\ u.op = "fork" /\ u.fresh = FALSE
      BY <1>4, <2>1 DEF Forks
    <2>3. TxKind(u)'
      BY <2>2 DEF TxKind
    <2>4. Snapshot(u)' /\ DueThere(u)' /\ Complete(u)'
      BY <2>2 DEF Snapshot, DueThere, Complete
    <2> QED BY <2>3, <2>4 DEF ConnOK
  <1>5. CASE t.op \notin {"append", "fork"}
    <2>1. u = t
      BY <1>5
    <2>2. TxKind(t)' /\ Snapshot(t)' /\ DueThere(t)'
      BY <1>5 DEF ConnOK, TxKind, Snapshot, DueThere
    <2>3. Complete(t)'
      BY DEF ConnOK, Complete
    <2> QED BY <2>1, <2>2, <2>3 DEF ConnOK
  <1> QED BY <1>3, <1>4, <1>5

\* What the commit of c leaves of the others, and of c.
Commits(c, s, row, new) ==
  /\ writer \in {c, Sql!NoConn} /\ writer' = Sql!NoConn /\ unused' = unused
  /\ rows' = [rows EXCEPT ![s] = row]
  /\ DOMAIN tx' = Conns /\ tx'[c] = new
  /\ \A d \in Conns : d # c =>
       tx'[d] = IF tx[d].op \in {"append", "fork"} THEN [tx[d] EXCEPT !.fresh = FALSE] ELSE tx[d]

LEMMA CommitKeeps ==
  ASSUME SqlInv, Dir!View' = Dir!View, NEW c \in Conns, NEW s \in Sessions, NEW row \in Rows,
         NEW new, Commits(c, s, row, new),
         \/ new = Sql!Idle
         \/ /\ new.op = "import" /\ TxKind(new) /\ DueThere(new)
            /\ \A t \in Sessions :
                 new.due[t] = {} \/ t \in new.todo \/ t = s \/ rows[t] # NoSession
  PROVE  SqlInv'
  <1>1. /\ rows' \in [Sessions -> Rows \cup {NoSession}] /\ rows'[s] = row /\ row # NoSession
        /\ \A t \in Sessions : t # s => rows'[t] = rows[t]
    BY NoRow DEF SqlInv, Commits
  <1>2. \A t \in Sessions : rows[t] # NoSession => rows'[t] # NoSession
    BY <1>1
  <1>3. ConnOK(new)'
    <2>1. CASE new = Sql!Idle
      BY <2>1, IdleConn DEF ConnOK, TxKind, Snapshot, DueThere, Complete
    <2>2. CASE new # Sql!Idle
      <3>1. new.op = "import" /\ TxKind(new)'
        BY <2>2 DEF TxKind
      <3>2. Snapshot(new)' /\ DueThere(new)' /\ Complete(new)'
        BY <1>1, <1>2, <2>2 DEF Snapshot, DueThere, Complete
      <3> QED BY <3>1, <3>2 DEF ConnOK
    <2> QED BY <2>1, <2>2
  <1>4. ASSUME NEW d \in Conns, d # c PROVE ConnOK(tx[d])'
    <2>1. \A t, u : /\ ConnOK(t)
                    /\ u = (IF t.op \in {"append", "fork"} THEN [t EXCEPT !.fresh = FALSE] ELSE t)
                    => ConnOK(u)'
      BY <1>2, OutdatedConn
    <2>2. ConnOK(tx[d])
      BY DEF SqlInv
    <2> QED BY <1>4, <2>1, <2>2 DEF Commits
  <1>5. \A d \in Conns : ConnOK(tx[d])' /\ writer' # d
    BY <1>3, <1>4, StoresAssumption DEF Commits
  <1> QED BY <1>1, <1>5 DEF SqlInv, Commits

\* What a commit does to the tables is an operation of the contract.
LEMMA CreateCommits ==
  ASSUME SqlInv, Dir!View' = Dir!View, NEW c \in Conns, NEW s \in Sessions, Sql!Create(c, s)
  PROVE  SqlInv' /\ Sql!Contract!Next
  <1> DEFINE row == [header |-> Sql!Header(s, NoSession), entries |-> <<>>]
  <1>1. /\ tx[c] = Sql!Idle /\ writer = Sql!NoConn /\ rows[s] = NoSession
        /\ rows' = [rows EXCEPT ![s] = row] /\ tx' = Sql!Outdated(c)
        /\ writer' = writer /\ unused' = unused
    BY DEF Sql!Create
  <1>2. row \in Rows
    BY DEF Rows, SqlHeaders, Sql!Header
  <1>3. tx'[c] = Sql!Idle
    BY <1>1, IdleConn DEF Sql!Outdated
  <1> HIDE DEF row
  <1>4. Commits(c, s, row, Sql!Idle)
    BY <1>1, <1>3 DEF Commits, Sql!Outdated
  <1>5. SqlInv'
    BY <1>2, <1>4, CommitKeeps
  <1>6. Sql!View = rows /\ Sql!View' = rows'
    BY <1>5, SqlViewIsRows
  <1>7. row = Sql!Contract!Record(Sql!Contract!Header(s, NoSession), <<>>)
    BY DEF row, Sql!Contract!Record, Sql!Contract!Header, Sql!Header
  <1>8. Sql!Contract!Create(s)
    BY <1>1, <1>6, <1>7 DEF Sql!Contract!Create
  <1> QED BY <1>5, <1>8 DEF Sql!Contract!Next

LEMMA AppendCommits ==
  ASSUME SqlInv, Dir!View' = Dir!View, NEW c \in Conns, Sql!CommitAppend(c)
  PROVE  SqlInv' /\ Sql!Contract!Next
  <1> DEFINE t == tx[c]  s == t.session  table == rows[s].entries
             more == [k \in DOMAIN table \cup {t.seq} |-> IF k = t.seq THEN t.entry ELSE table[k]]
  <1>1. /\ t.op = "append" /\ writer = c /\ writer' = Sql!NoConn /\ unused' = unused
        /\ rows' = [rows EXCEPT ![s].entries = more]
        /\ tx' = [Sql!Outdated(c) EXCEPT ![c] = Sql!Idle]
    BY DEF Sql!CommitAppend
  <1>2. ConnOK(t) /\ Holds(t)
    BY <1>1 DEF SqlInv
  <1> HIDE DEF t
  <1>3. t \in Appends
    BY <1>1, <1>2 DEF ConnOK, TxKind, Sql!Idle, Forks, IsImport, IsImporting
  <1>4. PICK e \in NewEntries : t.entry = Sql!Entry(e)
    BY <1>3 DEF Appends
  <1>5. s \in Sessions /\ rows[s] # NoSession /\ t.seq = Len(table) + 1
    BY <1>1, <1>2, <1>3 DEF ConnOK, Snapshot, Holds, Appends
  <1>6. rows[s] \in Rows /\ table \in Seq(SqlTexts) /\ t.entry \in SqlTexts
    BY <1>4, <1>5, SnapshotOfRows DEF SqlTexts
  <1>7. more = Append(table, t.entry)
    <2> DEFINE x == t.entry  z == Len(table)
    <2> HIDE DEF table
    <2>1. /\ z \in Nat /\ DOMAIN table = 1..z /\ t.seq = z + 1
          /\ Append(table, x) = [k \in 1..(z + 1) |-> IF k = z + 1 THEN x ELSE table[k]]
      BY <1>5, <1>6
    <2>2. DOMAIN table \cup {z + 1} = 1..(z + 1)
      BY <2>1
    <2> QED BY <2>1, <2>2
  <1> DEFINE row == [header |-> rows[s].header, entries |-> more]
  <1>8. row \in Rows
    <2>1. Append(table, t.entry) \in Seq(SqlTexts)
      <3> HIDE DEF table
      <3> QED BY <1>6
    <2>2. more \in Seq(SqlTexts) /\ rows[s].header \in SqlHeaders
      BY <1>6, <1>7, <2>1 DEF Rows
    <2> QED BY <2>2 DEF Rows
  <1>9. rows' = [rows EXCEPT ![s] = row]
    <2>1. [rows[s] EXCEPT !.entries = more] = row
      BY <1>6 DEF Rows
    <2> QED BY <1>1, <2>1
  <1> HIDE DEF s, more
  <1>10. Commits(c, s, row, Sql!Idle)
    BY <1>1, <1>5, <1>9 DEF Commits, Sql!Outdated
  <1>11. SqlInv'
    BY <1>5, <1>8, <1>10, CommitKeeps
  <1>12. Sql!View = rows /\ Sql!View' = rows'
    BY <1>11, SqlViewIsRows
  <1>13. rows' = [rows EXCEPT ![s].entries = Append(@, Sql!Contract!Entry(e))]
    BY <1>1, <1>4, <1>7 DEF Sql!Contract!Entry, Sql!Entry
  <1>14. Sql!Contract!AppendEntry(s, e)
    BY <1>5, <1>12, <1>13 DEF Sql!Contract!AppendEntry
  <1> QED BY <1>5, <1>11, <1>14 DEF Sql!Contract!Next

LEMMA SessionCommits ==
  ASSUME SqlInv, Dir!View' = Dir!View, NEW c \in Conns, Sql!CommitSession(c)
  PROVE  SqlInv' /\ Sql!AtomicCommit
  <1> DEFINE t == tx[c]  s == t.session  row == [header |-> t.header, entries |-> t.entries]
             new == Sql!Ended(c)
  <1>1. /\ t.op \in {"fork", "importing"} /\ writer = c /\ writer' = Sql!NoConn
        /\ unused' = unused /\ rows[s] = NoSession
        /\ rows' = [rows EXCEPT ![s] = row]
        /\ tx' = [Sql!Outdated(c) EXCEPT ![c] = new]
    BY DEF Sql!CommitSession
  <1>2. ConnOK(t) /\ Holds(t)
    BY <1>1 DEF SqlInv
  <1>3. new = IF t.op = "importing" THEN [op |-> "import", todo |-> t.todo, due |-> t.due]
              ELSE Sql!Idle
    BY DEF Sql!Ended
  <1> HIDE DEF t, new
  <1>4. t.op = "fork" => t \in Forks
    BY <1>2 DEF ConnOK, TxKind, Sql!Idle, Appends, IsImport, IsImporting
  <1>5. t.op = "importing" => IsImporting(t)
    BY <1>2 DEF ConnOK, TxKind, Sql!Idle, Appends, IsImport, Forks
  <1>6. s \in Sessions /\ row \in Rows
    BY <1>1, <1>4, <1>5 DEF Forks, IsImporting, Rows
  <1>7. \/ new = Sql!Idle
        \/ /\ new.op = "import" /\ TxKind(new) /\ DueThere(new)
           /\ \A u \in Sessions : new.due[u] = {} \/ u \in new.todo \/ u = s \/ rows[u] # NoSession
    <2> SUFFICES ASSUME t.op = "importing"
                 PROVE  /\ new.op = "import" /\ TxKind(new) /\ DueThere(new)
                        /\ \A u \in Sessions : new.due[u] = {} \/ u \in new.todo \/ u = s
                                               \/ rows[u] # NoSession
      BY <1>3
    <2>1. new.op = "import" /\ new.todo = t.todo /\ new.due = t.due /\ IsImport(new)
      BY <1>3 DEF IsImport
    <2> QED BY <1>2, <2>1 DEF ConnOK, TxKind, DueThere, Complete
  <1> HIDE DEF s, row
  <1>8. Commits(c, s, row, new)
    BY <1>1, <1>6 DEF Commits, Sql!Outdated
  <1>9. SqlInv'
    BY <1>6, <1>7, <1>8, CommitKeeps
  <1>10. Sql!View = rows /\ Sql!View' = rows'
    BY <1>9, SqlViewIsRows
  <1>11. /\ rows'[s] = row /\ row # NoSession
         /\ \A u \in Sessions : u # s => rows'[u] = rows[u]
    BY <1>1, <1>6, NoRow DEF SqlInv
  <1>12. CASE t.op = "importing"
    <2>1. Sql!Imported(s)
      <3>1. tx[c].op = "importing" /\ tx[c].session = s
            /\ row = [header |-> tx[c].header, entries |-> tx[c].entries]
        BY <1>12 DEF t, s, row
      <3> QED BY <1>1, <1>6, <1>10, <1>11, <3>1 DEF Sql!Imported
    <2> QED BY <1>6, <1>9, <2>1 DEF Sql!AtomicCommit
  <1>13. CASE t.op = "fork"
    <2>1. PICK from \in Sessions :
            /\ rows[from] # NoSession
            /\ t.header = Sql!Header(s, rows[from].header.id)
            /\ t.entries \in Sql!Contract!EntriesUpTo(rows[from].entries)
      BY <1>2, <1>13 DEF ConnOK, Snapshot, Holds, s
    <2>2. row = Sql!Contract!Record(Sql!Contract!Header(s, rows[from].header.id), t.entries)
      BY <2>1 DEF row, Sql!Contract!Record, Sql!Contract!Header, Sql!Header
    <2>3. Sql!Contract!Fork(from, s)
      BY <1>1, <1>10, <2>1, <2>2 DEF Sql!Contract!Fork
    <2> QED BY <1>6, <1>9, <2>3 DEF Sql!AtomicCommit, Sql!Contract!Next
  <1> QED BY <1>1, <1>12, <1>13

\* While the database is used the directory stays, and the other way around.
LEMMA SqlKeeps ==
  ASSUME SqlInv, DirInv, UNCHANGED dirVars, [Sql!Next]_sqlVars
  PROVE  SqlInv' /\ (rows' # rows => Sql!AtomicCommit)
  <1>1. Dir!View' = Dir!View
    BY DEF dirVars, Dir!View
  <1>2. ASSUME NEW c \in Conns, NEW s \in Sessions, Sql!Create(c, s)
        PROVE  SqlInv' /\ Sql!AtomicCommit
    BY <1>1, <1>2, CreateCommits DEF Sql!AtomicCommit
  <1>3. ASSUME NEW c \in Conns, Sql!CommitAppend(c) PROVE SqlInv' /\ Sql!AtomicCommit
    BY <1>1, <1>3, AppendCommits DEF Sql!AtomicCommit
  <1>4. ASSUME NEW c \in Conns, Sql!CommitSession(c) PROVE SqlInv' /\ Sql!AtomicCommit
    BY <1>1, <1>4, SessionCommits
  <1>5. ASSUME NEW c \in Conns, NEW s \in Sessions, NEW e \in unused, Sql!BeginAppend(c, s, e)
        PROVE  SqlInv' /\ rows' = rows
    BY <1>1, <1>5, BeginAppendKeeps DEF Sql!BeginAppend
  <1>6. ASSUME NEW c \in Conns, NEW s \in Sessions, NEW from \in Sessions,
               Sql!BeginFork(c, from, s)
        PROVE  SqlInv' /\ rows' = rows
    BY <1>1, <1>6, BeginForkKeeps DEF Sql!BeginFork
  <1>7. ASSUME NEW c \in Conns, NEW s \in Sessions, Sql!ImportLoad(c, s)
        PROVE  SqlInv' /\ rows' = rows
    BY <1>1, <1>7, ImportLoadKeeps DEF Sql!ImportLoad
  <1>8. ASSUME NEW c \in Conns, Sql!BeginImport(c) PROVE SqlInv' /\ rows' = rows
    BY <1>1, <1>8, BeginImportKeeps DEF Sql!BeginImport
  <1>9. ASSUME NEW c \in Conns,
               \/ Sql!ImportDone(c) \/ Sql!TakeLock(c) \/ Sql!Busy(c) \/ Sql!Ignored(c)
               \/ Sql!Crash(c)
        PROVE  SqlInv' /\ rows' = rows
    BY <1>1, <1>9, QuietKeeps
       DEF Sql!ImportDone, Sql!TakeLock, Sql!Busy, Sql!Ignored, Sql!Crash
  <1>10. CASE UNCHANGED sqlVars
    <2>1. rows' = rows /\ writer' = writer /\ tx' = tx /\ unused' = unused
      BY <1>10 DEF sqlVars
    <2>2. \A t : ConnOK(t) => ConnOK(t)'
      BY <1>1, <2>1 DEF ConnOK, TxKind, Snapshot, DueThere, Complete
    <2>3. \A c \in Conns : ConnOK(tx[c])' /\ (writer' = c => Holds(tx[c])')
      BY <2>1, <2>2 DEF SqlInv, Holds
    <2> QED BY <2>1, <2>3 DEF SqlInv
  <1> QED BY <1>2, <1>3, <1>4, <1>5, <1>6, <1>7, <1>8, <1>9, <1>10 DEF Sql!Next

LEMMA DirKeepsSql ==
  ASSUME SqlInv, DirInv, UNCHANGED sqlVars, [Dir!Next]_dirVars
  PROVE  SqlInv'
  <1>1. rows' = rows /\ writer' = writer /\ tx' = tx /\ unused' = unused
    BY DEF sqlVars
  <1>2. ASSUME NEW t, ConnOK(t) PROVE ConnOK(t)'
    <2>1. TxKind(t)' /\ Snapshot(t)' /\ Complete(t)'
      BY <1>1, <1>2 DEF ConnOK, TxKind, Snapshot, Complete
    <2>2. DueThere(t)'
      <3>1. \A s \in FileSessions : Dir!View[s] # NoSession =>
              /\ Dir!View'[s] # NoSession
              /\ Sql!EntryIds(Dir!View[s].entries) \subseteq Sql!EntryIds(Dir!View'[s].entries)
        BY DirShowsMore, StoresAssumption
      <3> QED BY <1>2, <3>1 DEF ConnOK, DueThere
    <2> QED BY <2>1, <2>2 DEF ConnOK
  <1>3. \A c \in Conns : ConnOK(tx[c])' /\ (writer' = c => Holds(tx[c])')
    BY <1>1, <1>2 DEF SqlInv, Holds
  <1> QED BY <1>1, <1>3 DEF SqlInv

LEMMA StoresStart == MCInit => DirInv /\ SqlInv /\ Dir!Contract!Init
  BY DirStarts, SqlStarts DEF MCInit

LEMMA StoresStep ==
  ASSUME DirInv, SqlInv, [MCNext]_<<subject, vars, dirVars, sqlVars, settingsVars>>
  PROVE  /\ DirInv' /\ SqlInv'
         /\ Dir!Contract!Next \/ Dir!View' = Dir!View
         /\ rows' # rows => Sql!AtomicCommit
  <1>1. CASE UNCHANGED sqlVars /\ [Dir!Next]_dirVars
    <2>1. rows' = rows
      BY <1>1 DEF sqlVars
    <2> QED BY <1>1, <2>1, DirKeeps, DirKeepsSql
  <1>2. CASE UNCHANGED dirVars /\ [Sql!Next]_sqlVars
    BY <1>2, DirKeeps, SqlKeeps
  <1> QED BY <1>1, <1>2 DEF MCNext, WritersStep, ContractStep, DirStep, SqlStep, SettingsStep

LEMMA StoresHold == MCSpec => [](DirInv /\ SqlInv)
  <1>1. DirInv /\ SqlInv /\ [MCNext]_<<subject, vars, dirVars, sqlVars, settingsVars>>
        => DirInv' /\ SqlInv'
    BY StoresStep
  <1> QED BY <1>1, StoresStart, PTL DEF MCSpec

\* A directory with one writer and the database implement the contract: every
\* write to a file is one atomic operation or invisible, and every commit one
\* operation or the import of one whole session, whatever connections race, are
\* refused or die, and whatever is written to the directory meanwhile.
THEOREM StoresKeepTheContract == MCSpec => StoresImplementContract
  <1> DEFINE all == <<subject, vars, dirVars, sqlVars, settingsVars>>
  <1>1. DirInv /\ SqlInv /\ [MCNext]_all
        => [(subject = "contract") => Dir!Contract!Next \/ Dir!View' = Dir!View]_dirVars
    BY StoresStep
  <1>2. DirInv /\ SqlInv /\ [MCNext]_all => [(subject = "import") => Sql!AtomicCommit]_rows
    BY StoresStep
  <1> QED BY <1>1, <1>2, StoresStart, StoresHold, PTL DEF MCSpec, StoresImplementContract

\* An import brings over every session it listed, with all the entries its file
\* had then, although the file is written to and other connections import.
THEOREM ImportsAreComplete == MCSpec => []ImportComplete
  <1>1. SqlInv => ImportComplete
    BY DEF SqlInv, ConnOK, Complete, ImportComplete, Sql!ImportComplete
  <1> QED BY <1>1, StoresHold, PTL

----------------------------------------------------------------------------
(* The settings files. *)

Layers == [Keys -> Values \cup {Files!Unset}]
YamlFiles == {Files!Missing, Files!Invalid} \cup {Files!Layer(l) : l \in Layers}

FilesOK ==
  /\ yaml \in [Files!Scopes -> YamlFiles] /\ yaml["global"] # Files!Invalid
  /\ json \in YamlFiles
  /\ base \in Layers

Ready == [at : {"ready"}, layer : [Files!Scopes -> Layers]]
Watcher == [at : {"idle", "window", "reading"}, of : Processes, unseen : BOOLEAN,
            event : BOOLEAN, current : Layers, read : Layers, heard : BOOLEAN]

HandlesOK ==
  /\ DOMAIN proc = Processes
  /\ \A p \in Processes :
       /\ proc[p].at \in {"off", "json", "persist", "rename", "load", "ready"}
       /\ proc[p].at = "ready" => proc[p] \in Ready
  /\ watch # Files!Off => watch \in Watcher

\* Nothing to move, then or now; or else the first layer is in the JSON file,
\* or in its backup once it is in the YAML file.
Legacy == {Files!Layer(base)} \cup
          (IF base = Files!Empty THEN {Files!Missing, Files!Invalid} ELSE {})
Moving == {"json", "persist", "rename"}
FirstLayerIsHeld ==
  \/ yaml["global"] # Files!Missing /\ ~failed /\ \A p \in Processes : proc[p].at \notin Moving
  \/ /\ json \in Legacy \cup {Files!Missing}
     /\ json \in Legacy \/ (yaml["global"] # Files!Missing /\ backup = Files!Layer(base))
     /\ \A p \in Processes :
          /\ proc[p].at = "persist" => proc[p].read = Files!Layer(base)
          /\ proc[p].at = "rename" => yaml["global"] # Files!Missing

\* Whoever is about to load, or has, finds the first value of a key nobody set.
FirstValuesLoad ==
  ~failed =>
    /\ \A p \in Processes :
         proc[p].at = "load" /\ yaml["global"] = Files!Missing => base = Files!Empty
    /\ \A k \in Keys \ set :
         /\ yaml["global"] # Files!Missing => yaml["global"].has[k] = base[k]
         /\ \A p \in Processes : proc[p].at = "ready" => proc[p].layer["global"][k] = base[k]

\* What the watcher has read, or told, is of now unless it has yet to be told.
WatcherKnows ==
  watch # Files!Off /\ ~watch.event /\ ~watch.unseen =>
    /\ watch.at = "reading" =>
         Files!Loads(yaml["global"]) /\ watch.read = Files!LayerOf(yaml["global"])
    /\ watch.at = "idle" /\ watch.heard /\ (\A s \in Files!Scopes : Files!Loads(yaml[s])) =>
         watch.current = Files!Merge(Files!LayerOf(yaml["global"]), Files!LayerOf(yaml["project"]))

SettingsInv == FilesOK /\ HandlesOK /\ FirstLayerIsHeld /\ FirstValuesLoad /\ WatcherKnows

LEMMA Kinds ==
  /\ Files!Missing # Files!Invalid
  /\ \A l : /\ Files!Layer(l) # Files!Missing /\ Files!Layer(l) # Files!Invalid
            /\ Files!Layer(l).has = l /\ Files!Loads(Files!Layer(l))
            /\ Files!LayerOf(Files!Layer(l)) = l /\ Files!Layer(l).file = "layer"
  /\ \A l \in Layers : Files!Layer(l) \in YamlFiles
  /\ \A l, m : Files!Layer(l) = Files!Layer(m) => l = m
  /\ Files!LayerOf(Files!Missing) = Files!Empty /\ Files!Empty \in Layers
  /\ Files!Missing \in YamlFiles /\ Files!Invalid \in YamlFiles
  <1>1. Files!Missing # Files!Invalid
    <2>1. Files!Missing.file = "missing" /\ Files!Invalid.file = "invalid"
      BY DEF Files!Missing, Files!Invalid
    <2> QED BY <2>1
  <1>2. ASSUME NEW l
        PROVE  /\ Files!Layer(l) # Files!Missing /\ Files!Layer(l) # Files!Invalid
               /\ Files!Layer(l).has = l /\ Files!Layer(l).file = "layer"
    <2>1. Files!Layer(l).has = l /\ Files!Layer(l).file = "layer"
      BY DEF Files!Layer
    <2>2. Files!Missing.file = "missing" /\ Files!Invalid.file = "invalid"
      BY DEF Files!Missing, Files!Invalid
    <2>3. Files!Layer(l) # Files!Missing /\ Files!Layer(l) # Files!Invalid
      BY <2>1, <2>2
    <2> QED BY <2>1, <2>3
  <1>3. \A l : Files!Loads(Files!Layer(l)) /\ Files!LayerOf(Files!Layer(l)) = l
    BY <1>2 DEF Files!Loads, Files!LayerOf
  <1>4. /\ \A l \in Layers : Files!Layer(l) \in YamlFiles
        /\ Files!Missing \in YamlFiles /\ Files!Invalid \in YamlFiles
    BY DEF YamlFiles
  <1>5. \A l, m : Files!Layer(l) = Files!Layer(m) => l = m
    <2> SUFFICES ASSUME NEW l, NEW m, Files!Layer(l) = Files!Layer(m) PROVE l = m
      OBVIOUS
    <2>1. Files!Layer(l).has = l /\ Files!Layer(m).has = m
      BY <1>2
    <2> QED BY <2>1
  <1>6. Files!LayerOf(Files!Missing) = Files!Empty
    BY DEF Files!LayerOf
  <1>7. Files!Empty \in Layers
    BY DEF Files!Empty, Layers
  <1> QED BY <1>1, <1>2, <1>3, <1>4, <1>5, <1>6, <1>7

LEMMA SettingsInit == Files!Init => SettingsInv
  <1> SUFFICES ASSUME Files!Init PROVE SettingsInv
    OBVIOUS
  <1> DEFINE same(v) == [k \in Keys |-> v]
  <1>1. \A v \in Values : same(v) \in Layers
    BY DEF Layers
  <1>2. json \in {Files!Missing, Files!Invalid} \cup {Files!Layer(same(v)) : v \in Values}
    BY DEF Files!Init
  <1>3. PICK g \in {Files!Missing} \cup {Files!Layer(same(v)) : v \in Values} :
          yaml = [s \in Files!Scopes |-> IF s = "global" THEN g ELSE Files!Missing]
    BY DEF Files!Init
  <1>4. /\ proc = [p \in Processes |-> Files!Off] /\ watch = Files!Off /\ failed = FALSE /\ set = {}
        /\ base = Files!LayerOf(IF yaml["global"] = Files!Missing /\ json # Files!Invalid
                                  THEN json ELSE yaml["global"])
    BY DEF Files!Init
  <1>5. yaml["global"] = g /\ yaml["project"] = Files!Missing
    BY <1>3 DEF Files!Scopes
  <1>6. g \in YamlFiles /\ g # Files!Invalid /\ json \in YamlFiles
    BY <1>1, <1>2, Kinds
  <1>7. \A p \in Processes : proc[p].at = "off"
    BY <1>4 DEF Files!Off
  <1>8. g # Files!Missing => base = g.has /\ g.has \in Layers
    BY <1>1, <1>4, <1>5, Kinds
  <1>9. g = Files!Missing => json \in Legacy /\ base \in Layers
    <2>1. CASE json = Files!Missing \/ json = Files!Invalid
      BY <2>1, <1>4, <1>5, Kinds DEF Legacy
    <2>2. CASE json \in {Files!Layer(same(v)) : v \in Values}
      BY <2>2, <1>1, <1>4, <1>5, Kinds DEF Legacy
    <2> QED BY <2>1, <2>2, <1>2
  <1> HIDE DEF same
  <1>10. FilesOK
    BY <1>3, <1>5, <1>6, <1>8, <1>9, Kinds DEF FilesOK
  <1>11. HandlesOK
    BY <1>4, <1>7 DEF HandlesOK
  <1>12. FirstLayerIsHeld
    BY <1>4, <1>5, <1>7, <1>9 DEF FirstLayerIsHeld, Moving
  <1>13. FirstValuesLoad
    BY <1>5, <1>7, <1>8 DEF FirstValuesLoad
  <1>14. WatcherKnows
    BY <1>4 DEF WatcherKnows
  <1> QED BY <1>10, <1>11, <1>12, <1>13, <1>14 DEF SettingsInv

\* What a file of a layer holds.
LEMMA LayerFiles ==
  ASSUME NEW f \in YamlFiles, f # Files!Invalid
  PROVE  /\ Files!LayerOf(f) \in Layers /\ Files!Loads(f)
         /\ f # Files!Missing => f = Files!Layer(f.has) /\ Files!LayerOf(f) = f.has
  BY Kinds DEF YamlFiles, Files!LayerOf, Files!Loads

\* A process moves on and the files stay: nothing else is at stake than what
\* its new place says of it.
LEMMA ProcessMoves ==
  ASSUME SettingsInv, NEW p \in Processes, NEW new,
         proc' = [proc EXCEPT ![p] = new],
         UNCHANGED <<json, backup, yaml, watch, base, set, failed>>,
         new.at \in {"off", "json", "persist", "rename", "load", "ready"},
         new.at = "ready" => new \in Ready,
         yaml["global"] # Files!Missing /\ ~failed /\ new.at \in Moving
           => proc[p].at \in Moving,
         new.at = "persist" => new.read = Files!Layer(base),
         new.at = "rename" => yaml["global"] # Files!Missing,
         ~failed /\ new.at = "load" /\ yaml["global"] = Files!Missing => base = Files!Empty,
         ~failed /\ new.at = "ready" =>
           \A k \in Keys \ set : new.layer["global"][k] = base[k]
  PROVE  SettingsInv'
  <1>1. /\ DOMAIN proc' = Processes /\ proc'[p] = new
        /\ \A q \in Processes : q # p => proc'[q] = proc[q]
    BY DEF SettingsInv, HandlesOK
  <1>2. /\ \A q \in Processes : proc[q].at \in {"off", "json", "persist", "rename", "load", "ready"}
        /\ \A q \in Processes : proc[q].at = "ready" => proc[q] \in Ready
    BY DEF SettingsInv, HandlesOK
  <1>3. FilesOK'
    BY DEF SettingsInv, FilesOK
  <1>4. HandlesOK'
    BY <1>1, <1>2 DEF SettingsInv, HandlesOK
  <1>5. FirstLayerIsHeld'
    <2>0. FirstLayerIsHeld
      BY DEF SettingsInv
    <2>1. CASE yaml["global"] # Files!Missing /\ ~failed /\ \A q \in Processes : proc[q].at \notin Moving
      BY <1>1, <2>1 DEF FirstLayerIsHeld
    <2>2. CASE ~(yaml["global"] # Files!Missing /\ ~failed /\ \A q \in Processes : proc[q].at \notin Moving)
      <3>1. Legacy' = Legacy
        BY DEF Legacy
      <3> QED BY <1>1, <2>0, <2>2, <3>1 DEF FirstLayerIsHeld
    <2> QED BY <2>1, <2>2
  <1>6. FirstValuesLoad'
    <2>0. FirstValuesLoad
      BY DEF SettingsInv
    <2> QED BY <1>1, <2>0 DEF FirstValuesLoad
  <1>7. WatcherKnows'
    BY DEF SettingsInv, WatcherKnows
  <1> QED BY <1>3, <1>4, <1>5, <1>6, <1>7 DEF SettingsInv

\* What Moving says of the files while somebody is at it.
LEMMA WhileMoving ==
  ASSUME SettingsInv, NEW p \in Processes, proc[p].at \in Moving
  PROVE  /\ json \in Legacy \cup {Files!Missing}
         /\ json \in Legacy \/ (yaml["global"] # Files!Missing /\ backup = Files!Layer(base))
         /\ \A q \in Processes :
              /\ proc[q].at = "persist" => proc[q].read = Files!Layer(base)
              /\ proc[q].at = "rename" => yaml["global"] # Files!Missing
  BY DEF SettingsInv, FirstLayerIsHeld

LEMMA CheckYamlKeeps ==
  ASSUME SettingsInv, NEW p \in Processes, Files!CheckYaml(p) PROVE SettingsInv'
  <1> DEFINE new == [at |-> IF yaml["global"] # Files!Missing THEN "load" ELSE "json"]
  <1>1. proc' = [proc EXCEPT ![p] = new] /\ UNCHANGED <<json, backup, yaml, watch, base, set, failed>>
    BY DEF Files!CheckYaml, Files!At
  <1>2. new.at = (IF yaml["global"] # Files!Missing THEN "load" ELSE "json")
    OBVIOUS
  <1> HIDE DEF new
  <1> QED BY <1>1, <1>2, ProcessMoves DEF Moving

LEMMA ReadJsonKeeps ==
  ASSUME SettingsInv, NEW p \in Processes, Files!ReadJson(p) PROVE SettingsInv'
  <1>0. proc[p].at = "json" /\ UNCHANGED <<json, backup, yaml, watch, base, set, failed>>
    BY DEF Files!ReadJson
  <1>1. proc[p].at \in Moving
    BY <1>0 DEF Moving
  <1>2. CASE json \in {Files!Missing, Files!Invalid}
    <2> DEFINE new == [at |-> "load"]
    <2>1. proc' = [proc EXCEPT ![p] = new]
      BY <1>2 DEF Files!ReadJson, Files!At
    <2>2. new.at = "load"
      OBVIOUS
    <2>3. yaml["global"] = Files!Missing => base = Files!Empty
      BY <1>1, <1>2, WhileMoving, Kinds DEF Legacy
    <2> HIDE DEF new
    <2> QED BY <1>0, <2>1, <2>2, <2>3, ProcessMoves DEF Moving
  <1>3. CASE json \notin {Files!Missing, Files!Invalid}
    <2> DEFINE new == [at |-> "persist", read |-> json]
    <2>1. proc' = [proc EXCEPT ![p] = new]
      BY <1>3 DEF Files!ReadJson
    <2>2. new.at = "persist" /\ new.read = json
      OBVIOUS
    <2>3. json = Files!Layer(base)
      BY <1>1, <1>3, WhileMoving DEF Legacy
    <2> HIDE DEF new
    <2> QED BY <1>0, <1>1, <2>1, <2>2, <2>3, ProcessMoves
  <1> QED BY <1>2, <1>3

LEMMA LoadKeeps ==
  ASSUME SettingsInv, NEW p \in Processes, Files!Load(p) PROVE SettingsInv'
  <1>0. proc[p].at = "load" /\ UNCHANGED <<json, backup, yaml, watch, base, set, failed>>
    BY DEF Files!Load
  <1>1. FilesOK /\ FirstValuesLoad
    BY DEF SettingsInv
  <1>2. CASE /\ \A s \in Files!Scopes : Files!Loads(yaml[s])
             /\ proc' = [proc EXCEPT ![p] = [at |-> "ready",
                           layer |-> [s \in Files!Scopes |-> Files!LayerOf(yaml[s])]]]
    <2> DEFINE held == [s \in Files!Scopes |-> Files!LayerOf(yaml[s])]
               new == [at |-> "ready", layer |-> held]
    <2>1. held \in [Files!Scopes -> Layers] /\ held["global"] = Files!LayerOf(yaml["global"])
      BY <1>1, <1>2, LayerFiles DEF FilesOK, Files!Scopes, Files!Loads
    <2>2. proc' = [proc EXCEPT ![p] = new]
      BY <1>2
    <2> HIDE DEF held
    <2>3. new.at = "ready" /\ new.layer = held /\ new \in Ready
      BY <2>1 DEF Ready
    <2> HIDE DEF new
    <2>4. ~failed => \A k \in Keys \ set : held["global"][k] = base[k]
      <3>1. CASE yaml["global"] = Files!Missing
        BY <1>0, <1>1, <2>1, <3>1, Kinds DEF FirstValuesLoad
      <3>2. CASE yaml["global"] # Files!Missing
        BY <1>1, <2>1, <3>2, LayerFiles DEF FirstValuesLoad, FilesOK, Files!Scopes
      <3> QED BY <3>1, <3>2
    <2> QED BY <1>0, <2>2, <2>3, <2>4, ProcessMoves DEF Moving
  <1>3. CASE proc' = [proc EXCEPT ![p] = Files!Off]
    BY <1>0, <1>3, ProcessMoves DEF Files!Off, Moving
  <1> QED BY <1>2, <1>3 DEF Files!Load

LEMMA StopKeeps ==
  ASSUME SettingsInv, NEW p \in Processes, Files!Stop(p) PROVE SettingsInv'
  <1>1. /\ DOMAIN proc' = Processes /\ proc'[p] = Files!Off
        /\ \A q \in Processes : q # p => proc'[q] = proc[q]
    BY DEF SettingsInv, HandlesOK, Files!Stop
  <1>2. UNCHANGED <<json, backup, yaml, base, set, failed>> /\ watch' \in {watch, Files!Off}
    BY DEF Files!Stop
  <1>3. Files!Off.at = "off" /\ Legacy' = Legacy
    BY <1>2 DEF Files!Off, Legacy
  <1>4. FilesOK' /\ HandlesOK' /\ WatcherKnows'
    BY <1>1, <1>2, <1>3 DEF SettingsInv, FilesOK, HandlesOK, WatcherKnows
  <1>5. FirstLayerIsHeld'
    <2>1. \A q \in Processes : /\ proc'[q].at \in Moving => proc[q].at \in Moving
                               /\ proc'[q].at # "off" => proc'[q] = proc[q]
      BY <1>1, <1>3 DEF Moving
    <2> QED BY <1>2, <1>3, <2>1 DEF SettingsInv, FirstLayerIsHeld
  <1>6. FirstValuesLoad'
    BY <1>1, <1>2, <1>3 DEF SettingsInv, FirstValuesLoad
  <1> QED BY <1>4, <1>5, <1>6 DEF SettingsInv

\* After a write the watcher has something to notice.
LEMMA WriteNoticed ==
  ASSUME HandlesOK, Files!Written
  PROVE  /\ watch' # Files!Off => watch' \in Watcher
         /\ WatcherKnows'
  <1>1. CASE watch = Files!Off
    BY <1>1 DEF Files!Written, WatcherKnows
  <1>2. CASE watch # Files!Off
    <2>1. watch \in Watcher /\ watch' = [watch EXCEPT !.unseen = TRUE]
      BY <1>2 DEF HandlesOK, Files!Written
    <2>2. watch' \in Watcher /\ watch'.unseen
      BY <2>1 DEF Watcher
    <2> QED BY <2>2 DEF WatcherKnows
  <1> QED BY <1>1, <1>2

LEMMA PersistYamlKeeps ==
  ASSUME SettingsInv, NEW p \in Processes, Files!PersistYaml(p) PROVE SettingsInv'
  <1>0. proc[p].at = "persist" /\ UNCHANGED <<json, backup, base, set>>
    BY DEF Files!PersistYaml
  <1>1. FilesOK /\ HandlesOK /\ FirstValuesLoad
    BY DEF SettingsInv
  <1>2. proc[p].at \in Moving
    BY <1>0 DEF Moving
  <1>3. proc[p].read = Files!Layer(base)
    BY <1>0, <1>2, WhileMoving
  <1>4. CASE /\ yaml' = [yaml EXCEPT !["global"] = proc[p].read]
             /\ Files!At(p, "rename") /\ Files!Written /\ UNCHANGED failed
    <2>1. /\ DOMAIN proc' = Processes /\ proc'[p].at = "rename"
          /\ \A q \in Processes : q # p => proc'[q] = proc[q]
      BY <1>1, <1>4 DEF HandlesOK, Files!At
    <2>2. /\ yaml'["global"] = Files!Layer(base) /\ yaml'["project"] = yaml["project"]
          /\ yaml' \in [Files!Scopes -> YamlFiles]
      BY <1>1, <1>3, <1>4, Kinds DEF FilesOK, Files!Scopes
    <2>3. /\ Files!Layer(base) # Files!Missing /\ Files!Layer(base) # Files!Invalid
          /\ Files!Layer(base).has = base /\ Legacy' = Legacy
      BY <1>0, Kinds DEF Legacy
    <2>4. FilesOK'
      BY <1>0, <1>1, <2>2, <2>3 DEF FilesOK
    <2>5. HandlesOK' /\ WatcherKnows'
      BY <1>1, <1>4, <2>1, WriteNoticed DEF HandlesOK
    <2>6. FirstLayerIsHeld'
      BY <1>0, <1>2, <2>1, <2>2, <2>3, WhileMoving DEF FirstLayerIsHeld
    <2>7. FirstValuesLoad'
      BY <1>0, <1>1, <1>4, <2>1, <2>2, <2>3 DEF FirstValuesLoad
    <2> QED BY <2>4, <2>5, <2>6, <2>7 DEF SettingsInv
  <1>5. CASE Files!At(p, "load") /\ failed' = TRUE /\ UNCHANGED <<yaml, watch>>
    <2>1. /\ DOMAIN proc' = Processes /\ proc'[p].at = "load"
          /\ \A q \in Processes : q # p => proc'[q] = proc[q]
      BY <1>1, <1>5 DEF HandlesOK, Files!At
    <2>2. Legacy' = Legacy
      BY <1>0 DEF Legacy
    <2>3. FilesOK' /\ HandlesOK'
      BY <1>0, <1>1, <1>5, <2>1 DEF FilesOK, HandlesOK
    <2>4. WatcherKnows'
      BY <1>5 DEF SettingsInv, WatcherKnows
    <2>5. FirstLayerIsHeld'
      BY <1>0, <1>2, <1>5, <2>1, <2>2, WhileMoving DEF FirstLayerIsHeld
    <2>6. FirstValuesLoad'
      BY <1>5 DEF FirstValuesLoad
    <2> QED BY <2>3, <2>4, <2>5, <2>6 DEF SettingsInv
  <1> QED BY <1>4, <1>5 DEF Files!PersistYaml

LEMMA RenameJsonKeeps ==
  ASSUME SettingsInv, NEW p \in Processes, Files!RenameJson(p) PROVE SettingsInv'
  <1>0. /\ proc[p].at = "rename" /\ UNCHANGED <<yaml, watch, base, set, failed>>
        /\ \/ json # Files!Missing /\ backup' = json /\ json' = Files!Missing
           \/ UNCHANGED <<json, backup>>
    BY DEF Files!RenameJson
  <1>1. FilesOK /\ HandlesOK /\ FirstValuesLoad
    BY DEF SettingsInv
  <1>2. proc[p].at \in Moving /\ yaml["global"] # Files!Missing
    BY <1>0, WhileMoving DEF Moving
  <1>3. /\ DOMAIN proc' = Processes /\ proc'[p].at = "load"
        /\ \A q \in Processes : q # p => proc'[q] = proc[q]
    BY <1>1 DEF HandlesOK, Files!At, Files!RenameJson
  <1>4. Legacy' = Legacy
    BY <1>0 DEF Legacy
  <1>5. FilesOK' /\ HandlesOK'
    BY <1>0, <1>1, <1>3, Kinds DEF FilesOK, HandlesOK
  <1>6. WatcherKnows'
    BY <1>0 DEF SettingsInv, WatcherKnows
  <1>7. /\ json' \in Legacy \cup {Files!Missing}
        /\ json' \in Legacy \/ backup' = Files!Layer(base)
    BY <1>0, <1>2, WhileMoving DEF Legacy
  <1>8. FirstLayerIsHeld'
    BY <1>0, <1>2, <1>3, <1>4, <1>7, WhileMoving DEF FirstLayerIsHeld
  <1>9. FirstValuesLoad'
    BY <1>0, <1>1, <1>2, <1>3 DEF FirstValuesLoad
  <1> QED BY <1>5, <1>6, <1>8, <1>9 DEF SettingsInv

LEMMA SaveKeeps ==
  ASSUME SettingsInv, NEW p \in Processes, NEW s \in Files!Scopes, NEW k \in Keys,
         NEW v \in Values, Files!Save(p, s, k, v)
  PROVE  SettingsInv'
  <1> DEFINE new == [proc[p].layer[s] EXCEPT ![k] = v]
             holds == [proc[p].layer EXCEPT ![s] = new]
  <1>0. /\ proc[p].at = "ready" /\ UNCHANGED <<json, backup, base, failed>>
        /\ set' = IF s = "global" THEN set \cup {k} ELSE set
        /\ proc' = [proc EXCEPT ![p].layer[s] = new]
        /\ \/ yaml' = [yaml EXCEPT ![s] = Files!Layer(new)] /\ Files!Written
           \/ UNCHANGED <<yaml, watch>>
    BY DEF Files!Save
  <1>1. FilesOK /\ HandlesOK /\ FirstValuesLoad
    BY DEF SettingsInv
  <1>2. proc[p] \in Ready
    BY <1>0, <1>1 DEF HandlesOK
  <1>3. /\ new \in Layers /\ new[k] = v
        /\ \A j \in Keys \ {k} : new[j] = proc[p].layer[s][j]
    BY <1>2 DEF Ready, Layers
  <1>4. /\ DOMAIN proc' = Processes /\ proc'[p] = [proc[p] EXCEPT !.layer = holds]
        /\ \A q \in Processes : q # p => proc'[q] = proc[q]
    BY <1>0, <1>1, <1>2 DEF HandlesOK, Ready
  <1> HIDE DEF new
  <1>5. /\ holds \in [Files!Scopes -> Layers] /\ holds[s] = new
        /\ \A t \in Files!Scopes \ {s} : holds[t] = proc[p].layer[t]
    BY <1>2, <1>3 DEF Ready
  <1> HIDE DEF holds
  <1>6. proc'[p] \in Ready /\ proc'[p].at = "ready" /\ proc'[p].layer = holds
    BY <1>2, <1>4, <1>5 DEF Ready
  <1>7. /\ yaml' \in [Files!Scopes -> YamlFiles]
        /\ \A t \in Files!Scopes : yaml'[t] = yaml[t] \/ (t = s /\ yaml'[t] = Files!Layer(new))
    BY <1>0, <1>1, <1>3, Kinds DEF FilesOK
  <1>8. /\ Files!Layer(new) # Files!Missing /\ Files!Layer(new) # Files!Invalid
        /\ Files!Layer(new).has = new /\ Legacy' = Legacy /\ "global" \in Files!Scopes
    BY <1>0, Kinds DEF Legacy, Files!Scopes
  <1>9. FilesOK'
    BY <1>0, <1>1, <1>7, <1>8 DEF FilesOK
  <1>10. HandlesOK' /\ WatcherKnows'
    <2>1. CASE Files!Written
      BY <1>1, <1>4, <1>6, <2>1, WriteNoticed DEF HandlesOK
    <2>2. CASE UNCHANGED <<yaml, watch>>
      BY <1>1, <1>4, <1>6, <2>2 DEF HandlesOK, SettingsInv, WatcherKnows
    <2> QED BY <1>0, <2>1, <2>2
  <1>11. FirstLayerIsHeld'
    <2>1. \A q \in Processes : q # p => proc'[q] = proc[q]
      BY <1>4
    <2>2. yaml["global"] # Files!Missing => yaml'["global"] # Files!Missing
      BY <1>7, <1>8
    <2> QED BY <1>0, <1>6, <1>8, <2>1, <2>2 DEF SettingsInv, FirstLayerIsHeld, Moving
  <1>12. FirstValuesLoad'
    <2> SUFFICES ASSUME ~failed PROVE FirstValuesLoad'
      BY <1>0 DEF FirstValuesLoad
    <2>1. ASSUME NEW q \in Processes, proc'[q].at = "load", yaml'["global"] = Files!Missing
          PROVE  base' = Files!Empty
      BY <1>0, <1>1, <1>4, <1>6, <1>7, <1>8, <2>1 DEF FirstValuesLoad
    <2>2. ASSUME NEW j \in Keys \ set' PROVE proc'[p].layer["global"][j] = base[j]
      <3>1. proc[p].layer["global"][j] = base[j]
        BY <1>0, <1>1, <2>2 DEF FirstValuesLoad
      <3>2. CASE s = "global"
        BY <1>0, <1>3, <1>5, <1>6, <2>2, <3>1, <3>2
      <3>3. CASE s # "global"
        BY <1>5, <1>6, <1>8, <3>1, <3>3
      <3> QED BY <3>2, <3>3
    <2>3. ASSUME NEW j \in Keys \ set', yaml'["global"] # Files!Missing
          PROVE  yaml'["global"].has[j] = base[j]
      <3>1. CASE yaml'["global"] = yaml["global"]
        BY <1>0, <1>1, <2>3, <3>1 DEF FirstValuesLoad
      <3>2. CASE s = "global" /\ yaml'["global"] = Files!Layer(new)
        BY <1>5, <1>6, <1>8, <2>2, <2>3, <3>2
      <3> QED BY <1>7, <1>8, <3>1, <3>2
    <2>4. \A q \in Processes, j \in Keys \ set' :
            proc'[q].at = "ready" => proc'[q].layer["global"][j] = base[j]
      BY <1>0, <1>1, <1>4, <2>2 DEF FirstValuesLoad
    <2> QED BY <1>0, <2>1, <2>3, <2>4 DEF FirstValuesLoad
  <1> QED BY <1>9, <1>10, <1>11, <1>12 DEF SettingsInv

LEMMA UserEditsKeeps ==
  ASSUME SettingsInv, NEW f \in YamlFiles, Files!UserEdits(f) PROVE SettingsInv'
  <1>1. FilesOK /\ HandlesOK
    BY DEF SettingsInv
  <1>2. /\ UNCHANGED <<json, backup, proc, base, set, failed>> /\ Files!Written
        /\ yaml' \in [Files!Scopes -> YamlFiles] /\ yaml'["global"] = yaml["global"]
    BY <1>1 DEF Files!UserEdits, FilesOK, Files!Scopes
  <1>3. FilesOK' /\ HandlesOK' /\ WatcherKnows'
    BY <1>1, <1>2, WriteNoticed DEF FilesOK, HandlesOK
  <1>4. FirstLayerIsHeld' /\ FirstValuesLoad'
    BY <1>2 DEF SettingsInv, FirstLayerIsHeld, FirstValuesLoad, Legacy
  <1> QED BY <1>3, <1>4 DEF SettingsInv

LEMMA SettingIsFile ==
  ASSUME NEW k \in Keys, NEW v \in Values
  PROVE  Files!Setting(k, v) \in YamlFiles
  <1>1. Files!Empty \in Layers
    BY Kinds
  <1>2. [Files!Empty EXCEPT ![k] = v] \in Layers
    BY <1>1 DEF Layers
  <1> QED BY <1>2, Kinds DEF Files!Setting

\* The watcher writes no file: what it knows is at stake.
LEMMA WatcherMoves ==
  ASSUME SettingsInv, UNCHANGED <<json, backup, yaml, proc, base, set, failed>>,
         watch' # Files!Off => watch' \in Watcher, WatcherKnows'
  PROVE  SettingsInv'
  <1>1. FilesOK' /\ HandlesOK'
    BY DEF SettingsInv, FilesOK, HandlesOK
  <1>2. FirstLayerIsHeld' /\ FirstValuesLoad'
    BY DEF SettingsInv, FirstLayerIsHeld, FirstValuesLoad, Legacy
  <1> QED BY <1>1, <1>2 DEF SettingsInv

LEMMA MergedLayers ==
  ASSUME NEW a \in Layers, NEW b \in Layers PROVE Files!Merge(a, b) \in Layers
  BY DEF Layers, Files!Merge

LEMMA WatchKeeps ==
  ASSUME SettingsInv, NEW p \in Processes, Files!Watch(p) PROVE SettingsInv'
  <1> DEFINE known == Files!Merge(proc[p].layer["global"], proc[p].layer["project"])
             heard == yaml = [s \in Files!Scopes |-> Files!Layer(proc[p].layer[s])]
  <1>0. /\ proc[p].at = "ready" /\ UNCHANGED <<json, backup, yaml, proc, base, set, failed>>
        /\ watch' = [at |-> "idle", of |-> p, unseen |-> FALSE, event |-> FALSE, current |-> known,
                     read |-> Files!Empty, heard |-> heard]
    BY DEF Files!Watch
  <1>1. proc[p] \in Ready
    BY <1>0 DEF SettingsInv, HandlesOK
  <1>2. known \in Layers /\ heard \in BOOLEAN /\ Files!Empty \in Layers
    BY <1>1, MergedLayers, Kinds DEF Ready, Files!Scopes
  <1>3. heard => known = Files!Merge(Files!LayerOf(yaml["global"]), Files!LayerOf(yaml["project"]))
    <2> SUFFICES ASSUME heard
                 PROVE  known = Files!Merge(Files!LayerOf(yaml["global"]), Files!LayerOf(yaml["project"]))
      OBVIOUS
    <2>1. /\ yaml["global"] = Files!Layer(proc[p].layer["global"])
          /\ yaml["project"] = Files!Layer(proc[p].layer["project"])
      BY DEF Files!Scopes
    <2> QED BY <2>1, Kinds
  <1> HIDE DEF known, heard
  <1>4. watch' \in Watcher
    BY <1>0, <1>2 DEF Watcher
  <1>5. WatcherKnows'
    BY <1>0, <1>3 DEF WatcherKnows
  <1> QED BY <1>0, <1>4, <1>5, WatcherMoves

LEMMA WatcherStepKeeps ==
  ASSUME SettingsInv,
         \/ Files!Poll \/ Files!Debounce \/ Files!ReloadGlobal \/ Files!ReloadProject
         \/ Files!StopWatching
  PROVE  SettingsInv'
  <1>0. UNCHANGED <<json, backup, yaml, proc, base, set, failed>> /\ watch # Files!Off
    BY DEF Files!Poll, Files!Debounce, Files!ReloadGlobal, Files!ReloadProject, Files!StopWatching
  <1>1. watch \in Watcher /\ FilesOK /\ WatcherKnows
    BY <1>0 DEF SettingsInv, HandlesOK
  <1>2. \A s \in Files!Scopes : Files!Loads(yaml[s]) => Files!LayerOf(yaml[s]) \in Layers
    BY <1>1, LayerFiles DEF FilesOK, Files!Loads
  <1>3. "global" \in Files!Scopes /\ "project" \in Files!Scopes
    BY DEF Files!Scopes
  <1>4. CASE Files!Poll
    <2>1. watch' = [watch EXCEPT !.unseen = FALSE, !.event = TRUE]
      BY <1>4 DEF Files!Poll
    <2>2. watch' \in Watcher /\ watch'.event
      BY <1>1, <2>1 DEF Watcher
    <2>3. WatcherKnows'
      BY <2>2 DEF WatcherKnows
    <2> QED BY <1>0, <2>2, <2>3, WatcherMoves
  <1>5. CASE Files!Debounce
    <2>1. watch' = [watch EXCEPT !.at = "window", !.event = FALSE]
      BY <1>5 DEF Files!Debounce
    <2>2. watch' \in Watcher /\ watch'.at = "window"
      BY <1>1, <2>1 DEF Watcher
    <2>3. WatcherKnows'
      BY <2>2 DEF WatcherKnows
    <2> QED BY <1>0, <2>2, <2>3, WatcherMoves
  <1>6. CASE Files!ReloadGlobal
    <2>1. CASE Files!Loads(yaml["global"])
      <3>1. watch' = [watch EXCEPT !.at = "reading", !.read = Files!LayerOf(yaml["global"])]
        BY <1>6, <2>1 DEF Files!ReloadGlobal
      <3>2. /\ watch' \in Watcher /\ watch'.at = "reading"
            /\ watch'.read = Files!LayerOf(yaml["global"])
        BY <1>1, <1>2, <1>3, <2>1, <3>1 DEF Watcher
      <3>3. WatcherKnows'
        BY <1>0, <2>1, <3>2 DEF WatcherKnows
      <3> QED BY <1>0, <3>2, <3>3, WatcherMoves
    <2>2. CASE ~Files!Loads(yaml["global"])
      <3>1. watch' = [watch EXCEPT !.at = "idle"]
        BY <1>6, <2>2 DEF Files!ReloadGlobal
      <3>2. watch' \in Watcher /\ watch'.at = "idle"
        BY <1>1, <3>1 DEF Watcher
      <3>3. WatcherKnows'
        BY <1>0, <1>3, <2>2, <3>2 DEF WatcherKnows
      <3> QED BY <1>0, <3>2, <3>3, WatcherMoves
    <2> QED BY <2>1, <2>2
  <1>7. CASE Files!ReloadProject
    <2> DEFINE now == Files!Merge(watch.read, Files!LayerOf(yaml["project"]))
    <2>1. watch.at = "reading"
      BY <1>7 DEF Files!ReloadProject
    <2>2. CASE Files!Loads(yaml["project"])
      <3>1. watch' = [[watch EXCEPT !.current = now, !.heard = TRUE] EXCEPT !.at = "idle"]
        BY <1>7, <2>2 DEF Files!ReloadProject, Files!Reloaded
      <3>2. now \in Layers
        BY <1>1, <1>2, <1>3, <2>2, MergedLayers DEF Watcher
      <3>3. /\ ~watch.event /\ ~watch.unseen =>
                 now = Files!Merge(Files!LayerOf(yaml["global"]), Files!LayerOf(yaml["project"]))
        BY <1>0, <1>1, <2>1 DEF WatcherKnows
      <3> HIDE DEF now
      <3>4. /\ watch' \in Watcher /\ watch'.at = "idle" /\ watch'.current = now
            /\ watch'.event = watch.event /\ watch'.unseen = watch.unseen
        BY <1>1, <3>1, <3>2 DEF Watcher
      <3>5. WatcherKnows'
        BY <1>0, <3>3, <3>4 DEF WatcherKnows
      <3> QED BY <1>0, <3>4, <3>5, WatcherMoves
    <2>3. CASE ~Files!Loads(yaml["project"])
      <3>1. watch' = [watch EXCEPT !.at = "idle"]
        BY <1>7, <2>3 DEF Files!ReloadProject, Files!Reloaded
      <3>2. watch' \in Watcher /\ watch'.at = "idle"
        BY <1>1, <3>1 DEF Watcher
      <3>3. WatcherKnows'
        BY <1>0, <1>3, <2>3, <3>2 DEF WatcherKnows
      <3> QED BY <1>0, <3>2, <3>3, WatcherMoves
    <2> QED BY <2>2, <2>3
  <1>8. CASE Files!StopWatching
    BY <1>0, <1>8, WatcherMoves DEF Files!StopWatching, WatcherKnows
  <1> QED BY <1>4, <1>5, <1>6, <1>7, <1>8

LEMMA SettingsStepKeeps ==
  SettingsInv /\ [Files!Next]_settingsVars => SettingsInv'
  <1> SUFFICES ASSUME SettingsInv, [Files!Next]_settingsVars PROVE SettingsInv'
    OBVIOUS
  <1>1. ASSUME NEW p \in Processes,
               \/ Files!CheckYaml(p) \/ Files!ReadJson(p) \/ Files!PersistYaml(p)
               \/ Files!RenameJson(p) \/ Files!Load(p) \/ Files!Stop(p) \/ Files!Watch(p)
        PROVE  SettingsInv'
    BY <1>1, CheckYamlKeeps, ReadJsonKeeps, PersistYamlKeeps, RenameJsonKeeps, LoadKeeps,
       StopKeeps, WatchKeeps
  <1>2. ASSUME NEW p \in Processes, NEW s \in Files!Scopes, NEW k \in Keys, NEW v \in Values,
               Files!Save(p, s, k, v)
        PROVE  SettingsInv'
    BY <1>2, SaveKeeps
  <1>3. ASSUME NEW f \in {Files!Missing, Files!Invalid} \cup
                         {Files!Setting(k, v) : k \in Keys, v \in Values},
               Files!UserEdits(f)
        PROVE  SettingsInv'
    <2>1. f \in YamlFiles
      BY SettingIsFile, Kinds
    <2> QED BY <1>3, <2>1, UserEditsKeeps
  <1>4. CASE UNCHANGED settingsVars
    <2>1. UNCHANGED <<json, backup, yaml, proc, watch, base, set, failed>>
      BY <1>4 DEF settingsVars
    <2>2. WatcherKnows' /\ (watch' # Files!Off => watch' \in Watcher)
      BY <2>1 DEF SettingsInv, WatcherKnows, HandlesOK
    <2> QED BY <2>1, <2>2, WatcherMoves
  <1> QED BY <1>1, <1>2, <1>3, <1>4, WatcherStepKeeps DEF Files!Next

\* What the properties say of the settings.
LEMMA SettingsSound == SettingsInv => Files!LegacyKept /\ Files!WatcherCatchesUp
  <1> SUFFICES ASSUME SettingsInv PROVE Files!LegacyKept /\ Files!WatcherCatchesUp
    OBVIOUS
  <1>1. FilesOK /\ HandlesOK /\ FirstLayerIsHeld /\ FirstValuesLoad /\ WatcherKnows
    BY DEF SettingsInv
  <1>2. Files!WatcherCatchesUp
    BY <1>1 DEF WatcherKnows, Files!WatcherCatchesUp
  <1> DEFINE global == yaml["global"]
             next == IF global = Files!Missing /\ json # Files!Invalid THEN json ELSE global
  <1>3. global \in YamlFiles /\ global # Files!Invalid /\ base \in Layers
    BY <1>1 DEF FilesOK, Files!Scopes
  <1>4. global # Files!Missing => global = Files!Layer(global.has) /\ Files!LayerOf(global) = global.has
                                  /\ global.file = "layer"
    BY <1>3, LayerFiles, Kinds
  <1> HIDE DEF global
  <1>5. ASSUME NEW k \in Keys \ set, ~failed PROVE Files!LayerOf(next)[k] = base[k]
    <2>1. CASE global = Files!Missing
      <3>1. json \in Legacy
        BY <1>1, <2>1 DEF FirstLayerIsHeld, global
      <3>2. CASE json = Files!Layer(base)
        BY <2>1, <3>2, Kinds
      <3>3. CASE json \in {Files!Missing, Files!Invalid} /\ base = Files!Empty
        BY <2>1, <3>3, Kinds
      <3> QED BY <3>1, <3>2, <3>3 DEF Legacy
    <2>2. CASE global # Files!Missing
      BY <1>1, <1>4, <1>5, <2>2 DEF FirstValuesLoad, global
    <2> QED BY <2>1, <2>2
  <1>6. ASSUME NEW k \in Keys \ set, base[k] # Files!Unset
        PROVE  \E f \in {json, backup, global} : f.file = "layer" /\ f.has[k] = base[k]
    <2>1. base # Files!Empty
      BY <1>6 DEF Files!Empty
    <2>2. CASE global # Files!Missing /\ ~failed
      BY <1>1, <1>4, <1>6, <2>2 DEF FirstValuesLoad, global
    <2>3. CASE ~(global # Files!Missing /\ ~failed)
      <3>1. json = Files!Layer(base) \/ backup = Files!Layer(base)
        BY <1>1, <2>1, <2>3 DEF FirstLayerIsHeld, Legacy, global
      <3> QED BY <3>1, Kinds
    <2> QED BY <2>2, <2>3
  <1>7. Files!LegacyKept
    BY <1>1, <1>5, <1>6 DEF FirstValuesLoad, Files!LegacyKept, global
  <1> QED BY <1>2, <1>7

LEMMA SettingsHold == MCSpec => [](subject = "settings" => SettingsInv)
  <1>1. MCInit => (subject = "settings" => SettingsInv)
    BY SettingsInit DEF MCInit
  <1>2. (subject = "settings" => SettingsInv)
        /\ [MCNext]_<<subject, vars, dirVars, sqlVars, settingsVars>>
        => (subject = "settings" => SettingsInv)'
    <2> SUFFICES ASSUME subject = "settings" => SettingsInv,
                        [MCNext]_<<subject, vars, dirVars, sqlVars, settingsVars>>,
                        subject' = "settings"
                 PROVE  SettingsInv'
      OBVIOUS
    <2>1. subject' = subject
      BY DEF MCNext, WritersStep, ContractStep, DirStep, SqlStep, SettingsStep
    <2>2. [Files!Next]_settingsVars
      BY <2>1 DEF MCNext, WritersStep, ContractStep, DirStep, SqlStep, SettingsStep
    <2> QED BY <2>1, <2>2, SettingsStepKeeps
  <1> QED BY <1>1, <1>2, PTL DEF MCSpec

\* No setting is lost in the move from JSON to YAML, whatever number of
\* processes start, migrate, save and are killed at any moment.
THEOREM SettingsAreMoved == MCSpec => []LegacyKept
  <1>1. (subject = "settings" => SettingsInv) => LegacyKept
    BY SettingsSound DEF LegacyKept
  <1> QED BY <1>1, SettingsHold, PTL

\* What the watcher's subscribers were told last is what the files say, once
\* the files are at rest and well-formed.
THEOREM WatcherHasTheLastWord == MCSpec => []WatcherCatchesUp
  <1>1. (subject = "settings" => SettingsInv) => WatcherCatchesUp
    BY SettingsSound DEF WatcherCatchesUp
  <1> QED BY <1>1, SettingsHold, PTL

=============================================================================
