----------------------------- MODULE JsonlStore -----------------------------
(***************************************************************************)
(* JsonlStore (crates/agent/src/session/jsonl.rs): one file per session, a *)
(* header line and then one line per entry.                                *)
(*                                                                         *)
(* The store takes no lock, and writeln! on an unbuffered file is two      *)
(* writes, the text of a line and its newline; a writer can be interrupted *)
(* (killed, or refused by a full disk) at each of them and in the middle   *)
(* of one.  A file is therefore kept as what was written between newlines: *)
(* the closed lines and the unterminated tail, each a sequence of texts.   *)
(* A line parses when it is one whole text: serde_json refuses a torn text *)
(* and two texts in a row.                                                 *)
(*                                                                         *)
(* The 64 KiB cap of the header scan is not reached by the headers here.   *)
(***************************************************************************)
EXTENDS Integers, Sequences, Filter

CONSTANTS
  Writers,      \* threads or processes that use the store
  Sessions,     \* session ids
  MaxEntries,   \* bound: entries the writers append
  NoSession,    \* no session under an id, no parent of a session
  Interrupts    \* whether writes may be interrupted

ASSUME StoreAssumption ==
  /\ MaxEntries \in Nat
  /\ Interrupts \in BOOLEAN
  /\ NoSession \notin Sessions

VARIABLES
  files,        \* what each session's file holds
  op,           \* the operation each writer is in
  nextEntry,    \* identity of the next entry
  acked         \* the entries of each session whose append or fork returned Ok

vars == <<files, op, nextEntry, acked>>

Entries == 1..MaxEntries

----------------------------------------------------------------------------
(* Files. *)

Header(s, parent) == [kind |-> "session", id |-> s, parent |-> parent]
Entry(e)          == [kind |-> "entry", id |-> e]
Torn              == [kind |-> "torn"]

Text == [kind : {"session"}, id : Sessions, parent : Sessions \cup {NoSession}]
        \cup [kind : {"entry"}, id : Entries] \cup {Torn}

\* No session is not a session: the None of an Option.
ASSUME NoSessionAssumption == NoSession \notin [header : Text, entries : Seq(Text)]

NoFile    == [exists |-> FALSE, closed |-> <<>>, tail |-> <<>>]
EmptyFile == [NoFile EXCEPT !.exists = TRUE]

Parses(line)    == Len(line) = 1 /\ line[1] # Torn
NonBlank(lines) == Keep(lines, {lines[k] : k \in DOMAIN lines} \ {<<>>})
Texts(lines)    == [k \in DOMAIN lines |-> lines[k][1]]

Corrupt == [ok |-> FALSE]

\* Mutant: a line that does not parse is skipped.
Load_SkipsMalformed(f) ==
  LET lines  == Append(f.closed, f.tail)
      parsed == Texts(Keep(lines, {l \in {lines[k] : k \in DOMAIN lines} : Parses(l)}))
  IN  IF parsed = <<>> \/ parsed[1].kind # "session"
        THEN Corrupt
        ELSE [ok |-> TRUE, header |-> parsed[1], entries |-> Tail(parsed)]

\* load: blank lines are skipped, a malformed tail is dropped, a malformed
\* closed line is corruption, and the first line must be the header.
Load(f) ==
  LET closed == NonBlank(f.closed)
      parsed == Texts(closed \o (IF Parses(f.tail) THEN <<f.tail>> ELSE <<>>))
  IN  IF \/ \E k \in DOMAIN closed : ~Parses(closed[k])
         \/ parsed = <<>>
         \/ parsed[1].kind # "session"
        THEN Corrupt
        ELSE [ok |-> TRUE, header |-> parsed[1], entries |-> Tail(parsed)]

\* scan_header: the first line that is not blank.
ScanHeader(f) ==
  LET lines == NonBlank(Append(f.closed, f.tail))
  IN  IF lines = <<>> \/ ~Parses(lines[1]) \/ lines[1][1].kind # "session"
        THEN Corrupt
        ELSE [ok |-> TRUE, header |-> lines[1][1]]

\* The sessions of the contract: what a load finds.  A file that has only
\* been opened holds no session yet.
View == [s \in Sessions |->
           LET loaded == Load(files[s])
           IN  IF loaded.ok
                 THEN [header |-> loaded.header, entries |-> loaded.entries]
                 ELSE NoSession]

\* The contract of the trait, on those sessions.
Contract == INSTANCE SessionStore WITH sessions <- View

----------------------------------------------------------------------------
(* Operations.  One that returns an error before it opens a file changes     *)
(* nothing and is not an action.                                           *)

Idle == [step |-> "idle", session |-> NoSession, content |-> <<>>]

Init ==
  /\ files = [s \in Sessions |-> NoFile]
  /\ op = [w \in Writers |-> Idle]
  /\ nextEntry = 1
  /\ acked = [s \in Sessions |-> {}]

Begin(w, step, s, content) ==
  /\ op[w] = Idle
  /\ op' = [op EXCEPT ![w] = [step |-> step, session |-> s,
                              content |-> content]]

\* create: create_new(true) opens a file that did not exist.
Create(w, s) ==
  /\ ~files[s].exists
  /\ Begin(w, "text", s, <<Header(s, NoSession)>>)
  /\ files' = [files EXCEPT ![s] = EmptyFile]
  /\ UNCHANGED <<nextEntry, acked>>

\* append: the file must exist.
AppendEntry(w, s) ==
  /\ files[s].exists
  /\ nextEntry <= MaxEntries
  /\ Begin(w, "text", s, <<Entry(nextEntry)>>)
  /\ nextEntry' = nextEntry + 1
  /\ UNCHANGED <<files, acked>>

\* fork: the source is loaded, then the new file is created.
Fork(w, from, s) ==
  /\ files[from].exists
  /\ Load(files[from]).ok
  /\ ~files[s].exists
  /\ \E copied \in Contract!EntriesUpTo(Load(files[from]).entries) :
       Begin(w, "content", s,
             <<Header(s, Load(files[from]).header.id)>> \o copied)
  /\ files' = [files EXCEPT ![s] = EmptyFile]
  /\ UNCHANGED <<nextEntry, acked>>

\* writeln!: the text of the line, then its newline, at the end of the file.
WriteText(w) ==
  /\ op[w].step = "text"
  /\ files' = [files EXCEPT ![op[w].session].tail = @ \o op[w].content]
  /\ op' = [op EXCEPT ![w].step = "newline"]
  /\ UNCHANGED <<nextEntry, acked>>

\* What an operation that returned Ok has stored.
EntryIds(content) ==
  {content[k].id : k \in {j \in DOMAIN content : content[j].kind = "entry"}}

Ack(w) ==
  /\ op' = [op EXCEPT ![w] = Idle]
  /\ acked' = [acked EXCEPT ![op[w].session] = @ \cup EntryIds(op[w].content)]

WriteNewline(w) ==
  /\ op[w].step = "newline"
  /\ LET f == files[op[w].session]
     IN  files' = [files EXCEPT ![op[w].session] =
                     [f EXCEPT !.closed = Append(f.closed, f.tail), !.tail = <<>>]]
  /\ Ack(w)
  /\ UNCHANGED nextEntry

\* The first n texts of a content as lines; the first ends what was the tail.
AsLines(content, n) == [k \in 1..n |-> <<content[k]>>]
Extended(f, lines, rest) ==
  IF lines = <<>> THEN [f EXCEPT !.tail = @ \o rest]
  ELSE [f EXCEPT !.closed = Append(@, f.tail \o Head(lines)) \o Tail(lines),
                 !.tail = rest]

\* The write_all of a fork: header and entries at once.
WriteContent(w) ==
  /\ op[w].step = "content"
  /\ LET c == op[w].content
     IN  files' = [files EXCEPT ![op[w].session] =
                     Extended(@, AsLines(c, Len(c)), <<>>)]
  /\ Ack(w)
  /\ UNCHANGED nextEntry

\* A killed writer, or a write the disk refuses: what was written stays.
Interrupt(w) ==
  /\ Interrupts
  /\ op[w] # Idle
  /\ op' = [op EXCEPT ![w] = Idle]
  /\ LET s == op[w].session
         c == op[w].content
     IN  \/ UNCHANGED files
         \/ /\ op[w].step = "text"
            /\ files' = [files EXCEPT ![s].tail = Append(@, Torn)]
         \/ /\ op[w].step = "content"
            /\ \E n \in 0..(Len(c) - 1), rest \in {<<>>, <<Torn>>} :
                 \/ files' = [files EXCEPT ![s] =
                                Extended(@, AsLines(c, n), rest)]
                 \/ files' = [files EXCEPT ![s] =
                                Extended(@, AsLines(c, n), <<c[n + 1]>>)]
  /\ UNCHANGED <<nextEntry, acked>>

Next ==
  \E w \in Writers :
    \/ \E s \in Sessions :
         \/ Create(w, s)
         \/ AppendEntry(w, s)
         \/ \E from \in Sessions : Fork(w, from, s)
    \/ WriteText(w)
    \/ WriteNewline(w)
    \/ WriteContent(w)
    \/ Interrupt(w)

Spec == Init /\ [][Next]_vars

----------------------------------------------------------------------------
(* Properties. *)

\* The type of every variable.
TypeOK ==
  /\ files \in [Sessions -> [exists : BOOLEAN, closed : Seq(Seq(Text)),
                             tail : Seq(Text)]]
  /\ op \in [Writers -> [step : {"idle", "text", "newline", "content"},
                         session : Sessions \cup {NoSession},
                         content : Seq(Text)]]
  /\ nextEntry \in 1..(MaxEntries + 1)
  /\ acked \in [Sessions -> SUBSET Entries]

\* An entry whose append or fork returned Ok is never silently missing: a load
\* that succeeds returns it, once, whatever writers raced or were interrupted.
AckedEntriesLoad ==
  \A s \in Sessions :
    LET loaded == Load(files[s])
    IN  files[s].exists /\ loaded.ok =>
          /\ \A e \in acked[s] :
               \E k \in DOMAIN loaded.entries : loaded.entries[k].id = e
          /\ \A j, k \in DOMAIN loaded.entries :
               loaded.entries[j].id = loaded.entries[k].id => j = k

\* A session that loads is listed, with the header the load returns: the
\* bounded scan of read_header and list agrees with load.
ScanAgreesWithLoad ==
  \A s \in Sessions :
    LET loaded == Load(files[s])
        found  == ScanHeader(files[s])
    IN  files[s].exists /\ loaded.ok =>
          found.ok /\ found.header = loaded.header /\ loaded.header.id = s

\* What load, list and the writers' acknowledgements say of a session agrees.
SessionsAreWhole == AckedEntriesLoad /\ ScanAgreesWithLoad

\* With one writer that is never interrupted the store implements the
\* contract: every write is an atomic create, append or fork, or invisible.
ImplementsContract == Contract!Spec
=============================================================================
