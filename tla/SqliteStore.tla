----------------------------- MODULE SqliteStore -----------------------------
(***************************************************************************)
(* SqliteStore (crates/agent/src/session/sqlite.rs): every session in one  *)
(* database file, shared by several connections, and adopting a directory  *)
(* of JSONL sessions when it is opened.                                    *)
(*                                                                         *)
(* SQLite is external: a transaction reads the snapshot of its first read, *)
(* one connection at a time holds the write lock, a transaction that has   *)
(* read does not wait for that lock and cannot take it once another has    *)
(* committed (SQLITE_BUSY), and one that has not read waits.  An operation *)
(* that fails, or whose process dies, leaves nothing.                      *)
(*                                                                         *)
(* The JSONL directory is the environment: what list and load of the       *)
(* JsonlStore return at this moment.  MCStores makes it a JsonlStore that  *)
(* is being written to.                                                    *)
(***************************************************************************)
EXTENDS Integers, Sequences, FiniteSets

CONSTANTS
  Conns,        \* open connections, each behind its own mutex
  Sessions,     \* session ids
  NewEntries,   \* ids of the entries appended through this store, in order
  AllEntries,   \* these and the ids of imported entries
  NoSession     \* no session under an id, no parent of a session

VARIABLES
  listed,       \* JSONL: the sessions list() finds
  loadable,     \* JSONL: what load() finds under each id
  rows,         \* the tables: header and entries by seq, of each session
  writer,       \* the connection with the write lock
  tx,           \* what each connection is doing
  unused        \* the entries not appended yet

vars == <<rows, writer, tx, unused>>

Header(s, parent) == [kind |-> "session", id |-> s, parent |-> parent]
Entry(e)          == [kind |-> "entry", id |-> e]
NoConn            == "none"
EntryIds(log)     == {log[k].id : k \in DOMAIN log}

\* select_entries: ORDER BY seq.
SelectEntries(table) ==
  [n \in 1..Cardinality(DOMAIN table) |->
     table[CHOOSE k \in DOMAIN table :
             Cardinality({j \in DOMAIN table : j <= k}) = n]]

\* What load returns.
View == [s \in Sessions |->
           IF rows[s] = NoSession THEN NoSession
           ELSE [header |-> rows[s].header,
                 entries |-> SelectEntries(rows[s].entries)]]

Contract == INSTANCE SessionStore WITH sessions <- View, Entries <- AllEntries

----------------------------------------------------------------------------

Idle == [op |-> "idle"]

Init ==
  /\ rows = [s \in Sessions |-> NoSession]
  /\ writer = NoConn
  /\ tx = [c \in Conns |-> Idle]
  /\ unused = NewEntries

\* What a commit of `c` does to the others: their snapshots are out of date.
Outdated(c) ==
  [d \in Conns |-> IF d # c /\ tx[d].op \in {"append", "fork"}
                     THEN [tx[d] EXCEPT !.fresh = FALSE] ELSE tx[d]]

\* create: one INSERT OR IGNORE outside a transaction.
Create(c, s) ==
  /\ tx[c] = Idle
  /\ writer = NoConn
  /\ rows[s] = NoSession
  /\ rows' = [rows EXCEPT ![s] = [header  |-> Header(s, NoSession),
                                  entries |-> <<>>]]
  /\ tx' = Outdated(c)
  /\ UNCHANGED <<writer, unused>>

\* COALESCE(MAX(seq), 0) + 1
NextSeq(table) ==
  1 + (IF DOMAIN table = {} THEN 0
       ELSE CHOOSE n \in DOMAIN table : \A m \in DOMAIN table : m <= n)

\* append: the session is looked up and the next seq read in one snapshot.
BeginAppend(c, s, e) ==
  /\ tx[c] = Idle
  /\ rows[s] # NoSession
  /\ \A x \in unused : e <= x
  /\ tx' = [tx EXCEPT ![c] =
              [op |-> "append", fresh |-> TRUE, session |-> s,
               seq |-> NextSeq(rows[s].entries), entry |-> Entry(e)]]
  /\ unused' = unused \ {e}
  /\ UNCHANGED <<rows, writer>>

\* fork: the source is read in the transaction that writes the copy.
BeginFork(c, from, s) ==
  /\ tx[c] = Idle
  /\ rows[from] # NoSession
  /\ \E copied \in Contract!EntriesUpTo(SelectEntries(rows[from].entries)) :
       tx' = [tx EXCEPT ![c] =
                [op |-> "fork", fresh |-> TRUE, session |-> s,
                 header |-> Header(s, rows[from].header.id),
                 entries |-> copied]]
  /\ UNCHANGED <<rows, writer, unused>>

\* open_with_import: the directory is listed once.  `due`, what its sessions
\* hold at that moment, is only used by ImportComplete.
BeginImport(c) ==
  /\ tx[c] = Idle
  /\ listed # {}
  /\ tx' = [tx EXCEPT ![c] =
              [op |-> "import", todo |-> listed,
               due |-> [s \in Sessions |->
                          IF s \in listed /\ loadable[s] # NoSession
                            THEN EntryIds(loadable[s].entries) ELSE {}]]]
  /\ UNCHANGED <<rows, writer, unused>>

\* The next listed session is loaded; one that does not load is skipped.
ImportLoad(c, s) ==
  /\ tx[c].op = "import"
  /\ s \in tx[c].todo
  /\ tx' = [tx EXCEPT ![c] =
              IF loadable[s] = NoSession
                THEN [tx[c] EXCEPT !.todo = @ \ {s}]
                ELSE [op |-> "importing", todo |-> tx[c].todo \ {s},
                      due |-> tx[c].due, session |-> s,
                      header |-> loadable[s].header,
                      entries |-> loadable[s].entries]]
  /\ UNCHANGED <<rows, writer, unused>>

ImportDone(c) ==
  /\ tx[c].op = "import"
  /\ tx[c].todo = {}
  /\ tx' = [tx EXCEPT ![c] = Idle]
  /\ UNCHANGED <<rows, writer, unused>>

----------------------------------------------------------------------------
(* Writing. *)

\* What SQLite asks of a transaction that wants to write: nobody writes, and
\* nobody has committed since it read.
MayWrite(c) ==
  /\ writer = NoConn
  /\ tx[c].op \in {"append", "fork"} => tx[c].fresh

TakeLock(c) ==
  /\ tx[c].op \in {"append", "fork", "importing"}
  /\ MayWrite(c)
  /\ writer' = c
  /\ UNCHANGED <<rows, tx, unused>>

Ended(c) ==
  IF tx[c].op = "importing"
    THEN [op |-> "import", todo |-> tx[c].todo, due |-> tx[c].due]
    ELSE Idle

\* Mutant: an import that finds the database busy goes on with the next session.
Busy_Continues(c) ==
  /\ tx[c].op \in {"append", "fork", "importing"}
  /\ writer # c
  /\ ~MayWrite(c)
  /\ tx' = [tx EXCEPT ![c] = Ended(c)]
  /\ UNCHANGED <<rows, writer, unused>>

\* SQLITE_BUSY, at once or after the busy timeout: the operation fails, and an
\* import with all it had left to do.
Busy(c) ==
  /\ tx[c].op \in {"append", "fork", "importing"}
  /\ writer # c
  /\ ~MayWrite(c)
  /\ tx' = [tx EXCEPT ![c] = Idle]
  /\ UNCHANGED <<rows, writer, unused>>

\* append: INSERT under the primary key (session, seq), then COMMIT.
CommitAppend(c) ==
  /\ tx[c].op = "append"
  /\ writer = c
  /\ tx[c].seq \notin DOMAIN rows[tx[c].session].entries
  /\ LET s == tx[c].session
         table == rows[s].entries
     IN  rows' = [rows EXCEPT ![s].entries =
              [k \in DOMAIN table \cup {tx[c].seq} |->
                 IF k = tx[c].seq THEN tx[c].entry ELSE table[k]]]
  /\ writer' = NoConn
  /\ tx' = [Outdated(c) EXCEPT ![c] = Idle]
  /\ UNCHANGED unused

\* Mutant: INSERT OR REPLACE overwrites the session that is there.
CommitSession_Replaces(c) ==
  /\ tx[c].op \in {"fork", "importing"}
  /\ writer = c
  /\ rows' = [rows EXCEPT ![tx[c].session] =
                [header |-> tx[c].header, entries |-> tx[c].entries]]
  /\ writer' = NoConn
  /\ tx' = [Outdated(c) EXCEPT ![c] = Ended(c)]
  /\ UNCHANGED unused

\* fork and import: INSERT OR IGNORE of the session, and its entries from seq 1
\* when it was not there.
CommitSession(c) ==
  /\ tx[c].op \in {"fork", "importing"}
  /\ writer = c
  /\ rows[tx[c].session] = NoSession
  /\ rows' = [rows EXCEPT ![tx[c].session] =
                [header |-> tx[c].header, entries |-> tx[c].entries]]
  /\ writer' = NoConn
  /\ tx' = [Outdated(c) EXCEPT ![c] = Ended(c)]
  /\ UNCHANGED unused

\* The session is already there: the transaction is dropped; a fork is refused
\* and an import goes on.
Ignored(c) ==
  /\ tx[c].op \in {"fork", "importing"}
  /\ writer = c
  /\ rows[tx[c].session] # NoSession
  /\ writer' = NoConn
  /\ tx' = [tx EXCEPT ![c] = Ended(c)]
  /\ UNCHANGED <<rows, unused>>

\* The process of a connection dies; SQLite rolls back.
Crash(c) ==
  /\ tx[c] # Idle
  /\ tx' = [tx EXCEPT ![c] = Idle]
  /\ writer' = IF writer = c THEN NoConn ELSE writer
  /\ UNCHANGED <<rows, unused>>

Next ==
  \E c \in Conns :
    \/ \E s \in Sessions :
         \/ Create(c, s)
         \/ \E e \in unused : BeginAppend(c, s, e)
         \/ \E from \in Sessions : BeginFork(c, from, s)
         \/ ImportLoad(c, s)
    \/ BeginImport(c)
    \/ ImportDone(c)
    \/ TakeLock(c)
    \/ Busy(c)
    \/ CommitAppend(c)
    \/ CommitSession(c)
    \/ Ignored(c)
    \/ Crash(c)

----------------------------------------------------------------------------
(* Properties. *)

\* One session appears, as the JSONL store has or had it.
Imported(s) ==
  /\ View[s] = NoSession
  /\ View'[s] # NoSession
  /\ \E c \in Conns : /\ tx[c].op = "importing"
                      /\ tx[c].session = s
                      /\ View'[s] = [header |-> tx[c].header,
                                     entries |-> tx[c].entries]
  /\ \A t \in Sessions \ {s} : View'[t] = View[t]

\* Whatever connections race, are refused or die, each commit is one atomic
\* operation of the contract or the import of one whole session that was not
\* there: no seq is given twice, no entry is lost, no session overwritten.
AtomicCommit == Contract!Next \/ \E s \in Sessions : Imported(s)
CommitsAreAtomic == [][AtomicCommit]_View

\* An import brings over every session it listed: the log it writes has all the
\* entries the file had when the directory was listed, and a session it is done
\* with is in the database, by its own hand or another's.
ImportComplete ==
  \A c \in Conns :
    /\ tx[c].op = "importing" =>
         tx[c].due[tx[c].session] \subseteq EntryIds(tx[c].entries)
    /\ tx[c].op \in {"import", "importing"} =>
         \A s \in Sessions :
           \/ tx[c].due[s] = {}
           \/ s \in tx[c].todo
           \/ tx[c].op = "importing" /\ s = tx[c].session
           \/ rows[s] # NoSession
=============================================================================
