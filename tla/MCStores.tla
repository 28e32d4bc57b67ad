------------------------------ MODULE MCStores ------------------------------
(***************************************************************************)
(* What several processes keep in files at the same time, for model        *)
(* checking.  A behaviour is about one subject:                            *)
(*   "writers"   a JSONL directory, writers that race and are interrupted; *)
(*   "contract"  a JSONL directory with one writer, never interrupted;     *)
(*   "import"    such a directory while a database imports it;             *)
(*   "settings"  the settings files.                                       *)
(***************************************************************************)
EXTENDS JsonlStore, TLC

CONSTANTS
  Subjects,
  DirSessions, DirEntries,                                \* "contract"
  FileSessions, FileEntries, Conns, NewEntries,           \* "import"
  Processes, Keys, Values, MaxWrites                      \* "settings"

VARIABLES
  subject,
  dir, dirOp, dirNext, dirAcked,
  rows, writer, tx, unused,
  json, backup, yaml, proc, watch, writes, base, set, failed

dirVars == <<dir, dirOp, dirNext, dirAcked>>
sqlVars == <<rows, writer, tx, unused>>
settingsVars == <<json, backup, yaml, proc, watch, writes, base, set, failed>>

\* A directory with one writer.
Dir == INSTANCE JsonlStore WITH
  files <- dir, op <- dirOp, nextEntry <- dirNext, acked <- dirAcked,
  Writers <- {"writer"}, Interrupts <- FALSE,
  Sessions <- DirSessions, MaxEntries <- DirEntries

Sql == INSTANCE SqliteStore WITH
  AllEntries <- NewEntries \cup 1..DirEntries,
  listed     <- {s \in FileSessions : dir[s].exists /\ Dir!ScanHeader(dir[s]).ok},
  loadable   <- [s \in Sessions |-> IF s \in FileSessions THEN Dir!View[s] ELSE NoSession]

Files == INSTANCE Settings

Symmetry == Permutations(Conns) \cup Permutations(Processes)

ASSUME StoresAssumption ==
  /\ DirEntries \in Nat /\ NewEntries \subseteq Nat
  /\ FileSessions \subseteq Sessions \cap DirSessions
  /\ Sql!NoConn \notin Conns

\* No session is not a session: the None of an Option.
SqlHeaders == [kind : {"session"}, id : Sessions \cup DirSessions,
               parent : Sessions \cup DirSessions \cup {NoSession}]
SqlTexts == Dir!Text \cup {Sql!Entry(e) : e \in NewEntries}
ASSUME NoneAssumption ==
  /\ NoSession \notin DirSessions
  /\ NoSession \notin [header : Dir!Text, entries : Seq(Dir!Text)]
  /\ NoSession \notin [header : SqlHeaders, entries : Seq(SqlTexts)]

Off == "not used"

MCInit ==
  /\ subject \in Subjects
  /\ Init /\ Dir!Init /\ Sql!Init
  /\ IF subject = "settings" THEN Files!Init
     ELSE /\ json = Off /\ backup = Off /\ yaml = Off /\ proc = Off /\ watch = Off
          /\ writes = Off /\ base = Off /\ set = Off /\ failed = Off

WritersStep  == subject = "writers" /\ Next /\ UNCHANGED <<subject, dirVars, sqlVars, settingsVars>>
ContractStep == subject = "contract" /\ Dir!Next /\ UNCHANGED <<subject, vars, sqlVars, settingsVars>>
\* The directory that is imported is a smaller one.
DirStep ==
  /\ subject = "import" /\ Dir!Next
  /\ \A s \in DirSessions \ FileSessions : ~dir'[s].exists
  /\ dirNext' <= FileEntries + 1
  /\ UNCHANGED <<subject, vars, sqlVars, settingsVars>>
SqlStep      == subject = "import" /\ Sql!Next /\ UNCHANGED <<subject, vars, dirVars, settingsVars>>
SettingsStep == subject = "settings" /\ Files!Next /\ UNCHANGED <<subject, vars, dirVars, sqlVars>>

MCNext == WritersStep \/ ContractStep \/ DirStep \/ SqlStep \/ SettingsStep

MCSpec == MCInit /\ [][MCNext]_<<subject, vars, dirVars, sqlVars, settingsVars>>

-----------------------------------------------------------------------------
\* JsonlStore: with one writer that is never interrupted the store implements
\* the contract: every write is an atomic create, append or fork, or invisible.
\* SqliteStore: whatever connections race, are refused or die, each commit is
\* one operation of the contract or the import of one whole session.
StoresImplementContract ==
  /\ Dir!Contract!Init
  /\ [][(subject = "contract") => Dir!Contract!Next \/ Dir!View' = Dir!View]_dirVars
  /\ [][(subject = "import") => Sql!AtomicCommit]_rows

\* SqliteStore: an import brings over all that the directory held.
ImportComplete == subject = "import" => Sql!ImportComplete

\* Settings: no setting is lost in the move from JSON to YAML.
LegacyKept == subject = "settings" => Files!LegacyKept

\* Settings: the watcher's last word is what the files at rest say.
WatcherCatchesUp == subject = "settings" => Files!WatcherCatchesUp
=============================================================================
