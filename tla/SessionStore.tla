---------------------------- MODULE SessionStore ----------------------------
(***************************************************************************)
(* What a session backend promises (crates/agent/src/session/store.rs):    *)
(* sessions are append-only logs under unique ids, and a fork is a new     *)
(* session that copies a prefix of another one.  Every operation is        *)
(* atomic.  InMemoryStore (memory.rs), one map behind one mutex, is this   *)
(* specification; JsonlStore is shown to implement it.                     *)
(*                                                                         *)
(* An operation that returns an error changes nothing here and is not an   *)
(* action.  updated_ms, which only orders listings, is left out.           *)
(***************************************************************************)
EXTENDS Integers, Sequences, Filter

CONSTANTS
  Sessions,     \* session ids
  Entries,      \* entry ids, chosen by the callers
  NoSession     \* no session under an id, no parent of a session

VARIABLE sessions

Header(s, parent)    == [kind |-> "session", id |-> s, parent |-> parent]
Record(header, log)  == [header |-> header, entries |-> log]
Entry(e)             == [kind |-> "entry", id |-> e]

\* The positions of the entry `e` in a log, and the entries strictly before
\* the first of them (entries_up_to); header envelopes are never copied.
Positions(log, e) == {k \in DOMAIN log : log[k].id = e}
Copied(log) == Keep(log, {t \in {log[k] : k \in DOMAIN log} : t.kind # "session"})
Before(log, e) ==
  LET cut == CHOOSE k \in Positions(log, e) : \A j \in Positions(log, e) : k <= j
  IN  Copied(SubSeq(log, 1, cut - 1))
EntriesUpTo(log) ==
  {Copied(log)} \cup
  {Before(log, e) : e \in {x \in Entries : Positions(log, x) # {}}}

----------------------------------------------------------------------------

Init == sessions = [s \in Sessions |-> NoSession]

Create(s) ==
  /\ sessions[s] = NoSession
  /\ sessions' = [sessions EXCEPT ![s] = Record(Header(s, NoSession), <<>>)]

AppendEntry(s, e) ==
  /\ sessions[s] # NoSession
  /\ sessions' = [sessions EXCEPT ![s].entries = Append(@, Entry(e))]

Fork(from, s) ==
  /\ sessions[from] # NoSession
  /\ sessions[s] = NoSession
  /\ \E copied \in EntriesUpTo(sessions[from].entries) :
       sessions' = [sessions EXCEPT ![s] =
                      Record(Header(s, sessions[from].header.id), copied)]

Next ==
  \E s \in Sessions :
    \/ Create(s)
    \/ \E e \in Entries : AppendEntry(s, e)
    \/ \E from \in Sessions : Fork(from, s)

Spec == Init /\ [][Next]_sessions
=============================================================================
