------------------------------ MODULE FileTools ------------------------------
(***************************************************************************)
(* The edit and write tools (crates/coding-agent/src/tools/edit.rs,        *)
(* write.rs, file_mutation_queue.rs) on one file, called by tasks that run *)
(* at the same time.                                                       *)
(*                                                                         *)
(* A text is a sequence of characters of which the tools tell apart the    *)
(* line ends CR and LF, the byte order mark BOM, and the Unicode quotes,   *)
(* dashes and spaces (here Smart) that fuzzy matching folds to ASCII (here *)
(* Plain).  The file has two spellings: its own path, and one through a    *)
(* symbolic link to its directory.                                         *)
(***************************************************************************)
EXTENDS Integers, Filter, SequencesExt

CONSTANTS
  Tasks,      \* tool calls that run at the same time
  Ops,        \* task |-> the operations it may be asked for
  Spellings,  \* paths of the file in use, among "own" and "link"
  Starts      \* texts the file may hold at first; it may be missing too

VARIABLES
  file,       \* what is on disk: Missing, or a Text
  task,       \* what each task is at
  queue,      \* key |-> the tasks that hold (first) or await its lock
  old         \* ghost: what was on disk at first

vars == <<file, task, queue, old>>

Missing == [there |-> FALSE]
Text(t) == [there |-> TRUE, text |-> t]
CR == "cr"  LF == "lf"  BOM == "bom"  Smart == "smart"  Plain == "plain"
CRLF == <<CR, LF>>

-----------------------------------------------------------------------------
(* Texts. *)

Occurs(t, o, i) == i + Len(o) - 1 <= Len(t) /\ SubSeq(t, i, i + Len(o) - 1) = o

\* str::matches: the matches that do not overlap, from the left.
Matches(t, o) ==
  FoldLeft(LAMBDA m, i : IF i >= m.free /\ Occurs(t, o, i)
                           THEN [free |-> i + (IF o = <<>> THEN 1 ELSE Len(o)),
                                 at   |-> Append(m.at, i)]
                           ELSE m,
           [free |-> 1, at |-> <<>>],
           [i \in 1 .. Len(t) + 1 |-> i]).at

Holds(t, o) == \E i \in 1 .. Len(t) + 1 : Occurs(t, o, i)

\* The text with each range, in order, replaced.
Stitch(t, ranges) ==
  LET done == FoldLeft(LAMBDA d, r : [cursor |-> r.end,
                                      text   |-> d.text \o SubSeq(t, d.cursor, r.start - 1) \o r.new],
                       [cursor |-> 1, text |-> <<>>], ranges)
  IN  done.text \o SubSeq(t, done.cursor, Len(t))

At(i, o, n) == [start |-> i, end |-> i + Len(o), new |-> n]

\* str::replace
Replace(t, o, n) == LET m == Matches(t, o) IN Stitch(t, [k \in DOMAIN m |-> At(m[k], o, n)])

\* normalize_for_fuzzy_match
Normalize(t) == [i \in DOMAIN t |-> IF t[i] = Smart THEN Plain ELSE t[i]]

\* A text given with the other line ends than those of the file.
Align(t, s) ==
  CASE Holds(t, CRLF) /\ ~Holds(s, CRLF) /\ Holds(s, <<LF>>) -> Replace(s, <<LF>>, CRLF)
    [] ~Holds(t, CRLF) /\ Holds(s, CRLF) -> Replace(s, CRLF, <<LF>>)
    [] OTHER -> s

-----------------------------------------------------------------------------
(* What an operation makes of a text: a result that is refused, or a text. *)

Refused == [ok |-> FALSE]
Made(t) == [ok |-> TRUE, text |-> t]

Folded(e) == [old |-> Normalize(e.old), new |-> Normalize(e.new)]

\* run_edit: the text as it is, or folded, if that has the old text.
ReplaceIn(t, e, all) ==
  LET found == Len(Matches(t, e.old)) IN
  IF found = 0 \/ (found > 1 /\ ~all) THEN Refused ELSE Made(Replace(t, e.old, e.new))

FuzzyEdit(t, e, all) ==
  IF ~Holds(t, e.old) /\ Holds(Normalize(t), Normalize(e.old))
    THEN ReplaceIn(Normalize(t), Folded(e), all)
    ELSE ReplaceIn(t, e, all)

\* run_edit: the new text's line ends follow what is done to the old text's.
RunEdit(t, e, all) ==
  IF Holds(t, e.old) \/ Align(t, e.old) = e.old THEN FuzzyEdit(t, e, all)
  ELSE FuzzyEdit(t, [old |-> Align(t, e.old),
                     new |-> IF Holds(t, CRLF) THEN Replace(e.new, <<LF>>, CRLF)
                                               ELSE Replace(e.new, CRLF, <<LF>>)], all)

\* Mutant: overlapping edits are not refused.
Overlap_None(ranges) == FALSE

\* Two neighbours, in order of place, that overlap.
Overlap(ranges) == \E k \in 1 .. Len(ranges) - 1 : ranges[k].end > ranges[k + 1].start

InOrder(ranges) == SortSeq(ranges, LAMBDA a, b : a.start < b.start)

\* Each edit in its one place, found in the text before any of them.
Splice(t, edits) ==
  LET ranges == InOrder([k \in DOMAIN edits |-> At(Matches(t, edits[k].old)[1], edits[k].old, edits[k].new)])
  IN  IF (\E k \in DOMAIN edits : Len(Matches(t, edits[k].old)) # 1) \/ Overlap(ranges)
        THEN Refused ELSE Made(Stitch(t, ranges))

\* The whole text is folded if one of the old texts is not found as it is.
FuzzySplice(t, edits) ==
  IF \A k \in DOMAIN edits : Holds(t, edits[k].old) THEN Splice(t, edits)
  ELSE Splice(Normalize(t), [k \in DOMAIN edits |-> Folded(edits[k])])

Aligned(t, edits) ==
  [k \in DOMAIN edits |-> [old |-> Align(t, edits[k].old), new |-> Align(t, edits[k].new)]]

\* run_multi_edit: the byte order mark is set apart and put back.
RunMultiEdit(t, edits) ==
  IF t = <<>> \/ t[1] # BOM THEN FuzzySplice(t, Aligned(t, edits))
  ELSE LET made == FuzzySplice(Tail(t), Aligned(Tail(t), edits))
       IN  IF made.ok THEN Made(<<BOM>> \o made.text) ELSE Refused

\* Only a write is of a file that need not be there.
Apply(op, held) ==
  CASE op.tool = "write" -> Made(op.text)
    [] op.tool # "write" /\ ~held.there -> Refused
    [] op.tool = "edit" /\ held.there  -> RunEdit(held.text, op.edits[1], op.all)
    [] op.tool = "multi" /\ held.there -> RunMultiEdit(held.text, op.edits)

-----------------------------------------------------------------------------
(* A call: its key, its turn, then the body, which reads and writes.       *)

New == [at |-> "new"]

Init ==
  /\ old \in {Missing} \cup {Text(t) : t \in Starts} /\ file = old
  /\ task = [c \in Tasks |-> New]
  /\ queue = [k \in Spellings \cup {"own"} |-> <<>>]

\* mutation_queue_key: a file that does not exist has no canonical path.
Key(path) == IF file = Missing THEN path ELSE "own"

Call(c, op, path) ==
  /\ task[c] = New
  /\ task' = [task EXCEPT ![c] = [at |-> "queued", op |-> op, key |-> Key(path)]]
  /\ queue' = [queue EXCEPT ![Key(path)] = Append(@, c)]
  /\ UNCHANGED <<file, old>>

Leave(c, result) ==
  /\ task' = [task EXCEPT ![c] = result]
  /\ queue' = [queue EXCEPT ![task[c].key] = Keep(@, Tasks \ {c})]

HasTurn(c) == Head(queue[task[c].key]) = c

Done(c, held, result) == [at |-> "done", op |-> task[c].op, read |-> held, made |-> result]

\* The text is read, and the result worked out; an edit that is refused, or
\* of a file that is not there, ends here.
Read(c) ==
  /\ task[c].at = "queued" /\ HasTurn(c)
  /\ LET result == Apply(task[c].op, file)
     IN  \/ /\ ~result.ok
            /\ Leave(c, Done(c, file, result))
         \/ /\ result.ok
            /\ task' = [task EXCEPT ![c] = [at |-> "read", op |-> @.op, key |-> @.key,
                                            read |-> file, file |-> file, made |-> result]]
            /\ UNCHANGED queue
  /\ UNCHANGED <<file, old>>

\* std::fs::write: the file is created or emptied, then filled.
Truncate(c) ==
  /\ task[c].at = "read"
  /\ file' = Text(<<>>)
  /\ task' = [task EXCEPT ![c].at = "filling", ![c].file = Text(<<>>)]
  /\ UNCHANGED <<queue, old>>

Fill(c) ==
  /\ task[c].at = "filling"
  /\ file' = Text(task[c].made.text)
  /\ Leave(c, Done(c, task[c].read, task[c].made))
  /\ UNCHANGED old

\* It fails, with the file as it was or emptied.
WriteFails(c) ==
  /\ task[c].at \in {"read", "filling"}
  /\ Leave(c, [at |-> "failed"])
  /\ UNCHANGED <<file, old>>

\* An abort drops a call that waits; the body runs to its end.
Drop(c) ==
  /\ task[c].at = "queued"
  /\ Leave(c, [at |-> "failed"])
  /\ UNCHANGED <<file, old>>

Next ==
  \E c \in Tasks :
    \/ \E op \in Ops[c], path \in Spellings : Call(c, op, path)
    \/ Read(c) \/ Truncate(c) \/ Fill(c) \/ WriteFails(c) \/ Drop(c)

Spec == Init /\ [][Next]_vars

-----------------------------------------------------------------------------
(* Reference: the places the edits of a batch may take in a text, one for  *)
(* each, disjoint; and the text in which those, and only those, have       *)
(* changed, said character by character.                                   *)
Places(t, edits) ==
  {p \in [DOMAIN edits -> 1 .. Len(t) + 1] :
     /\ \A k \in DOMAIN edits : Occurs(t, edits[k].old, p[k])
     /\ \A j, k \in DOMAIN edits :
          j < k => \/ p[j] + Len(edits[j].old) <= p[k]
                   \/ p[k] + Len(edits[k].old) <= p[j]}

Changed(t, edits, p) ==
  FlattenSeq([i \in 1 .. Len(t) + 1 |->
    FlattenSeq([k \in DOMAIN edits |-> IF p[k] = i THEN edits[k].new ELSE <<>>])
    \o (IF i > Len(t) \/ \E k \in DOMAIN edits : i \in p[k] .. p[k] + Len(edits[k].old) - 1
          THEN <<>> ELSE <<t[i]>>)])

\* The forms an edit may take: its own line ends or the file's, as given or folded.
Forms(t, e) ==
  LET endings == {e, [old |-> Align(t, e.old), new |-> Align(t, e.new)],
                  [old |-> Replace(e.old, <<LF>>, CRLF), new |-> Replace(e.new, <<LF>>, CRLF)],
                  [old |-> Replace(e.old, CRLF, <<LF>>), new |-> Replace(e.new, CRLF, <<LF>>)]}
  IN  endings \cup {Folded(f) : f \in endings}

(* An edit changes the text it names and nothing else: the result of a     *)
(* batch is what was read, folded only if some text was not found as       *)
(* given, with disjoint occurrences of the old texts replaced by the new   *)
(* ones (run_edit, run_multi_edit).                                        *)
EditsAreLocal ==
  \A c \in Tasks :
    (/\ task[c].at = "done" /\ task[c].op.tool # "write" /\ task[c].made.ok
     /\ ~(task[c].op.tool = "edit" /\ task[c].op.all))
    => LET t == task[c].read.text  es == task[c].op.edits IN
       \E base \in {t} \cup (IF \A k \in DOMAIN es : Holds(t, es[k].old) THEN {} ELSE {Normalize(t)}) :
       \E form \in [DOMAIN es -> UNION {Forms(t, es[k]) : k \in DOMAIN es}] :
         /\ \A k \in DOMAIN es : form[k] \in Forms(t, es[k])
         /\ \E p \in Places(base, form) : task[c].made.text = Changed(base, form, p)

(* No call writes over what it has not read: between its read and the end  *)
(* of its write the file is as the call left it, so of edits made at the   *)
(* same time none is lost (with_file_mutation_queue).  It takes that the   *)
(* file existed, or is only named by its own path: one to be created       *)
(* through a link has a second lock once it is there (mutation_queue_key). *)
NoEditLost ==
  (old.there \/ Spellings \subseteq {"own"}) =>
    \A c \in Tasks : task[c].at \in {"read", "filling"} => file = task[c].file
=============================================================================
