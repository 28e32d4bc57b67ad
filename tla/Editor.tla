------------------------------- MODULE Editor -------------------------------
(***************************************************************************)
(* The prompt editor of the terminal UI                                    *)
(* (crates/tui/src/rt/components/editor.rs): its undo stack, kill ring,    *)
(* recall history and the folding of large pastes into tokens.             *)
(*                                                                         *)
(* The buffer is the sequence of cells of lines.join("\n"): "a" for a      *)
(* character of one byte, "w" for one of two, "nl", and a token            *)
(* `[paste #N ...]' as two cells, "[" with its id and "]", so that the     *)
(* caret can be in it and either half be deleted.  Undo units hold byte    *)
(* offsets, as in the code.  The caret moves freely; where a word starts   *)
(* is a choice.  Payloads are numbered in the order they are pasted.       *)
(***************************************************************************)
EXTENDS Integers, Sequences, SequencesExt, FiniteSets

CONSTANTS
  MaxKeys,    \* bound: keys pressed
  MaxCells,   \* bound: cells in the buffer when one more is put in
  MaxRing,    \* entries the kill ring retains
  FoldCells   \* PASTE_CHARS_THRESHOLD and PASTE_LINES_THRESHOLD, in cells

VARIABLES
  text, caret,           \* the buffer; cells before the caret
  registry, nextId,      \* paste_markers: id |-> payload; next_paste_id
  undo, redo,            \* stacks of units, the last on top
  breakCoalesce,
  ring, yankIndex,       \* kill ring, oldest first; 0 if no yank armed it
  history, browsing,     \* recall history, newest first; 0 if not browsing
  panicked,              \* a byte offset fell inside a character
  pastes, keys,          \* payloads so far; keys so far
  downgraded,            \* ghost: payloads whose token was made literal
  strayed                \* ghost: a token was cut out or broken, or the buffer replaced

buffer == <<text, caret, registry, nextId>>
vars == <<text, caret, registry, nextId, undo, redo, breakCoalesce, ring, yankIndex,
          history, browsing, panicked, pastes, keys, downgraded, strayed>>

Cell(c) == [ch |-> c, id |-> 0, of |-> 0]
Token(id, payload) == <<[ch |-> "[", id |-> id, of |-> payload], Cell("]")>>

\* What undo has to bring back.
State == [text |-> text, caret |-> caret, registry |-> registry, nextId |-> nextId]

Init ==
  /\ text = <<>> /\ caret = 0
  /\ registry = <<>> /\ nextId = 0
  /\ undo = <<>> /\ redo = <<>> /\ breakCoalesce = FALSE
  /\ ring = <<>> /\ yankIndex = 0
  /\ history = <<>> /\ browsing = 0
  /\ panicked = FALSE /\ pastes = 0 /\ keys = 0
  /\ downgraded = {} /\ strayed = FALSE

-----------------------------------------------------------------------------
(* Offsets and lines. *)

Width(c) == IF c.ch = "w" THEN 2 ELSE 1
Bytes(t) == FoldLeft(LAMBDA n, c : n + Width(c), 0, t)
Upto(t, k) == SubSeq(t, 1, k)
From(t, k) == SubSeq(t, k + 1, Len(t))

\* unflatten: the cells before a byte offset; past the end is the end, and
\* -1 stands for an offset that is no boundary.
Unflatten(t, offset) ==
  IF offset >= Bytes(t) THEN Len(t)
  ELSE LET ks == {k \in 0 .. Len(t) : Bytes(Upto(t, k)) = offset}
       IN  IF ks = {} THEN -1 ELSE CHOOSE k \in ks : TRUE

LineStart == CHOOSE k \in 0 .. caret :
               /\ k = 0 \/ text[k].ch = "nl"
               /\ \A i \in k + 1 .. caret : text[i].ch # "nl"
LineEnd == CHOOSE k \in caret .. Len(text) :
             /\ k = Len(text) \/ text[k + 1].ch = "nl"
             /\ \A i \in caret + 1 .. k : text[i].ch # "nl"

-----------------------------------------------------------------------------
(* Tokens: the scan of marker_covering and renumber_paste_markers, line by *)
(* line, and of expand_paste_markers, which runs on.                       *)

Scan(t, byLine) ==
  FoldLeft(LAMBDA s, i :
             CASE t[i].ch = "[" /\ s.open = 0 -> [s EXCEPT !.open = i]
               [] t[i].ch = "]" /\ s.open # 0 ->
                    [open |-> 0, found |-> s.found \cup {<<s.open, i>>}]
               [] t[i].ch = "nl" /\ byLine -> [s EXCEPT !.open = 0]
               [] OTHER -> s,
           [open |-> 0, found |-> {}], [i \in DOMAIN t |-> i]).found

\* renumber_paste_markers
Renumbered(t, id) ==
  [i \in DOMAIN t |-> IF t[i].id > id /\ \E r \in Scan(t, TRUE) : r[1] = i
                        THEN [t[i] EXCEPT !.id = @ - 1] ELSE t[i]]

\* expand_paste_markers, the text of payload p being the cell [ch |-> "p", of |-> p].
Expand(t) ==
  LET live == {r \in Scan(t, FALSE) : t[r[1]].id \in DOMAIN registry}
  IN  FlattenSeq([i \in DOMAIN t |->
        IF \E r \in live : i = r[1] THEN <<[ch |-> "p", id |-> 0, of |-> registry[t[i].id]]>>
        ELSE IF \E r \in live : i \in r[1] .. r[2] THEN <<>> ELSE <<t[i]>>])

\* paste_marker_ending_at, for the caret: where the token starts, or 0.
TokenEnding ==
  IF caret = 0 \/ text[caret].ch # "]" THEN 0
  ELSE LET starts == {k \in LineStart + 1 .. caret : text[k].ch = "["}
           k == CHOOSE k \in starts : \A j \in starts : j <= k
       IN  IF starts = {} \/ \E i \in k .. caret - 1 : text[i].ch = "]" THEN 0 ELSE k

-----------------------------------------------------------------------------
(* record_edit *)

NoSnapshot == [none |-> TRUE]
SnapshotOf(state) == [registry |-> state.registry, nextId |-> state.nextId]
Snapshot == SnapshotOf(State)

\* A unit to be recorded in `state'; ghosts: `was', `stale', and `strokes', the keys it is made of.
UnitIn(state, position, removed, inserted, typed, snapshot, after) ==
  [position |-> position, removed |-> removed, inserted |-> inserted, open |-> typed,
   after |-> after, snapshot |-> snapshot, was |-> state, stale |-> FALSE,
   strokes |-> <<[key |-> keys + 1, typed |-> typed]>>]

Unit(position, removed, inserted, snapshot, after) ==
  UnitIn(State, position, removed, inserted, FALSE, snapshot, after)

\* The open burst a typed character goes on with.
Extends(unit, position) ==
  unit.open /\ unit.removed = <<>> /\ position = unit.position + Bytes(unit.inserted)

IsTyping(unit) ==
  unit.removed = <<>> /\ Len(unit.inserted) = 1 /\ unit.inserted[1].ch # "nl"

\* The stack with a unit more, or with the burst on its top longer; the latch is
\* break_coalesce as record_edit finds it.
Record(stack, unit, latch) ==
  IF IsTyping(unit) /\ ~latch /\ stack # <<>> /\ Extends(Last(stack), unit.position)
    THEN [stack EXCEPT ![Len(stack)].inserted = @ \o unit.inserted,
                       ![Len(stack)].after = unit.after,
                       ![Len(stack)].strokes = @ \o unit.strokes]
    ELSE Append(stack, [unit EXCEPT !.open = IsTyping(unit) /\ @])

\* A token that is no longer whole, though not made literal.
Broken(t) ==
  \E i \in DOMAIN t : /\ t[i].ch = "[" /\ t[i].of \notin downgraded
                     /\ \A r \in Scan(t, TRUE) : r[1] # i

\* [k, l) replaced by s; the latch tells only where a character is put in.
Edit(k, l, s, typed, latch) ==
  /\ text' = Upto(text, k) \o s \o From(text, l)
  /\ strayed' = (strayed \/ Broken(text') \/ \E i \in k + 1 .. l : text[i].ch = "[")
  /\ caret' = k + Len(s)
  /\ redo' = <<>>
  /\ undo' = Record(undo, UnitIn(State, Bytes(Upto(text, k)), SubSeq(text, k + 1, l), s, typed,
                                 NoSnapshot, k + Len(s)), latch)

Key == ~panicked /\ keys < MaxKeys /\ keys' = keys + 1
Room == Len(text) < MaxCells

\* insert_str of one character, insert_newline
Type(c) ==
  /\ Key /\ Room
  /\ Edit(caret, caret, <<Cell(c)>>, TRUE, breakCoalesce)
  /\ breakCoalesce' = FALSE
  /\ UNCHANGED <<registry, nextId, ring, yankIndex, history, browsing, panicked, pastes,
                 downgraded>>

\* s put in at the caret of a state, with its undo stack; a large s becomes a token
\* (insert_fold_marker).
PutIn(s, state, stack, latch) ==
  LET fold  == Len(s) > FoldCells
      id    == state.nextId + 1
      in    == IF fold THEN Token(id, pastes + 1) ELSE s
      here  == Upto(state.text, state.caret)
      after == state.caret + Len(in)
      snapshot == IF fold THEN SnapshotOf(state) ELSE NoSnapshot
  IN  /\ text' = here \o in \o From(state.text, state.caret) /\ caret' = after
      /\ strayed' = (strayed \/ Broken(text'))
      /\ registry' = IF fold THEN (id :> pastes + 1) @@ state.registry ELSE state.registry
      /\ nextId' = IF fold THEN id ELSE state.nextId
      /\ pastes' = IF fold THEN pastes + 1 ELSE pastes
      /\ undo' = Record(stack, UnitIn(state, Bytes(here), <<>>, in, FALSE, snapshot, after), latch)
      /\ redo' = <<>> /\ breakCoalesce' = FALSE

\* Mutant: the burst is not broken before a paste.
InsertPaste_Joins(s, state, stack) == PutIn(s, state, stack, breakCoalesce)

\* insert_paste, of yanks too: the burst is broken before it and the unit sealed after.
InsertPaste(s, state, stack) == PutIn(s, state, stack, TRUE)

\* Texts to paste, the last one to be folded whatever it says.
Texts == {<<Cell("a"), Cell("w")>>, <<Cell("w"), Cell("nl")>>,
          [i \in 1 .. FoldCells + 1 |-> Cell("a")]}

Paste ==
  /\ Key /\ Room
  /\ \E s \in Texts : InsertPaste(s, State, undo)
  /\ UNCHANGED <<ring, yankIndex, history, browsing, panicked, downgraded>>

\* Higher ids move down by one.
Shifted(id) ==
  [i \in {j \in DOMAIN registry : j < id} \cup {j - 1 : j \in {k \in DOMAIN registry : k > id}} |->
     IF i < id THEN registry[i] ELSE registry[i + 1]]

\* delete_fold_marker: a replacement of the whole buffer.
DeleteFoldMarker(start) ==
  LET id  == text[start].id
      new == Renumbered(Upto(text, start - 1) \o From(text, caret), id)
  IN  /\ registry' = Shifted(id)
      /\ nextId' = IF nextId = 0 THEN 0 ELSE nextId - 1
      /\ text' = new /\ caret' = start - 1
      /\ undo' = Append(undo, Unit(0, text, new, Snapshot, start - 1))
      /\ redo' = <<>> /\ breakCoalesce' = TRUE

EndsLiveToken == TokenEnding # 0 /\ text[TokenEnding].id \in DOMAIN registry

\* delete_back
DeleteBack ==
  /\ Key /\ caret > 0
  /\ \/ /\ EndsLiveToken
        /\ DeleteFoldMarker(TokenEnding) /\ UNCHANGED strayed
     \/ /\ ~EndsLiveToken
        /\ Edit(caret - 1, caret, <<>>, FALSE, TRUE)
        /\ breakCoalesce' = FALSE
        /\ UNCHANGED <<registry, nextId>>
  /\ UNCHANGED <<ring, yankIndex, history, browsing, panicked, pastes, downgraded>>

\* delete_forward, and the downgrade of the token the caret is at or in.
DeleteForward ==
  /\ Key /\ caret < Len(text)
  /\ LET hit == {r \in Scan(text, TRUE) : /\ caret + 1 \in r[1] .. r[2]
                                          /\ text[r[1]].id \in DOMAIN registry}
     IN  /\ registry' = [i \in DOMAIN registry \ {text[r[1]].id : r \in hit} |-> registry[i]]
         /\ downgraded' = downgraded \cup {registry[text[r[1]].id] : r \in hit}
  /\ text' = Upto(text, caret) \o From(text, caret + 1)
  /\ undo' = LET unit == Unit(Bytes(Upto(text, caret)), <<text[caret + 1]>>, <<>>, NoSnapshot, caret)
             IN  Append(undo, [unit EXCEPT !.was.registry = registry'])
  /\ redo' = <<>> /\ breakCoalesce' = FALSE
  /\ UNCHANGED <<caret, nextId, ring, yankIndex, history, browsing, panicked, pastes, strayed>>

\* replace_span: an accepted completion takes the place of what was typed of it,
\* its trigger at least.
Accept(k) ==
  /\ Key /\ Room /\ k < caret
  /\ Edit(k, caret, <<Cell("w")>>, FALSE, TRUE)
  /\ breakCoalesce' = TRUE
  /\ UNCHANGED <<registry, nextId, ring, yankIndex, history, browsing, panicked, pastes,
                 downgraded>>

\* pause
Pause ==
  /\ Key
  /\ breakCoalesce' = TRUE
  /\ undo' = IF undo = <<>> THEN undo ELSE [undo EXCEPT ![Len(undo)].open = FALSE]
  /\ UNCHANGED <<buffer, redo, ring, yankIndex, history, browsing, panicked, pastes,
                 downgraded, strayed>>

-----------------------------------------------------------------------------
(* The kill ring *)

\* KillRing::push: the oldest goes when the ring is full, and no yank is armed.
Push(span) ==
  /\ ring' = LET all == Append(ring, span) IN IF Len(all) > MaxRing THEN Tail(all) ELSE all
  /\ yankIndex' = 0

\* KillRing::yank_pop: one entry older, wrapping around.
Older == IF yankIndex = 1 THEN Len(ring) ELSE yankIndex - 1

\* kill_span; the words' ends are any, the lines' are those of the caret's line.
Kill(k, l) ==
  /\ Key /\ k < l
  /\ Edit(k, l, <<>>, FALSE, TRUE)
  /\ Push(SubSeq(text, k + 1, l))
  /\ breakCoalesce' = FALSE
  /\ UNCHANGED <<registry, nextId, history, browsing, panicked, pastes, downgraded>>

KillLeft  == \E k \in LineStart .. caret : Kill(k, caret)
KillRight == \E l \in caret .. LineEnd : Kill(caret, l)

Yank ==
  /\ Key /\ Room /\ ring # <<>>
  /\ yankIndex' = Len(ring)
  /\ InsertPaste(Last(ring), State, undo)
  /\ UNCHANGED <<ring, history, browsing, panicked, downgraded>>

-----------------------------------------------------------------------------
(* Undo and redo *)

Stale(stack) == [i \in DOMAIN stack |-> [stack[i] EXCEPT !.stale = TRUE]]

\* One text taken out at an offset and another put in (delete_flat, insert_flat).
Replayed(t, position, out, in) ==
  LET k == Unflatten(t, position)
      l == Unflatten(t, position + Bytes(out))
      u == IF out = <<>> THEN t ELSE Upto(t, k) \o From(t, l)
      m == Unflatten(u, position)
  IN  IF (out # <<>> /\ (k = -1 \/ l = -1)) \/ (in # <<>> /\ m = -1) THEN [ok |-> FALSE]
      ELSE [ok |-> TRUE, text |-> IF in = <<>> THEN u ELSE Upto(u, m) \o in \o From(u, m)]

\* swap_paste_registry
Swapped(unit) == IF unit.snapshot = NoSnapshot THEN unit ELSE [unit EXCEPT !.snapshot = Snapshot]

\* A unit replayed; of a stale one the caret lands anywhere.
Replay(unit, out, in, at, rest, others, isUndo) ==
  LET r == Replayed(text, unit.position, out, in) IN
  \/ /\ ~r.ok /\ panicked' = TRUE
     /\ UNCHANGED <<buffer, undo, redo, breakCoalesce>>
  \/ /\ r.ok
     /\ text' = r.text
     /\ \E c \in 0 .. Len(r.text) : (~unit.stale => c = at) /\ caret' = c
     /\ registry' = IF unit.snapshot = NoSnapshot THEN registry ELSE unit.snapshot.registry
     /\ nextId' = IF unit.snapshot = NoSnapshot THEN nextId ELSE unit.snapshot.nextId
     /\ LET moved == Append(others, Swapped(unit))
            a == IF unit.stale THEN Stale(rest) ELSE rest
            b == IF unit.stale THEN Stale(moved) ELSE moved
        IN  IF isUndo THEN undo' = a /\ redo' = b ELSE undo' = b /\ redo' = a
     /\ breakCoalesce' = TRUE
     /\ UNCHANGED panicked

Undo ==
  /\ Key /\ undo # <<>>
  /\ LET u == Last(undo) IN Replay(u, u.inserted, u.removed, u.was.caret, Front(undo), redo, TRUE)
  /\ UNCHANGED <<ring, yankIndex, history, browsing, pastes, downgraded, strayed>>

Redo ==
  /\ Key /\ redo # <<>>
  /\ LET u == Last(redo) IN Replay(u, u.removed, u.inserted, u.after, Front(redo), undo, FALSE)
  /\ UNCHANGED <<ring, yankIndex, history, browsing, pastes, downgraded, strayed>>

\* yank_pop: an undo, then the next older entry put in.  Nothing but a kill
\* disarms it, so the unit undone may be of another edit.
YankPop ==
  /\ Key /\ yankIndex # 0
  /\ yankIndex' = Older
  /\ LET u == IF undo = <<>> THEN Unit(0, <<>>, <<>>, NoSnapshot, caret) ELSE Last(undo)
         rest == IF undo = <<>> THEN <<>> ELSE Front(undo)
         r == Replayed(text, u.position, u.inserted, u.removed)
         reg == IF u.snapshot = NoSnapshot THEN Snapshot ELSE u.snapshot
     IN  \/ /\ ~r.ok /\ panicked' = TRUE
            /\ UNCHANGED <<buffer, undo, redo, breakCoalesce, pastes, strayed>>
         \/ /\ r.ok
            /\ \E c \in 0 .. Len(r.text) :
                 /\ ~u.stale => c = u.was.caret
                 /\ InsertPaste(ring[Older],
                      [text |-> r.text, caret |-> c, registry |-> reg.registry, nextId |-> reg.nextId],
                      IF u.stale THEN Stale(rest) ELSE rest)
            /\ UNCHANGED panicked
  /\ UNCHANGED <<ring, history, browsing, downgraded>>

-----------------------------------------------------------------------------
(* Submit, recall, the caret *)

\* set_text_internal: no unit is recorded, and the units there are no longer fit.
SetText(t) ==
  /\ text' = t /\ caret' = Len(t)
  /\ undo' = Stale(undo) /\ redo' = Stale(redo)
  /\ strayed' = TRUE

Blank == \A i \in DOMAIN text : text[i].ch = "nl"

SubmitBlank ==
  /\ Key /\ Blank
  /\ SetText(<<>>) /\ browsing' = 0
  /\ UNCHANGED <<registry, nextId, breakCoalesce, ring, yankIndex, history, panicked, pastes,
                 downgraded>>

SubmitUnit == Unit(0, text, <<>>, Snapshot, 0)

Trimmed(t) ==
  LET ink == {i \in DOMAIN t : t[i].ch # "nl"}
  IN  SubSeq(t, CHOOSE i \in ink : \A j \in ink : i <= j, CHOOSE i \in ink : \A j \in ink : j <= i)

Submit ==
  /\ Key /\ ~Blank
  /\ history' = LET h == Trimmed(Expand(text))
                IN  IF history # <<>> /\ history[1] = h THEN history ELSE <<h>> \o history
  /\ undo' = Append(undo, SubmitUnit) /\ redo' = <<>>
  /\ breakCoalesce' = TRUE
  /\ registry' = <<>> /\ nextId' = 0
  /\ text' = <<>> /\ caret' = 0 /\ browsing' = 0
  /\ UNCHANGED <<ring, yankIndex, panicked, pastes, downgraded, strayed>>

\* navigate_history: up on the first line, down on the last.
Recall(to) ==
  /\ Key /\ history # <<>> /\ to \in 0 .. Len(history)
  /\ \/ to = browsing + 1 /\ LineStart = 0
     \/ to = browsing - 1 /\ LineEnd = Len(text)
  /\ browsing' = to
  /\ SetText(IF to = 0 THEN <<>> ELSE history[to])
  /\ UNCHANGED <<registry, nextId, breakCoalesce, ring, yankIndex, history, panicked, pastes,
                 downgraded>>

Move(k) ==
  /\ ~panicked /\ k # caret
  /\ caret' = k
  /\ UNCHANGED <<text, registry, nextId, undo, redo, breakCoalesce, ring, yankIndex, history,
                 browsing, panicked, pastes, keys, downgraded, strayed>>

Next ==
  \/ \E c \in {"a", "nl"} : Type(c)
  \/ Paste \/ DeleteBack \/ DeleteForward
  \/ KillLeft \/ KillRight \/ Yank \/ YankPop \/ Undo \/ Redo \/ Pause
  \/ \E k \in LineStart .. caret : Accept(k)
  \/ SubmitBlank \/ Submit
  \/ \E to \in 0 .. Len(history) : Recall(to)
  \/ \E k \in 0 .. Len(text) : Move(k)

Spec == Init /\ [][Next]_vars

-----------------------------------------------------------------------------
\* Nothing but characters typed one after the other.
Burst(strokes) ==
  \A i \in DOMAIN strokes : strokes[i].typed /\ strokes[i].key = strokes[1].key + i - 1

\* Two units of characters that were typed one after the other.
Parted(u, v) ==
  /\ ~u.stale /\ v.position = u.position + Bytes(u.inserted)
  /\ Burst(u.strokes \o v.strokes)
  /\ \A w \in {u, v} : w.removed = <<>> /\ \A i \in DOMAIN w.inserted : w.inserted[i].ch # "nl"

(* A burst of typing is one unit with nothing else in it: a paste, a yank, *)
(* a kill or a pause between two characters parts them, even one of a      *)
(* single character that leaves the text adjoining (record_edit,           *)
(* insert_paste, replace_span, pause); and characters typed one after the  *)
(* other, each where the last one ended, are never two units.              *)
BurstsAreUnits ==
  \A i \in DOMAIN undo : ~undo[i].stale =>
    /\ Len(undo[i].strokes) > 1 => Burst(undo[i].strokes)
    /\ i > 1 => ~Parted(undo[i - 1], undo[i])

Lasting(reg) == {<<i, reg[i]>> : i \in {j \in DOMAIN reg : reg[j] \notin downgraded}}

(* Undo gives back what was there before the last edit, text, payloads and *)
(* the count of tokens, through bursts, kills, folded pastes, deleted      *)
(* tokens and submits, as long as the unit is not from before a recall or  *)
(* a blank submit, which replace the buffer behind the stack (record_edit, *)
(* undo).  What a forward delete made literal stays so                     *)
(* (downgrade_fold_marker).                                                *)
UndoRestores ==
  (undo # <<>> /\ ~Last(undo).stale) =>
    LET u == Last(undo)
        r == Replayed(text, u.position, u.inserted, u.removed)
        now == IF u.snapshot = NoSnapshot THEN Snapshot ELSE u.snapshot
    IN  /\ r.ok /\ r.text = u.was.text
        /\ Lasting(now.registry) = Lasting(u.was.registry)
        /\ now.nextId = u.was.nextId

(* A token stands for the paste it was made for: tokens are renumbered in  *)
(* the buffer and in the registry together, undone together, and no new    *)
(* paste takes an id that a token in the buffer still has                  *)
(* (delete_fold_marker, insert_fold_marker, undo, submit).  One a forward  *)
(* delete made literal stands for itself at most.  It does not hold of     *)
(* tokens that were killed and yanked back, of one broken by a newline or  *)
(* a kill and made whole again, nor after a recall.                        *)
TokensKeepPayload ==
  ~strayed =>
    \A r \in Scan(text, TRUE) :
      LET token == text[r[1]] IN
      IF token.id \in DOMAIN registry THEN registry[token.id] = token.of
                                      ELSE token.of \in downgraded
=============================================================================
