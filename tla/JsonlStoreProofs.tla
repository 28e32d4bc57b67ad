------------------------- MODULE JsonlStoreProofs -------------------------
(***************************************************************************)
(* Proofs about JsonlStore, for any number of writers, sessions and        *)
(* entries: whatever races or is interrupted, a session that loads has     *)
(* every acknowledged entry once, and the header scan agrees with the load.*)
(***************************************************************************)
EXTENDS JsonlStore, SequenceLemmas

File  == [exists : BOOLEAN, closed : Seq(Seq(Text)), tail : Seq(Text)]
Lines(f) == Append(f.closed, f.tail)

Whole  == {l \in Seq(Text) : Parses(l)}
Filled == {l \in Seq(Text) : l # <<>>}

\* What a load reads, line by line.
Read(f)   == Keep(Lines(f), Whole)
Parsed(f) == Texts(Read(f))

\* A text is somewhere in the file, or in a line that is closed.
Held(f, t)   == \E k \in DOMAIN Lines(f) : \E i \in DOMAIN Lines(f)[k] : Lines(f)[k][i] = t
Closed(f, t) == \E k \in DOMAIN f.closed : \E i \in DOMAIN f.closed[k] : f.closed[k][i] = t

----------------------------------------------------------------------------
(* Reading a file. *)

LEMMA LineParts ==
  ASSUME NEW f \in File
  PROVE  /\ f.closed \in Seq(Seq(Text)) /\ f.tail \in Seq(Text)
         /\ Lines(f) \in Seq(Seq(Text)) /\ DOMAIN Lines(f) = 1..(Len(f.closed) + 1)
         /\ \A k \in 1..Len(f.closed) : Lines(f)[k] = f.closed[k]
         /\ Lines(f)[Len(f.closed) + 1] = f.tail
         /\ Lines(f) = f.closed \o <<f.tail>>
         /\ <<f.tail>> \in Seq(Seq(Text))
  <1>1. f.closed \in Seq(Seq(Text)) /\ f.tail \in Seq(Text)
    BY DEF File
  <1> DEFINE c == f.closed  t == f.tail
  <1>2. /\ Append(c, t) \in Seq(Seq(Text)) /\ DOMAIN Append(c, t) = 1..(Len(c) + 1)
        /\ \A k \in 1..Len(c) : Append(c, t)[k] = c[k]
        /\ Append(c, t)[Len(c) + 1] = t
        /\ Append(c, t) = c \o <<t>>
        /\ <<t>> \in Seq(Seq(Text))
    <2> HIDE DEF c, t
    <2> QED BY <1>1 DEF c, t
  <1> QED BY <1>1, <1>2 DEF Lines

LEMMA NonBlankIsFilled ==
  ASSUME NEW s \in Seq(Seq(Text))
  PROVE  NonBlank(s) = Keep(s, Filled)
  <1>1. ToSet(s) \subseteq Seq(Text)
    BY Elements DEF ToSet
  <1>2. ToSet(s) \cap (ToSet(s) \ {<<>>}) = ToSet(s) \cap Filled
    BY <1>1 DEF Filled
  <1>3. Keep(s, ToSet(s) \ {<<>>}) = Keep(s, Filled)
    BY <1>2, KeepSame
  <1> QED BY <1>3 DEF NonBlank, ToSet

LEMMA KeepOne ==
  ASSUME NEW l \in Seq(Text), NEW T
  PROVE  Keep(<<l>>, T) = IF l \in T THEN <<l>> ELSE <<>>
  <1>1. <<l>> \in Seq(Seq(Text)) /\ ToSet(<<l>>) = {l}
    BY DEF ToSet
  <1>2. CASE l \in T
    <2>1. ToSet(<<l>>) \subseteq T
      BY <1>1, <1>2
    <2>2. Keep(<<l>>, T) = <<l>>
      BY <1>1, <2>1, KeepAll, Zenon
    <2> QED BY <1>2, <2>2
  <1>3. CASE l \notin T
    <2>1. ToSet(<<l>>) \cap T = {}
      BY <1>1, <1>3
    <2> QED BY <1>1, <1>3, <2>1, KeepNone
  <1> QED BY <1>2, <1>3

\* A closed line of a session that loads is blank or one text.
LEMMA ClosedLinesParse ==
  ASSUME NEW f \in File, Load(f).ok
  PROVE  Keep(f.closed, Filled) = Keep(f.closed, Whole)
  <1> DEFINE c == f.closed  n == NonBlank(f.closed)
  <1>1. c \in Seq(Seq(Text)) /\ ToSet(c) \subseteq Seq(Text)
    <2>1. c \in Seq(Seq(Text))
      BY LineParts
    <2> QED BY <2>1, Elements DEF ToSet
  <1>2. \A k \in DOMAIN n : Parses(n[k])
    BY DEF Load, Corrupt
  <1>3. n = Keep(c, Filled)
    BY <1>1, NonBlankIsFilled
  <1>4. ToSet(n) = ToSet(c) \cap Filled
    BY <1>1, <1>3, KeepElements
  <1> HIDE DEF n, c
  <1>5. \A l \in ToSet(c) \cap Filled : Parses(l)
    BY <1>2, <1>4 DEF ToSet
  <1>6. \A l \in Seq(Text) : Parses(l) => l # <<>>
    BY DEF Parses
  <1>7. ToSet(c) \cap Filled = ToSet(c) \cap Whole
    BY <1>1, <1>5, <1>6 DEF Filled, Whole
  <1> QED BY <1>1, <1>7, KeepSame DEF c

\* What a load returns, by the lines that parse.
LEMMA LoadReads ==
  ASSUME NEW f \in File, Load(f).ok
  PROVE  /\ Parsed(f) # <<>> /\ Parsed(f)[1].kind = "session"
         /\ Load(f) = [ok |-> TRUE, header |-> Parsed(f)[1], entries |-> Tail(Parsed(f))]
  <1> DEFINE end == IF Parses(f.tail) THEN <<f.tail>> ELSE <<>>
             p   == Texts(NonBlank(f.closed) \o end)
  <1>1. /\ p # <<>> /\ p[1].kind = "session"
        /\ Load(f) = [ok |-> TRUE, header |-> p[1], entries |-> Tail(p)]
    BY DEF Load, Corrupt
  <1>2. f.closed \in Seq(Seq(Text)) /\ f.tail \in Seq(Text) /\ <<f.tail>> \in Seq(Seq(Text))
        /\ Lines(f) = f.closed \o <<f.tail>>
    BY LineParts
  <1>3. end = Keep(<<f.tail>>, Whole)
    BY <1>2, KeepOne DEF Whole
  <1>4. NonBlank(f.closed) = Keep(f.closed, Whole)
    BY <1>2, NonBlankIsFilled, ClosedLinesParse
  <1>5. Keep(Lines(f), Whole) = Keep(f.closed, Whole) \o Keep(<<f.tail>>, Whole)
    BY <1>2, KeepConcat
  <1>6. p = Parsed(f)
    BY <1>3, <1>4, <1>5 DEF Parsed, Read
  <1> HIDE DEF p
  <1> QED BY <1>1, <1>6

LEMMA ReadParts ==
  ASSUME NEW f \in File
  PROVE  /\ Read(f) \in Seq(Seq(Text)) /\ Parsed(f) \in Seq(Text)
         /\ Len(Parsed(f)) = Len(Read(f))
         /\ \A j \in 1..Len(Read(f)) : /\ Read(f)[j] = <<Parsed(f)[j]>>
                                       /\ Parsed(f)[j] # Torn
         /\ ToSet(Read(f)) = ToSet(Lines(f)) \cap Whole
         /\ Sub(Read(f), Lines(f))
  <1>1. Lines(f) \in Seq(Seq(Text))
    BY LineParts
  <1>2. /\ Read(f) \in Seq(Seq(Text)) /\ ToSet(Read(f)) = ToSet(Lines(f)) \cap Whole
        /\ Sub(Read(f), Lines(f))
    BY <1>1, KeepInSeq, KeepElements, KeepPlaces DEF Read
  <1> DEFINE r == Read(f)
  <1> HIDE DEF r
  <1>3. \A j \in 1..Len(r) : r[j] \in Whole
    BY <1>2 DEF ToSet, r
  <1>4. \A l \in Whole : /\ l \in Seq(Text) /\ l = <<l[1]>> /\ l[1] \in Text /\ l[1] # Torn
    BY DEF Whole, Parses
  <1>5. /\ Texts(r) \in Seq(Text) /\ Len(Texts(r)) = Len(r)
        /\ \A j \in 1..Len(r) : Texts(r)[j] = r[j][1]
    <2>1. r \in Seq(Seq(Text)) /\ DOMAIN r = 1..Len(r) /\ Len(r) \in Nat
      BY <1>2 DEF r
    <2>2. \A j \in 1..Len(r) : r[j][1] \in Text
      BY <1>3, <1>4
    <2>3. Texts(r) \in [1..Len(r) -> Text]
      BY <2>1, <2>2 DEF Texts
    <2> QED BY <2>1, <2>3 DEF Texts
  <1>6. \A j \in 1..Len(r) : r[j] = <<Texts(r)[j]>> /\ Texts(r)[j] # Torn
    BY <1>3, <1>4, <1>5
  <1> QED BY <1>2, <1>5, <1>6 DEF Parsed, r

\* A session that loads: each of its texts is alone on a line of the file, in
\* order, and every text of a closed line is among them.
LEMMA LoadParts ==
  ASSUME NEW f \in File, Load(f).ok
  PROVE  \E p \in Seq(Text) :
           /\ p # <<>> /\ p[1].kind = "session"
           /\ Load(f).header = p[1] /\ Load(f).entries = Tail(p)
           /\ \A j \in 1..Len(p) : p[j] # Torn
           /\ \E at \in [1..Len(p) -> DOMAIN Lines(f)] :
                /\ \A i, j \in 1..Len(p) : i < j => at[i] < at[j]
                /\ \A j \in 1..Len(p) : Lines(f)[at[j]] = <<p[j]>>
           /\ \A t : t # Torn /\ Closed(f, t) => \E j \in 1..Len(p) : p[j] = t
  <1> DEFINE p == Parsed(f)  r == Read(f)  ls == Lines(f)
  <1>1. /\ p # <<>> /\ p[1].kind = "session"
        /\ Load(f).header = p[1] /\ Load(f).entries = Tail(p)
    BY LoadReads
  <1>2. /\ r \in Seq(Seq(Text)) /\ p \in Seq(Text) /\ Len(p) = Len(r)
        /\ \A j \in 1..Len(r) : r[j] = <<p[j]>> /\ p[j] # Torn
        /\ ToSet(r) = ToSet(ls) \cap Whole
        /\ Sub(r, ls)
    BY ReadParts
  <1>3. ls \in Seq(Seq(Text)) /\ DOMAIN ls = 1..Len(ls)
    <2>1. ls \in Seq(Seq(Text))
      BY LineParts
    <2> HIDE DEF ls
    <2> QED BY <2>1
  <1>4. ASSUME NEW t, t # Torn, Closed(f, t) PROVE \E j \in 1..Len(p) : p[j] = t
    <2>1. PICK k \in DOMAIN f.closed : \E i \in DOMAIN f.closed[k] : f.closed[k][i] = t
      BY <1>4 DEF Closed
    <2> DEFINE l == f.closed[k]
    <2>2. f.closed \in Seq(Seq(Text)) /\ k \in 1..Len(f.closed) /\ l \in Seq(Text)
          /\ ls[k] = l /\ k \in DOMAIN ls
      <3>1. /\ f.closed \in Seq(Seq(Text)) /\ DOMAIN ls = 1..(Len(f.closed) + 1)
            /\ \A i \in 1..Len(f.closed) : ls[i] = f.closed[i]
        BY LineParts
      <3> DEFINE c == f.closed
      <3> HIDE DEF ls, c
      <3>2. k \in 1..Len(c) /\ c[k] \in Seq(Text) /\ Len(c) \in Nat
        BY <3>1 DEF c
      <3> QED BY <3>1, <3>2 DEF c
    <2>3. l # <<>>
      BY <2>1
    <2>4. l \in ToSet(f.closed) \cap Filled
      BY <2>2, <2>3 DEF ToSet, Filled
    <2>5. ToSet(Keep(f.closed, Filled)) = ToSet(f.closed) \cap Filled
          /\ ToSet(Keep(f.closed, Whole)) = ToSet(f.closed) \cap Whole
      BY <2>2, KeepElements
    <2>6. l \in Whole
      BY <2>4, <2>5, ClosedLinesParse
    <2>7. l \in ToSet(r)
      BY <1>2, <2>2, <2>6 DEF ToSet
    <2> HIDE DEF l, r, p
    <2>8. PICK j \in 1..Len(r) : l = r[j]
      BY <1>2, <2>7 DEF ToSet
    <2>9. l = <<p[j]>>
      BY <1>2, <2>8
    <2>10. \E i \in DOMAIN l : l[i] = t
      BY <2>1 DEF l
    <2> QED BY <1>2, <2>8, <2>9, <2>10
  <1>5. \E at \in [1..Len(p) -> DOMAIN ls] :
          /\ \A i, j \in 1..Len(p) : i < j => at[i] < at[j]
          /\ \A j \in 1..Len(p) : ls[at[j]] = <<p[j]>>
    <2> HIDE DEF p, r, ls
    <2>1. PICK at \in [1..Len(r) -> 1..Len(ls)] :
            /\ \A i, j \in 1..Len(r) : i < j => at[i] < at[j]
            /\ \A i \in 1..Len(r) : r[i] = ls[at[i]]
      BY <1>2, Zenon DEF Sub
    <2>2. at \in [1..Len(p) -> DOMAIN ls]
      BY <1>2, <1>3
    <2>3. \A j \in 1..Len(p) : ls[at[j]] = <<p[j]>>
      <3>1. \A j \in 1..Len(r) : r[j] = <<p[j]>>
        BY <1>2
      <3>2. Len(p) = Len(r)
        BY <1>2
      <3> QED BY <2>1, <3>1, <3>2
    <2>4. \A i, j \in 1..Len(p) : i < j => at[i] < at[j]
      BY <1>2, <2>1
    <2> QED BY <2>2, <2>3, <2>4, Zenon
  <1> HIDE DEF p, r, ls
  <1>6. \A j \in 1..Len(p) : p[j] # Torn
    BY <1>2
  <1>7. p \in Seq(Text)
    BY <1>2
  <1> QED BY <1>1, <1>4, <1>5, <1>6, <1>7 DEF ls

\* The bounded scan finds the header that the load returns.
LEMMA ScanReads ==
  ASSUME NEW f \in File, Load(f).ok
  PROVE  ScanHeader(f).ok /\ ScanHeader(f).header = Load(f).header
  <1> DEFINE n == NonBlank(Lines(f))  k == Keep(f.closed, Whole)
             r == Read(f)
  <1>1. /\ f.closed \in Seq(Seq(Text)) /\ f.tail \in Seq(Text) /\ <<f.tail>> \in Seq(Seq(Text))
        /\ Lines(f) = f.closed \o <<f.tail>> /\ Lines(f) \in Seq(Seq(Text))
    BY LineParts
  <1>2. n = k \o Keep(<<f.tail>>, Filled)
    <2>1. n = Keep(Lines(f), Filled)
      BY <1>1, NonBlankIsFilled
    <2>2. Keep(f.closed \o <<f.tail>>, Filled) = Keep(f.closed, Filled) \o Keep(<<f.tail>>, Filled)
      BY <1>1, KeepConcat
    <2> QED BY <1>1, <2>1, <2>2, ClosedLinesParse
  <1>3. r = k \o Keep(<<f.tail>>, Whole)
    BY <1>1, KeepConcat DEF Read
  <1>4. /\ Keep(<<f.tail>>, Filled) = IF f.tail \in Filled THEN <<f.tail>> ELSE <<>>
        /\ Keep(<<f.tail>>, Whole) = IF f.tail \in Whole THEN <<f.tail>> ELSE <<>>
    BY <1>1, KeepOne, Zenon
  <1>5. k \in Seq(Seq(Text))
    BY <1>1, KeepInSeq
  <1>6. /\ Parsed(f) # <<>> /\ Parsed(f)[1].kind = "session" /\ Load(f).header = Parsed(f)[1]
    BY LoadReads
  <1>7. /\ r \in Seq(Seq(Text)) /\ Parsed(f) \in Seq(Text) /\ Len(Parsed(f)) = Len(r)
        /\ \A j \in 1..Len(r) : r[j] = <<Parsed(f)[j]>> /\ Parsed(f)[j] # Torn
        /\ ToSet(r) \subseteq Whole
    BY ReadParts
  <1> DEFINE p == Parsed(f)  t == f.tail
  <1> HIDE DEF n, k, r, p, t
  <1>8. 1 \in 1..Len(r) /\ r # <<>>
    BY <1>6, <1>7 DEF p
  <1>9. t \in Whole => t \in Filled
    BY DEF Whole, Filled, Parses
  <1>10. n # <<>> /\ n[1] = r[1]
    <2>1. CASE k = <<>>
      <3>1. t \in Whole
        BY <1>3, <1>4, <1>8, <2>1 DEF t
      <3>2. n = <<>> \o <<t>> /\ r = <<>> \o <<t>>
        BY <1>2, <1>3, <1>4, <1>9, <2>1, <3>1 DEF t
      <3> QED BY <3>2
    <2>2. CASE k # <<>>
      <3> DEFINE x == Keep(<<f.tail>>, Filled)  y == Keep(<<f.tail>>, Whole)
      <3>1. x \in Seq(Seq(Text)) /\ y \in Seq(Seq(Text))
        BY <1>1, KeepInSeq
      <3> HIDE DEF x, y
      <3>2. (k \o x)[1] = k[1] /\ (k \o y)[1] = k[1] /\ k \o x # <<>>
        BY <1>5, <2>2, <3>1
      <3> QED BY <1>2, <1>3, <3>2 DEF x, y
    <2> QED BY <2>1, <2>2
  <1>11. r[1] = <<p[1]>> /\ r[1] \in Whole
    BY <1>7, <1>8 DEF ToSet, p
  <1>12. Parses(n[1]) /\ n[1][1] = p[1] /\ n[1][1].kind = "session"
    BY <1>6, <1>10, <1>11 DEF Whole, p
  <1>13. ScanHeader(f) = [ok |-> TRUE, header |-> n[1][1]]
    BY <1>10, <1>12 DEF ScanHeader, n, Lines
  <1> QED BY <1>6, <1>12, <1>13 DEF p

----------------------------------------------------------------------------
(* The invariant.  A text is said in a session once: in one place of its     *)
(* file, or in the content that one operation has still to write.          *)

Same(t, u) == \/ t.kind = "session" /\ u.kind = "session"
              \/ t.kind = "entry" /\ u.kind = "entry" /\ t.id = u.id

Once(f) ==
  \A k, l \in DOMAIN Lines(f) :
    \A i \in DOMAIN Lines(f)[k], j \in DOMAIN Lines(f)[l] :
      Same(Lines(f)[k][i], Lines(f)[l][j]) => k = l /\ i = j
OnceIn(c)      == \A i, j \in DOMAIN c : Same(c[i], c[j]) => i = j
Apart(f, c)    == \A t \in Text : Held(f, t) => \A j \in DOMAIN c : ~Same(t, c[j])
ApartIn(c, d)  == \A i \in DOMAIN c, j \in DOMAIN d : ~Same(c[i], d[j])

\* A text that may be found in session s.
Known(s, t) == /\ t.kind = "session" => t.id = s
               /\ t.kind = "entry" => t.id < nextEntry

Pending(w, s) == op[w].session = s /\ op[w].step \in {"text", "content"}

OpsFit ==
  \A w \in Writers :
    /\ op[w].step = "idle" => op[w] = Idle
    /\ op[w].step # "idle" => /\ op[w].session \in Sessions
                              /\ files[op[w].session].exists
                              /\ op[w].content # <<>>
    /\ op[w].step \in {"text", "newline"} => Len(op[w].content) = 1
    /\ \A j \in DOMAIN op[w].content : /\ op[w].content[j] # Torn
                                       /\ Known(op[w].session, op[w].content[j])

FilesFit ==
  \A s \in Sessions :
    /\ ~files[s].exists => files[s] = NoFile
    /\ \A t \in Text : Held(files[s], t) => Known(s, t)

FilesOnce == \A s \in Sessions : Once(files[s])

OpsApart ==
  \A w \in Writers, s \in Sessions : Pending(w, s) =>
    /\ OnceIn(op[w].content)
    /\ Apart(files[s], op[w].content)
    /\ \A v \in Writers : v # w /\ Pending(v, s) => ApartIn(op[w].content, op[v].content)

\* What is written, or acknowledged, is in the file.
Kept ==
  /\ \A w \in Writers : op[w].step = "newline" =>
       Held(files[op[w].session], op[w].content[1])
  /\ \A s \in Sessions : \A e \in acked[s] : Closed(files[s], Entry(e))

FileInv == TypeOK /\ OpsFit /\ FilesFit /\ FilesOnce /\ OpsApart /\ Kept

----------------------------------------------------------------------------
(* Writing to a file. *)

\* g is f with the texts of c, or some of them, and torn ones at its end.
Grew(f, g) ==
  /\ \A k \in DOMAIN f.closed : k \in DOMAIN g.closed /\ g.closed[k] = f.closed[k]
  /\ \A i \in DOMAIN f.tail :
       /\ Len(f.closed) + 1 \in DOMAIN Lines(g)
       /\ i \in DOMAIN Lines(g)[Len(f.closed) + 1]
       /\ Lines(g)[Len(f.closed) + 1][i] = f.tail[i]

OldPlace(f, g, k, i) ==
  k \in DOMAIN Lines(f) /\ i \in DOMAIN Lines(f)[k] /\ Lines(g)[k][i] = Lines(f)[k][i]
NewPlace(f, g, c, k, i) ==
  \E j \in DOMAIN c : /\ k = Len(f.closed) + j
                      /\ i = IF j = 1 THEN Len(f.tail) + 1 ELSE 1
                      /\ Lines(g)[k][i] = c[j]
Adds(f, g, c) ==
  \A k \in DOMAIN Lines(g) : \A i \in DOMAIN Lines(g)[k] :
    OldPlace(f, g, k, i) \/ Lines(g)[k][i] = Torn \/ NewPlace(f, g, c, k, i)

Writes(f, g, c) == g \in File /\ g.exists /\ Grew(f, g) /\ Adds(f, g, c)

LEMMA WritesKeep ==
  ASSUME NEW f \in File, NEW g \in File, Grew(f, g), NEW t
  PROVE  (Held(f, t) => Held(g, t)) /\ (Closed(f, t) => Closed(g, t))
  <1>1. Closed(f, t) => Closed(g, t)
    BY DEF Closed, Grew
  <1>2. ASSUME Held(f, t) PROVE Held(g, t)
    <2>1. PICK k \in DOMAIN Lines(f) : \E i \in DOMAIN Lines(f)[k] : Lines(f)[k][i] = t
      BY <1>2 DEF Held
    <2>2. PICK i \in DOMAIN Lines(f)[k] : Lines(f)[k][i] = t
      BY <2>1
    <2>3. /\ DOMAIN Lines(f) = 1..(Len(f.closed) + 1)
          /\ \A j \in 1..Len(f.closed) : Lines(f)[j] = f.closed[j]
          /\ Lines(f)[Len(f.closed) + 1] = f.tail
          /\ f.closed \in Seq(Seq(Text))
      BY LineParts
    <2>4. /\ DOMAIN Lines(g) = 1..(Len(g.closed) + 1)
          /\ \A j \in 1..Len(g.closed) : Lines(g)[j] = g.closed[j]
          /\ g.closed \in Seq(Seq(Text))
      BY LineParts
    <2> DEFINE z == Len(f.closed)  ls == Lines(g)  ks == Lines(f)
    <2>5. DOMAIN f.closed = 1..z /\ z \in Nat /\ DOMAIN g.closed = 1..Len(g.closed) /\ Len(g.closed) \in Nat
      BY <2>3, <2>4
    <2> HIDE DEF z, ls, ks
    <2>6. CASE k = z + 1
      <3>1. i \in DOMAIN f.tail /\ f.tail[i] = t
        BY <2>2, <2>3, <2>6 DEF z
      <3>2. z + 1 \in DOMAIN ls /\ i \in DOMAIN ls[z + 1] /\ ls[z + 1][i] = t
        BY <3>1 DEF Grew, z, ls
      <3> QED BY <3>2 DEF Held, ls
    <2>7. CASE k \in 1..z
      <3>1. k \in DOMAIN g.closed /\ g.closed[k] = f.closed[k] /\ ks[k] = f.closed[k]
        BY <2>3, <2>5, <2>7 DEF Grew, z, ks
      <3>2. k \in DOMAIN ls /\ ls[k] = g.closed[k]
        BY <2>4, <2>5, <3>1 DEF ls
      <3>3. i \in DOMAIN ls[k] /\ ls[k][i] = t
        BY <2>2, <3>1, <3>2 DEF ks
      <3> QED BY <3>2, <3>3 DEF Held, ls
    <2>8. k \in 1..z \/ k = z + 1
      BY <2>3, <2>5 DEF z
    <2> QED BY <2>6, <2>7, <2>8
  <1> QED BY <1>1, <1>2

LEMMA WritesTexts ==
  ASSUME NEW f \in File, NEW g \in File, NEW c, Adds(f, g, c), NEW t, Held(g, t)
  PROVE  Held(f, t) \/ t = Torn \/ \E j \in DOMAIN c : c[j] = t
  <1>1. PICK k \in DOMAIN Lines(g) : \E i \in DOMAIN Lines(g)[k] : Lines(g)[k][i] = t
    BY DEF Held
  <1>2. PICK i \in DOMAIN Lines(g)[k] : Lines(g)[k][i] = t
    BY <1>1
  <1>3. OldPlace(f, g, k, i) \/ Lines(g)[k][i] = Torn \/ NewPlace(f, g, c, k, i)
    BY DEF Adds
  <1>4. CASE OldPlace(f, g, k, i)
    BY <1>2, <1>4 DEF OldPlace, Held
  <1>5. CASE NewPlace(f, g, c, k, i)
    BY <1>2, <1>5 DEF NewPlace
  <1> QED BY <1>2, <1>3, <1>4, <1>5

\* Places of a file hold texts.
LEMMA PlaceText ==
  ASSUME NEW f \in File, NEW k \in DOMAIN Lines(f), NEW i \in DOMAIN Lines(f)[k]
  PROVE  Lines(f)[k][i] \in Text /\ Held(f, Lines(f)[k][i])
  <1>1. Lines(f) \in Seq(Seq(Text))
    BY LineParts
  <1> DEFINE ls == Lines(f)
  <1> HIDE DEF ls
  <1>2. ls[k] \in Seq(Text)
    BY <1>1 DEF ls
  <1>3. ls[k][i] \in Text
    BY <1>2 DEF ls
  <1> QED BY <1>3 DEF Held, ls

LEMMA WritesOnce ==
  ASSUME NEW f \in File, NEW g \in File, NEW c \in Seq(Text), Adds(f, g, c),
         Once(f), OnceIn(c), Apart(f, c)
  PROVE  Once(g)
  <1> SUFFICES ASSUME NEW k \in DOMAIN Lines(g), NEW l \in DOMAIN Lines(g),
                      NEW i \in DOMAIN Lines(g)[k], NEW j \in DOMAIN Lines(g)[l],
                      Same(Lines(g)[k][i], Lines(g)[l][j])
               PROVE  k = l /\ i = j
    BY DEF Once
  <1> DEFINE x == Lines(g)[k][i]  y == Lines(g)[l][j]
  <1>1. x # Torn /\ y # Torn
    BY DEF Same, Torn
  <1>2. OldPlace(f, g, k, i) \/ NewPlace(f, g, c, k, i)
    BY <1>1 DEF Adds
  <1>3. OldPlace(f, g, l, j) \/ NewPlace(f, g, c, l, j)
    BY <1>1 DEF Adds
  <1>4. CASE OldPlace(f, g, k, i) /\ OldPlace(f, g, l, j)
    BY <1>4 DEF OldPlace, Once
  <1>5. ASSUME NewPlace(f, g, c, k, i), NewPlace(f, g, c, l, j) PROVE k = l /\ i = j
    <2>1. PICK a \in DOMAIN c : /\ k = Len(f.closed) + a
                                /\ i = IF a = 1 THEN Len(f.tail) + 1 ELSE 1
                                /\ x = c[a]
      BY <1>5 DEF NewPlace
    <2>2. PICK b \in DOMAIN c : /\ l = Len(f.closed) + b
                                /\ j = IF b = 1 THEN Len(f.tail) + 1 ELSE 1
                                /\ y = c[b]
      BY <1>5 DEF NewPlace
    <2>3. a = b
      BY <2>1, <2>2 DEF OnceIn
    <2> QED BY <2>1, <2>2, <2>3
  <1>6. ASSUME OldPlace(f, g, k, i), NewPlace(f, g, c, l, j) PROVE FALSE
    <2>1. x \in Text /\ Held(f, x)
      BY <1>6, PlaceText DEF OldPlace
    <2>2. PICK b \in DOMAIN c : y = c[b]
      BY <1>6 DEF NewPlace
    <2> QED BY <2>1, <2>2 DEF Apart
  <1>7. ASSUME OldPlace(f, g, l, j), NewPlace(f, g, c, k, i) PROVE FALSE
    <2>1. y \in Text /\ Held(f, y)
      BY <1>7, PlaceText DEF OldPlace
    <2>2. PICK a \in DOMAIN c : x = c[a]
      BY <1>7 DEF NewPlace
    <2>3. Same(y, x)
      BY DEF Same
    <2> QED BY <2>1, <2>2, <2>3 DEF Apart
  <1> QED BY <1>2, <1>3, <1>4, <1>5, <1>6, <1>7

\* More text, or a torn one, at the end of the open line.
LEMMA TailWrites ==
  ASSUME NEW f \in File, f.exists, NEW c \in Seq(Text), c # <<>>,
         NEW x \in {c[1], Torn}
  PROVE  /\ Writes(f, [f EXCEPT !.tail = Append(@, x)], c)
         /\ Held([f EXCEPT !.tail = Append(@, x)], x)
  <1> DEFINE g == [f EXCEPT !.tail = Append(@, x)]
             z == Len(f.closed)  a == Lines(f)  b == Lines(g)  u == Append(f.tail, x)
  <1>1. x \in Text
    BY DEF Text
  <1>2. /\ f.closed \in Seq(Seq(Text)) /\ f.tail \in Seq(Text) /\ f.exists \in BOOLEAN
    BY DEF File
  <1>4. /\ u \in Seq(Text) /\ DOMAIN u = 1..(Len(f.tail) + 1) /\ Len(f.tail) \in Nat
        /\ DOMAIN f.tail = 1..Len(f.tail)
        /\ u[Len(f.tail) + 1] = x /\ \A i \in 1..Len(f.tail) : u[i] = f.tail[i]
    BY <1>1, <1>2
  <1> HIDE DEF u
  <1>5. g \in File /\ g.exists = f.exists /\ g.closed = f.closed /\ g.tail = u
    BY <1>4 DEF File, u
  <1> HIDE DEF g
  <1>6. /\ DOMAIN a = 1..(z + 1) /\ \A k \in 1..z : a[k] = f.closed[k]
        /\ a[z + 1] = f.tail
    BY LineParts
  <1>7. /\ DOMAIN b = 1..(z + 1) /\ \A k \in 1..z : b[k] = f.closed[k]
        /\ b[z + 1] = u
    <2>1. /\ DOMAIN b = 1..(Len(g.closed) + 1) /\ \A k \in 1..Len(g.closed) : b[k] = g.closed[k]
          /\ b[Len(g.closed) + 1] = g.tail
      BY <1>5, LineParts
    <2> HIDE DEF b
    <2> QED BY <1>5, <2>1
  <1>8. z \in Nat /\ DOMAIN f.closed = 1..z
    BY <1>2
  <1> HIDE DEF z, a, b
  <1>9. Grew(f, g)
    <2>1. \A k \in DOMAIN f.closed : k \in DOMAIN g.closed /\ g.closed[k] = f.closed[k]
      BY <1>5
    <2>2. \A i \in DOMAIN f.tail : z + 1 \in DOMAIN b /\ i \in DOMAIN b[z + 1] /\ b[z + 1][i] = f.tail[i]
      BY <1>4, <1>7, <1>8
    <2> QED BY <2>1, <2>2 DEF Grew, z, b
  <1>10. Adds(f, g, c)
    <2> SUFFICES ASSUME NEW k \in DOMAIN b, NEW i \in DOMAIN b[k]
                 PROVE  \/ k \in DOMAIN a /\ i \in DOMAIN a[k] /\ b[k][i] = a[k][i]
                        \/ b[k][i] = Torn
                        \/ \E j \in DOMAIN c : /\ k = z + j
                                               /\ i = IF j = 1 THEN Len(f.tail) + 1 ELSE 1
                                               /\ b[k][i] = c[j]
      BY DEF Adds, OldPlace, NewPlace, a, b, z
    <2>1. CASE k \in 1..z
      BY <1>6, <1>7, <1>8, <2>1
    <2>2. CASE k = z + 1 /\ i \in 1..Len(f.tail)
      BY <1>4, <1>6, <1>7, <1>8, <2>2
    <2>3. CASE k = z + 1 /\ i = Len(f.tail) + 1
      <3>1. b[k][i] = x /\ 1 \in DOMAIN c
        BY <1>4, <1>7, <2>3
      <3> QED BY <1>8, <2>3, <3>1
    <2>4. k \in 1..z \/ k = z + 1
      BY <1>7, <1>8
    <2>5. k = z + 1 => i \in 1..Len(f.tail) \/ i = Len(f.tail) + 1
      BY <1>4, <1>7
    <2> QED BY <2>1, <2>2, <2>3, <2>4, <2>5
  <1>11. Held(g, x)
    <2>1. z + 1 \in DOMAIN b /\ Len(f.tail) + 1 \in DOMAIN b[z + 1] /\ b[z + 1][Len(f.tail) + 1] = x
      BY <1>4, <1>7, <1>8
    <2> QED BY <2>1 DEF Held, b
  <1>12. Writes(f, g, c)
    BY <1>5, <1>9, <1>10 DEF Writes
  <1> QED BY <1>11, <1>12 DEF g

\* A newline closes the open line; everything in the file is in a closed line.
LEMMA NewlineWrites ==
  ASSUME NEW f \in File, f.exists, NEW c
  PROVE  /\ Writes(f, [f EXCEPT !.closed = Append(f.closed, f.tail), !.tail = <<>>], c)
         /\ \A t : Held(f, t) =>
              Closed([f EXCEPT !.closed = Append(f.closed, f.tail), !.tail = <<>>], t)
  <1> DEFINE g == [f EXCEPT !.closed = Append(f.closed, f.tail), !.tail = <<>>]
             z == Len(f.closed)  a == Lines(f)  b == Lines(g)
  <1>1. /\ f.closed \in Seq(Seq(Text)) /\ f.tail \in Seq(Text) /\ f.exists \in BOOLEAN
    BY DEF File
  <1>3. /\ a \in Seq(Seq(Text)) /\ DOMAIN a = 1..(z + 1) /\ \A k \in 1..z : a[k] = f.closed[k]
        /\ a[z + 1] = f.tail
    BY LineParts
  <1>4. <<>> \in Seq(Text)
    OBVIOUS
  <1>5. z \in Nat /\ DOMAIN f.closed = 1..z
    BY <1>1
  <1>6. g \in File /\ g.exists = f.exists /\ g.closed = a /\ g.tail = <<>>
    BY <1>3, <1>4 DEF File, Lines
  <1> HIDE DEF g, a, z
  <1>7. Len(a) = z + 1
    BY <1>3, <1>5
  <1>8. /\ DOMAIN b = 1..(z + 2) /\ \A k \in 1..(z + 1) : b[k] = a[k]
        /\ b[z + 2] = <<>>
    <2>1. /\ DOMAIN b = 1..(Len(g.closed) + 1) /\ \A k \in 1..Len(g.closed) : b[k] = g.closed[k]
          /\ b[Len(g.closed) + 1] = g.tail
      BY <1>6, LineParts
    <2> HIDE DEF b
    <2> QED BY <1>5, <1>6, <1>7, <2>1
  <1> HIDE DEF b
  <1>9. Grew(f, g)
    <2>1. \A k \in DOMAIN f.closed : k \in DOMAIN g.closed /\ g.closed[k] = f.closed[k]
      BY <1>3, <1>5, <1>6
    <2>2. \A i \in DOMAIN f.tail : z + 1 \in DOMAIN b /\ i \in DOMAIN b[z + 1] /\ b[z + 1][i] = f.tail[i]
      BY <1>3, <1>5, <1>8
    <2> QED BY <2>1, <2>2 DEF Grew, z, b
  <1>10. Adds(f, g, c)
    <2> SUFFICES ASSUME NEW k \in DOMAIN b, NEW i \in DOMAIN b[k]
                 PROVE  k \in DOMAIN a /\ i \in DOMAIN a[k] /\ b[k][i] = a[k][i]
      BY DEF Adds, OldPlace, a, b
    <2>1. k # z + 2
      BY <1>8
    <2>2. k \in 1..(z + 1)
      BY <1>5, <1>8, <2>1
    <2> QED BY <1>3, <1>8, <2>2
  <1>11. ASSUME NEW t, Held(f, t) PROVE Closed(g, t)
    BY <1>6, <1>11 DEF Held, Closed, a
  <1>12. Writes(f, g, c)
    BY <1>6, <1>9, <1>10 DEF Writes
  <1> QED BY <1>11, <1>12 DEF g

\* g is f with n texts of c as lines after its open one, and rest open.
HasLines(f, c, n, rest, g, z) ==
  /\ g \in File /\ g.exists = f.exists /\ g.tail = rest
  /\ DOMAIN g.closed = 1..(z + n) /\ Len(g.closed) = z + n
  /\ \A k \in 1..z : g.closed[k] = f.closed[k]
  /\ g.closed[z + 1] = Append(f.tail, c[1])
  /\ \A j \in 2..n : g.closed[z + j] = <<c[j]>>

LEMMA ContentLines ==
  ASSUME NEW f \in File, NEW c \in Seq(Text), NEW n \in 1..Len(c), NEW rest \in Seq(Text)
  PROVE  HasLines(f, c, n, rest, Extended(f, AsLines(c, n), rest), Len(f.closed))
  <1> DEFINE ls == AsLines(c, n)
             u == Append(f.closed, f.tail \o Head(ls))  v == Tail(ls)
             g == Extended(f, ls, rest)  z == Len(f.closed)
  <1>1. f.closed \in Seq(Seq(Text)) /\ f.tail \in Seq(Text) /\ z \in Nat
    BY DEF File
  <1>2. n \in Nat /\ 1 \in 1..n /\ \A j \in 1..n : j \in 1..Len(c) /\ c[j] \in Text
    OBVIOUS
  <1>3. ls \in Seq(Seq(Text)) /\ Len(ls) = n /\ \A j \in 1..n : ls[j] = <<c[j]>>
    BY <1>2 DEF AsLines
  <1> HIDE DEF ls
  <1>4. ls # <<>>
    BY <1>2, <1>3
  <1>5. /\ v \in Seq(Seq(Text)) /\ Head(ls) = <<c[1]>> /\ Len(v) = n - 1
        /\ \A j \in 1..(n - 1) : v[j] = ls[j + 1]
    BY <1>2, <1>3, <1>4, TailParts
  <1>6. f.tail \o Head(ls) = Append(f.tail, c[1]) /\ Append(f.tail, c[1]) \in Seq(Text)
    <2> DEFINE t == f.tail  x == c[1]
    <2>1. t \in Seq(Text) /\ x \in Text
      BY <1>1, <1>2
    <2> HIDE DEF t, x
    <2>2. t \o <<x>> = Append(t, x) /\ Append(t, x) \in Seq(Text)
      BY <2>1
    <2>3. Head(ls) = <<x>>
      BY <1>5 DEF x
    <2> QED BY <2>2, <2>3 DEF t, x
  <1>7. /\ u \in Seq(Seq(Text)) /\ Len(u) = z + 1 /\ \A k \in 1..z : u[k] = f.closed[k]
        /\ u[z + 1] = Append(f.tail, c[1])
    <2> DEFINE y == Append(f.tail, c[1])
    <2>1. u = Append(f.closed, y) /\ y \in Seq(Text)
      BY <1>6
    <2> HIDE DEF y, u
    <2>2. u[z + 1] = y
      BY <1>1, <2>1
    <2> QED BY <1>1, <2>1, <2>2 DEF y
  <1>8. g = [f EXCEPT !.closed = u \o v, !.tail = rest]
    BY <1>4 DEF Extended, g
  <1> HIDE DEF u, v
  <1>9. /\ u \o v \in Seq(Seq(Text)) /\ Len(u \o v) = z + n /\ DOMAIN (u \o v) = 1..(z + n)
        /\ \A k \in 1..(z + 1) : (u \o v)[k] = u[k]
        /\ \A j \in 1..(n - 1) : (u \o v)[z + 1 + j] = v[j]
    <2> DEFINE p == Len(u)  q == Len(v)
    <2>u. u \in Seq(Seq(Text)) /\ v \in Seq(Seq(Text)) /\ p \in Nat /\ q \in Nat
      BY <1>5, <1>7
    <2>1. /\ u \o v \in Seq(Seq(Text)) /\ Len(u \o v) = p + q
          /\ \A i \in 1..(p + q) : (u \o v)[i] = IF i <= p THEN u[i] ELSE v[i - p]
      BY <2>u, ConcatProperties, Zenon
    <2>2. p = z + 1 /\ q = n - 1 /\ p + q = z + n
      BY <1>1, <1>2, <1>5, <1>7
    <2>3. DOMAIN (u \o v) = 1..(p + q)
      BY <2>1
    <2> DEFINE x == u \o v
    <2> HIDE DEF p, q, x
    <2>4. \A k \in 1..p : x[k] = u[k]
      BY <2>u, <2>1 DEF x
    <2>5. \A j \in 1..q : x[p + j] = v[j]
      BY <2>u, <2>1 DEF x
    <2> QED BY <2>1, <2>2, <2>3, <2>4, <2>5 DEF x
  <1>10. g \in File /\ g.exists = f.exists /\ g.tail = rest /\ g.closed = u \o v
    BY <1>8, <1>9 DEF File
  <1> DEFINE w == u \o v
  <1> HIDE DEF w, z, g
  <1>s. z + 1 \in 1..(z + 1) /\ \A k \in 1..z : k \in 1..(z + 1)
    BY <1>1
  <1>11. \A k \in 1..z : w[k] = f.closed[k]
    BY <1>7, <1>9, <1>s, Zenon DEF w
  <1>12. w[z + 1] = Append(f.tail, c[1])
    BY <1>7, <1>9, <1>s, Zenon DEF w
  <1>13. \A j \in 2..n : w[z + j] = <<c[j]>>
    <2> SUFFICES ASSUME NEW j \in 2..n PROVE w[z + j] = <<c[j]>>
      OBVIOUS
    <2>1. j - 1 \in 1..(n - 1) /\ j \in 1..n /\ (j - 1) + 1 = j /\ z + 1 + (j - 1) = z + j
      BY <1>1, <1>2
    <2>2. w[z + 1 + (j - 1)] = v[j - 1] /\ v[j - 1] = ls[(j - 1) + 1]
      BY <1>5, <1>9, <2>1 DEF w
    <2> QED BY <1>3, <2>1, <2>2
  <1>14. HasLines(f, c, n, rest, g, z)
    BY <1>9, <1>10, <1>11, <1>12, <1>13 DEF w, HasLines
  <1> QED BY <1>14 DEF g, z, ls

\* The content of a fork, or the beginning of it, as lines.
LEMMA ContentWrites ==
  ASSUME NEW f \in File, f.exists, NEW c \in Seq(Text), NEW n \in 1..Len(c),
         NEW rest \in Seq(Text),
         \/ rest = <<>>
         \/ rest = <<Torn>>
         \/ n < Len(c) /\ rest = <<c[n + 1]>>
  PROVE  LET g == Extended(f, AsLines(c, n), rest)
         IN  Writes(f, g, c) /\ \A j \in 1..n : Closed(g, c[j])
  <1> DEFINE g == Extended(f, AsLines(c, n), rest)
             z == Len(f.closed)  a == Lines(f)  b == Lines(g)  y == Len(f.tail)
             u == Append(f.tail, c[1])
  <1>1. /\ g \in File /\ g.exists = f.exists /\ g.tail = rest
        /\ DOMAIN g.closed = 1..(z + n) /\ Len(g.closed) = z + n
        /\ \A k \in 1..z : g.closed[k] = f.closed[k]
        /\ g.closed[z + 1] = u
        /\ \A j \in 2..n : g.closed[z + j] = <<c[j]>>
    <2> HIDE DEF g, z, u
    <2>1. HasLines(f, c, n, rest, g, z)
      BY ContentLines, Zenon DEF g, z
    <2> QED BY <2>1 DEF HasLines, u
  <1> HIDE DEF g
  <1>2. z \in Nat /\ DOMAIN f.closed = 1..z /\ y \in Nat /\ DOMAIN f.tail = 1..y /\ f.tail \in Seq(Text)
    BY DEF File
  <1>3. n \in Nat /\ n >= 1 /\ n <= Len(c) /\ Len(c) \in Nat /\ DOMAIN c = 1..Len(c) /\ c[1] \in Text
    OBVIOUS
  <1>4. /\ DOMAIN u = 1..(y + 1) /\ u[y + 1] = c[1] /\ \A i \in 1..y : u[i] = f.tail[i]
    BY <1>2, <1>3
  <1>5. /\ DOMAIN a = 1..(z + 1) /\ \A k \in 1..z : a[k] = f.closed[k]
        /\ a[z + 1] = f.tail
    BY LineParts
  <1> HIDE DEF u, z, y, a
  <1>6. /\ DOMAIN b = 1..(z + n + 1) /\ \A k \in 1..(z + n) : b[k] = g.closed[k]
        /\ b[z + n + 1] = rest
    <2>1. /\ DOMAIN b = 1..(Len(g.closed) + 1) /\ \A k \in 1..Len(g.closed) : b[k] = g.closed[k]
          /\ b[Len(g.closed) + 1] = g.tail
      BY <1>1, LineParts
    <2> HIDE DEF b
    <2> QED BY <1>1, <2>1
  <1> HIDE DEF b
  <1>s. /\ z + 1 \in 1..(z + n) /\ 1..z \subseteq 1..(z + n)
        /\ \A j \in 2..n : z + j \in 1..(z + n)
    BY <1>2, <1>3
  <1>7. b[z + 1] = u /\ \A k \in 1..z : b[k] = f.closed[k]
    BY <1>1, <1>6, <1>s
  <1>8. \A j \in 2..n : b[z + j] = <<c[j]>>
    BY <1>1, <1>6, <1>s
  <1>9. Grew(f, g)
    <2>1. \A k \in DOMAIN f.closed : k \in DOMAIN g.closed /\ g.closed[k] = f.closed[k]
      BY <1>1, <1>2, <1>3
    <2>2. \A i \in DOMAIN f.tail : z + 1 \in DOMAIN b /\ i \in DOMAIN b[z + 1] /\ b[z + 1][i] = f.tail[i]
      BY <1>2, <1>3, <1>4, <1>6, <1>7
    <2> QED BY <2>1, <2>2 DEF Grew, z, b
  <1>10. Adds(f, g, c)
    <2> SUFFICES ASSUME NEW k \in DOMAIN b, NEW i \in DOMAIN b[k]
                 PROVE  \/ k \in DOMAIN a /\ i \in DOMAIN a[k] /\ b[k][i] = a[k][i]
                        \/ b[k][i] = Torn
                        \/ \E j \in DOMAIN c : /\ k = z + j
                                               /\ i = IF j = 1 THEN y + 1 ELSE 1
                                               /\ b[k][i] = c[j]
      BY DEF Adds, OldPlace, NewPlace, a, b, z, y
    <2>1. CASE k \in 1..z
      BY <1>2, <1>5, <1>7, <2>1
    <2>2. CASE k = z + 1 /\ i \in 1..y
      BY <1>2, <1>4, <1>5, <1>7, <2>2
    <2>3. CASE k = z + 1 /\ i = y + 1
      <3>1. b[k][i] = c[1]
        BY <1>4, <1>7, <2>3
      <3>2. 1 \in DOMAIN c
        BY <1>3
      <3> QED BY <1>2, <2>3, <3>1, <3>2
    <2>4. CASE k \in (z + 2)..(z + n)
      <3>1. k - z \in 2..n /\ k = z + (k - z) /\ k - z \in DOMAIN c /\ k - z # 1
        BY <1>2, <1>3, <2>4
      <3>2. b[k] = <<c[k - z]>>
        BY <1>8, <3>1
      <3>3. i = 1 /\ b[k][i] = c[k - z]
        BY <3>2
      <3> QED BY <3>1, <3>3
    <2>5. CASE k = z + n + 1
      <3>1. i \in DOMAIN rest /\ b[k][i] = rest[i]
        BY <1>6, <2>5
      <3>2. i = 1 /\ (rest[1] = Torn \/ (n < Len(c) /\ rest[1] = c[n + 1]))
        <4>1. CASE rest = <<Torn>>
          BY <3>1, <4>1
        <4>2. CASE n < Len(c) /\ rest = <<c[n + 1]>>
          BY <3>1, <4>2
        <4>3. rest # <<>>
          BY <3>1
        <4> QED BY <4>1, <4>2, <4>3
      <3>3. CASE rest[1] = Torn
        BY <3>1, <3>2, <3>3
      <3>4. CASE n < Len(c) /\ rest[1] = c[n + 1]
        <4>1. n + 1 \in DOMAIN c /\ n + 1 # 1 /\ k = z + (n + 1)
          BY <1>2, <1>3, <2>5, <3>4
        <4> QED BY <3>1, <3>2, <3>4, <4>1
      <3> QED BY <3>2, <3>3, <3>4
    <2>6. k \in 1..z \/ k = z + 1 \/ k \in (z + 2)..(z + n) \/ k = z + n + 1
      <3>1. k \in 1..(z + n + 1)
        BY <1>6
      <3>2. z \in Nat /\ n \in Nat
        BY <1>2, <1>3
      <3> HIDE DEF b, g, u
      <3>3. k \in Int /\ 1 <= k /\ k <= z + n + 1
        BY <3>1, <3>2
      <3>4. CASE k <= z
        BY <3>2, <3>3, <3>4
      <3>5. CASE k > z + 1 /\ k <= z + n
        BY <3>2, <3>3, <3>5
      <3>6. CASE k > z + n
        <4>1. k = z + n + 1
          BY <3>2, <3>3, <3>6
        <4> QED BY <4>1
      <3>7. k <= z \/ k = z + 1 \/ (k > z + 1 /\ k <= z + n) \/ k > z + n
        BY <3>2, <3>3
      <3> QED BY <3>4, <3>5, <3>6, <3>7
    <2>7. k = z + 1 => i \in 1..y \/ i = y + 1
      BY <1>2, <1>4, <1>7
    <2> QED BY <2>1, <2>2, <2>3, <2>4, <2>5, <2>6, <2>7
  <1>11. ASSUME NEW j \in 1..n PROVE Closed(g, c[j])
    <2>1. z + j \in DOMAIN g.closed
      BY <1>1, <1>2, <1>3
    <2>2. CASE j = 1
      <3>1. y + 1 \in DOMAIN g.closed[z + 1] /\ g.closed[z + 1][y + 1] = c[1]
        BY <1>1, <1>2, <1>4
      <3> QED BY <2>1, <2>2, <3>1 DEF Closed
    <2>3. CASE j # 1
      <3>1. g.closed[z + j] = <<c[j]>>
        BY <1>1, <1>3, <2>3
      <3>2. 1 \in DOMAIN g.closed[z + j] /\ g.closed[z + j][1] = c[j]
        BY <3>1
      <3> QED BY <2>1, <3>2 DEF Closed
    <2> QED BY <2>2, <2>3
  <1>12. Writes(f, g, c)
    BY <1>1, <1>9, <1>10 DEF Writes
  <1> QED BY <1>11, <1>12 DEF g

LEMMA NothingWritten ==
  ASSUME NEW f \in File, f.exists, NEW c
  PROVE  Writes(f, f, c)
  <1>1. /\ DOMAIN Lines(f) = 1..(Len(f.closed) + 1) /\ Lines(f)[Len(f.closed) + 1] = f.tail
        /\ f.closed \in Seq(Seq(Text))
    BY LineParts
  <1>2. Grew(f, f)
    <2> DEFINE z == Len(f.closed)  ls == Lines(f)
    <2>1. z \in Nat
      BY <1>1
    <2> HIDE DEF z, ls
    <2>2. z + 1 \in DOMAIN ls /\ ls[z + 1] = f.tail
      BY <1>1, <2>1 DEF z, ls
    <2> QED BY <2>2 DEF Grew, z, ls
  <1>3. Adds(f, f, c)
    BY DEF Adds, OldPlace
  <1> QED BY <1>2, <1>3 DEF Writes

----------------------------------------------------------------------------
(* A step of an operation under way. *)

\* What the operation of w has still to add to its file.
ToAdd(w) == IF op[w].step \in {"text", "content"} THEN op[w].content ELSE <<>>

LEMMA OpParts ==
  ASSUME FileInv, NEW w \in Writers, op[w].step # "idle"
  PROVE  /\ op[w].session \in Sessions /\ files[op[w].session] \in File
         /\ files[op[w].session].exists
         /\ op[w].content \in Seq(Text) /\ op[w].content # <<>>
         /\ ToAdd(w) \in Seq(Text)
         /\ \A j \in DOMAIN ToAdd(w) : /\ ToAdd(w)[j] # Torn
                                       /\ Known(op[w].session, ToAdd(w)[j])
         /\ OnceIn(ToAdd(w)) /\ Apart(files[op[w].session], ToAdd(w))
  <1>1. /\ op[w].session \in Sessions /\ files[op[w].session].exists /\ op[w].content # <<>>
        /\ \A j \in DOMAIN op[w].content : /\ op[w].content[j] # Torn
                                           /\ Known(op[w].session, op[w].content[j])
    BY DEF FileInv, OpsFit
  <1>2. op[w].content \in Seq(Text) /\ files[op[w].session] \in File
    BY <1>1 DEF FileInv, TypeOK, File
  <1>3. CASE op[w].step \in {"text", "content"}
    <2>1. Pending(w, op[w].session)
      BY <1>3 DEF Pending
    <2>2. OnceIn(op[w].content) /\ Apart(files[op[w].session], op[w].content)
      BY <1>1, <2>1 DEF FileInv, OpsApart
    <2> QED BY <1>1, <1>2, <1>3, <2>2 DEF ToAdd
  <1>4. CASE op[w].step \notin {"text", "content"}
    <2>1. ToAdd(w) = <<>> /\ <<>> \in Seq(Text) /\ DOMAIN <<>> = {}
      BY <1>4 DEF ToAdd
    <2> QED BY <1>1, <1>2, <2>1 DEF OnceIn, Apart
  <1> QED BY <1>3, <1>4

\* An operation writes what it has to add to its file, all or some of it, and
\* is over or has only its newline left.
Settles(w, s, g, o) ==
  /\ op[w].step # "idle" /\ s = op[w].session
  /\ Writes(files[s], g, ToAdd(w))
  /\ files' = [files EXCEPT ![s] = g]
  /\ op' = [op EXCEPT ![w] = o]
  /\ \/ o = Idle
     \/ /\ op[w].step = "text" /\ o = [op[w] EXCEPT !.step = "newline"]
        /\ Held(g, op[w].content[1])
  /\ nextEntry' = nextEntry
  /\ acked' \in [Sessions -> SUBSET Entries]
  /\ \A t \in Sessions : \A e \in acked'[t] :
       e \in acked[t] \/ (t = s /\ Closed(g, Entry(e)))

LEMMA SettleKeeps ==
  ASSUME FileInv, NEW w \in Writers, NEW s, NEW g, NEW o, Settles(w, s, g, o)
  PROVE  FileInv'
  <1> DEFINE f == files[s]  c == ToAdd(w)
  <1>1. /\ s \in Sessions /\ f \in File /\ f.exists /\ c \in Seq(Text)
        /\ op[w].content \in Seq(Text) /\ op[w].content # <<>>
        /\ \A j \in DOMAIN c : c[j] # Torn /\ Known(s, c[j])
        /\ OnceIn(c) /\ Apart(f, c)
    BY OpParts DEF Settles
  <1>2. g \in File /\ g.exists /\ Grew(f, g) /\ Adds(f, g, c)
    BY DEF Settles, Writes
  <1>t. /\ files \in [Sessions -> File]
        /\ op \in [Writers -> [step : {"idle", "text", "newline", "content"},
                               session : Sessions \cup {NoSession}, content : Seq(Text)]]
        /\ nextEntry \in 1..(MaxEntries + 1) /\ acked \in [Sessions -> SUBSET Entries]
    BY DEF FileInv, TypeOK, File
  <1>3. files'[s] = g /\ \A t \in Sessions : t # s => files'[t] = files[t]
    BY <1>1, <1>t DEF Settles
  <1>4. op'[w] = o /\ \A v \in Writers : v # w => op'[v] = op[v]
    BY <1>t DEF Settles
  <1>5. o.step \in {"idle", "newline"}
        /\ o \in [step : {"idle", "text", "newline", "content"},
                  session : Sessions \cup {NoSession}, content : Seq(Text)]
    <2>1. CASE o = Idle
      <3>1. <<>> \in Seq(Text)
        OBVIOUS
      <3> QED BY <2>1, <3>1 DEF Idle
    <2>2. CASE o = [op[w] EXCEPT !.step = "newline"]
      <3>1. op[w] \in [step : {"idle", "text", "newline", "content"},
                       session : Sessions \cup {NoSession}, content : Seq(Text)]
        BY <1>t
      <3> QED BY <2>2, <3>1
    <2> QED BY <2>1, <2>2 DEF Settles
  <1>6. \A t : (Held(f, t) => Held(g, t)) /\ (Closed(f, t) => Closed(g, t))
    BY <1>1, <1>2, WritesKeep
  <1>7. \A t : Held(g, t) => Held(f, t) \/ t = Torn \/ \E j \in DOMAIN c : c[j] = t
    BY <1>1, <1>2, WritesTexts
  <1>8. Once(g)
    <2>1. Once(f)
      BY <1>1 DEF FileInv, FilesOnce
    <2> HIDE DEF f, c
    <2> QED BY <1>1, <1>2, <2>1, WritesOnce
  <1>n. nextEntry' = nextEntry
    BY DEF Settles
  <1> HIDE DEF c
  <1>9. TypeOK'
    <2>1. files' \in [Sessions -> File]
      BY <1>1, <1>2, <1>t DEF Settles
    <2>2. op' \in [Writers -> [step : {"idle", "text", "newline", "content"},
                               session : Sessions \cup {NoSession}, content : Seq(Text)]]
      BY <1>5, <1>t DEF Settles
    <2>3. acked' \in [Sessions -> SUBSET Entries]
      BY DEF Settles
    <2> QED BY <1>t, <1>n, <2>1, <2>2, <2>3 DEF TypeOK, File
  <1>10. OpsFit'
    <2> SUFFICES ASSUME NEW v \in Writers
                 PROVE  /\ op'[v].step = "idle" => op'[v] = Idle
                        /\ op'[v].step # "idle" => /\ op'[v].session \in Sessions
                                                   /\ files'[op'[v].session].exists
                                                   /\ op'[v].content # <<>>
                        /\ op'[v].step \in {"text", "newline"} => Len(op'[v].content) = 1
                        /\ \A j \in DOMAIN op'[v].content :
                             op'[v].content[j] # Torn /\ Known(op'[v].session, op'[v].content[j])
      BY <1>n DEF OpsFit, Known
    <2>1. /\ op[v].step = "idle" => op[v] = Idle
          /\ op[v].step # "idle" => /\ op[v].session \in Sessions
                                    /\ files[op[v].session].exists
                                    /\ op[v].content # <<>>
          /\ op[v].step \in {"text", "newline"} => Len(op[v].content) = 1
          /\ \A j \in DOMAIN op[v].content :
               op[v].content[j] # Torn /\ Known(op[v].session, op[v].content[j])
      BY DEF FileInv, OpsFit
    <2>2. CASE v # w
      <3>1. op[v].step # "idle" => files'[op[v].session].exists
        BY <1>2, <1>3, <2>1
      <3> QED BY <1>4, <2>1, <2>2, <3>1
    <2>3. CASE v = w /\ o = Idle
      <3>1. op'[v] = Idle /\ Idle.step = "idle" /\ Idle.content = <<>> /\ DOMAIN <<>> = {}
        BY <1>4, <2>3 DEF Idle
      <3> QED BY <3>1
    <2>4. CASE v = w /\ op[w].step = "text" /\ o = [op[w] EXCEPT !.step = "newline"]
      <3>1. op'[v].step = "newline" /\ op'[v].session = op[w].session
            /\ op'[v].content = op[w].content
        BY <1>4, <1>t, <2>4
      <3>2. op[w].session = s
        BY DEF Settles
      <3> QED BY <1>1, <1>2, <1>3, <2>1, <2>4, <3>1, <3>2
    <2> QED BY <2>2, <2>3, <2>4 DEF Settles
  <1>11. FilesFit'
    <2> SUFFICES ASSUME NEW t \in Sessions
                 PROVE  /\ ~files'[t].exists => files'[t] = NoFile
                        /\ \A x \in Text : Held(files'[t], x) => Known(t, x)
      BY <1>n DEF FilesFit, Known
    <2>1. /\ ~files[t].exists => files[t] = NoFile
          /\ \A x \in Text : Held(files[t], x) => Known(t, x)
      BY DEF FileInv, FilesFit
    <2>2. CASE t # s
      BY <1>3, <2>1, <2>2
    <2>3. CASE t = s
      <3>1. ASSUME NEW x \in Text, Held(g, x) PROVE Known(s, x)
        <4>1. CASE x = Torn
          BY <4>1 DEF Known, Torn
        <4>2. CASE Held(f, x)
          BY <2>1, <2>3, <4>2
        <4>3. CASE \E j \in DOMAIN c : c[j] = x
          BY <1>1, <4>3 DEF c
        <4> QED BY <1>7, <3>1, <4>1, <4>2, <4>3
      <3> QED BY <1>2, <1>3, <2>3, <3>1
    <2> QED BY <2>2, <2>3
  <1>12. FilesOnce'
    <2> SUFFICES ASSUME NEW t \in Sessions PROVE Once(files'[t])
      BY DEF FilesOnce
    <2>1. Once(files[t])
      BY DEF FileInv, FilesOnce
    <2> QED BY <1>3, <1>8, <2>1
  <1>13. OpsApart'
    <2>1. ASSUME NEW v \in Writers, NEW t, Pending(v, t)'
          PROVE  v # w /\ op'[v] = op[v] /\ Pending(v, t)
      BY <1>4, <1>5, <2>1 DEF Pending
    <2> SUFFICES ASSUME NEW v \in Writers, NEW t \in Sessions, Pending(v, t)'
                 PROVE  /\ OnceIn(op[v].content)
                        /\ Apart(files'[t], op[v].content)
                        /\ \A u \in Writers : u # v /\ Pending(u, t)' =>
                             ApartIn(op[v].content, op'[u].content)
      BY <2>1 DEF OpsApart
    <2>2. v # w /\ Pending(v, t)
      BY <2>1
    <2>3. /\ OnceIn(op[v].content) /\ Apart(files[t], op[v].content)
          /\ \A u \in Writers : u # v /\ Pending(u, t) =>
               ApartIn(op[v].content, op[u].content)
      BY <2>2 DEF FileInv, OpsApart
    <2>4. CASE t # s
      BY <1>3, <2>1, <2>3, <2>4
    <2>5. CASE t = s
      <3>1. ASSUME NEW x \in Text, Held(g, x), NEW j \in DOMAIN op[v].content
            PROVE  ~Same(x, op[v].content[j])
        <4>1. CASE x = Torn
          BY <4>1 DEF Same, Torn
        <4>2. CASE Held(f, x)
          BY <2>3, <2>5, <4>2 DEF Apart
        <4>3. CASE \E i \in DOMAIN c : c[i] = x
          <5>1. PICK i \in DOMAIN c : c[i] = x
            BY <4>3
          <5>2. DOMAIN <<>> = {}
            OBVIOUS
          <5>3. op[w].step \in {"text", "content"} /\ c = op[w].content
            BY <5>1, <5>2 DEF c, ToAdd
          <5>4. Pending(w, s)
            BY <5>3 DEF Pending, Settles
          <5>5. ApartIn(op[v].content, op[w].content)
            BY <2>2, <2>3, <2>5, <5>4
          <5>6. ~Same(op[v].content[j], op[w].content[i])
            BY <5>1, <5>3, <5>5 DEF ApartIn
          <5> QED BY <5>1, <5>3, <5>6 DEF Same
        <4> QED BY <1>7, <3>1, <4>1, <4>2, <4>3
      <3>2. Apart(files'[t], op[v].content)
        BY <1>3, <2>5, <3>1 DEF Apart
      <3> QED BY <2>1, <2>3, <3>2
    <2> QED BY <2>4, <2>5
  <1>14. Kept'
    <2>1. ASSUME NEW v \in Writers, op'[v].step = "newline"
          PROVE  Held(files'[op'[v].session], op'[v].content[1])
      <3>1. CASE v # w
        <4>1. op'[v] = op[v]
          BY <1>4, <3>1
        <4>2. op[v].session \in Sessions /\ Held(files[op[v].session], op[v].content[1])
          BY <2>1, <4>1 DEF FileInv, Kept, OpsFit
        <4> QED BY <1>3, <1>6, <4>1, <4>2
      <3>2. CASE v = w
        <4>1. o # Idle
          BY <1>4, <2>1, <3>2 DEF Idle
        <4>2. o = [op[w] EXCEPT !.step = "newline"] /\ Held(g, op[w].content[1]) /\ s = op[w].session
          BY <4>1 DEF Settles
        <4>3. o.session = s /\ o.content = op[w].content
          BY <1>t, <4>2
        <4> QED BY <1>3, <1>4, <3>2, <4>2, <4>3
      <3> QED BY <3>1, <3>2
    <2>2. ASSUME NEW t \in Sessions, NEW e \in acked'[t] PROVE Closed(files'[t], Entry(e))
      <3>1. e \in acked[t] \/ (t = s /\ Closed(g, Entry(e)))
        BY <2>2 DEF Settles
      <3>2. e \in acked[t] => Closed(files[t], Entry(e))
        BY DEF FileInv, Kept
      <3> QED BY <1>3, <1>6, <3>1, <3>2
    <2>3. \A t : Entry(t)' = Entry(t)
      BY DEF Entry
    <2> QED BY <2>1, <2>2, <2>3 DEF Kept
  <1> QED BY <1>9, <1>10, <1>11, <1>12, <1>13, <1>14, Zenon DEF FileInv

\* An interrupted fork has written the beginning of its content.
LEMMA PartWrites ==
  ASSUME NEW f \in File, f.exists, NEW c \in Seq(Text), c # <<>>, NEW n \in 0..(Len(c) - 1),
         NEW rest \in {<<>>, <<Torn>>, <<c[n + 1]>>}
  PROVE  Writes(f, Extended(f, AsLines(c, n), rest), c)
  <1>1. /\ Len(c) \in Nat \ {0} /\ n \in Nat /\ n < Len(c)
        /\ Torn \in Text /\ c[n + 1] \in Text
    BY DEF Text
  <1>2. <<>> \in Seq(Text) /\ <<Torn>> \in Seq(Text) /\ <<c[n + 1]>> \in Seq(Text)
    BY <1>1
  <1>3. CASE n # 0
    <2>1. n \in 1..Len(c)
      BY <1>1, <1>3
    <2>r. rest \in Seq(Text)
      BY <1>2, Zenon
    <2>2. rest = <<>> \/ rest = <<Torn>> \/ (n < Len(c) /\ rest = <<c[n + 1]>>)
      BY <1>1
    <2> QED BY <2>1, <2>r, <2>2, ContentWrites
  <1>4. CASE n = 0
    <2>1. AsLines(c, n) = <<>>
      BY <1>4 DEF AsLines
    <2>2. Extended(f, AsLines(c, n), rest) = [f EXCEPT !.tail = @ \o rest]
      BY <2>1 DEF Extended
    <2>3. f.tail \in Seq(Text) /\ f \in [exists : BOOLEAN, closed : Seq(Seq(Text)), tail : Seq(Text)]
      BY DEF File
    <2>4. CASE rest = <<>>
      <3>1. f.tail \o rest = f.tail
        BY <2>3, <2>4
      <3>2. [f EXCEPT !.tail = @ \o rest] = f
        BY <2>3, <3>1
      <3> QED BY <2>2, <3>2, NothingWritten
    <2>5. ASSUME NEW x \in {c[1], Torn}, rest = <<x>>
          PROVE  Writes(f, Extended(f, AsLines(c, n), rest), c)
      <3>1. x \in Text
        BY <1>1, <1>4
      <3>2. f.tail \o rest = Append(f.tail, x)
        BY <2>3, <2>5, <3>1, SMTT(30)
      <3>3. [f EXCEPT !.tail = @ \o rest] = [f EXCEPT !.tail = Append(@, x)]
        BY <3>2
      <3>4. Writes(f, [f EXCEPT !.tail = Append(@, x)], c)
        BY TailWrites
      <3> QED BY <2>2, <3>3, <3>4
    <2> QED BY <1>4, <2>4, <2>5
  <1> QED BY <1>3, <1>4

LEMMA WriteTextKeeps ==
  ASSUME FileInv, NEW w \in Writers, WriteText(w)
  PROVE  FileInv'
  <1> DEFINE s == op[w].session  f == files[s]  c == op[w].content
             g == [f EXCEPT !.tail = Append(@, c[1])]
             o == [op[w] EXCEPT !.step = "newline"]
  <1>1. op[w].step = "text"
    BY DEF WriteText
  <1>2. s \in Sessions /\ f \in File /\ f.exists /\ c \in Seq(Text) /\ c # <<>> /\ ToAdd(w) = c
    BY <1>1, OpParts DEF ToAdd
  <1>3. Len(c) = 1
    BY <1>1 DEF FileInv, OpsFit
  <1>4. Writes(f, g, c) /\ Held(g, c[1])
    <2> HIDE DEF f, c
    <2> QED BY <1>2, TailWrites
  <1>5. files' = [files EXCEPT ![s] = g]
    <2> HIDE DEF c
    <2>1. f.tail \in Seq(Text)
      BY <1>2 DEF File
    <2>2. c = <<c[1]>> /\ c[1] \in Text
      BY <1>2, <1>3
    <2>3. f.tail \o c = Append(f.tail, c[1])
      <3> DEFINE t == f.tail  x == c[1]
      <3> HIDE DEF f, c, t, x
      <3>1. t \o <<x>> = Append(t, x)
        BY <2>1, <2>2 DEF t, x
      <3> QED BY <2>2, <3>1 DEF t, x
    <2>4. files' = [files EXCEPT ![s] = [f EXCEPT !.tail = @ \o c]]
      BY DEF WriteText, c
    <2> QED BY <2>3, <2>4
  <1>6. op' = [op EXCEPT ![w] = o]
    BY DEF WriteText
  <1>7. acked' \in [Sessions -> SUBSET Entries] /\ acked' = acked /\ nextEntry' = nextEntry
    BY DEF WriteText, FileInv, TypeOK
  <1> HIDE DEF g
  <1>8. Settles(w, s, g, o)
    BY <1>1, <1>2, <1>4, <1>5, <1>6, <1>7 DEF Settles
  <1> QED BY <1>8, SettleKeeps

\* What an operation acknowledges is one of the entries it wrote.
LEMMA AckParts ==
  ASSUME FileInv, NEW w \in Writers, op[w].step # "idle", Ack(w)
  PROVE  /\ op' = [op EXCEPT ![w] = Idle]
         /\ acked' \in [Sessions -> SUBSET Entries]
         /\ \A t \in Sessions : \A e \in acked'[t] :
              \/ e \in acked[t]
              \/ t = op[w].session /\ \E j \in DOMAIN op[w].content : op[w].content[j] = Entry(e)
  <1> DEFINE s == op[w].session  c == op[w].content
  <1>1. s \in Sessions /\ c \in Seq(Text)
    BY OpParts
  <1>2. acked \in [Sessions -> SUBSET Entries]
    BY DEF FileInv, TypeOK
  <1>3. acked' = [acked EXCEPT ![s] = @ \cup EntryIds(c)]
    BY DEF Ack
  <1> HIDE DEF c
  <1>4. ASSUME NEW e \in EntryIds(c)
        PROVE  e \in Entries /\ \E j \in DOMAIN c : c[j] = Entry(e)
    <2>1. PICK j \in DOMAIN c : c[j].kind = "entry" /\ e = c[j].id
      BY DEF EntryIds
    <2>2. c[j] \in Text
      BY <1>1
    <2>3. c[j] \in [kind : {"entry"}, id : Entries]
      BY <2>1, <2>2 DEF Text, Torn
    <2>4. e \in Entries /\ c[j] = Entry(e)
      BY <2>1, <2>3 DEF Entry
    <2> QED BY <2>4
  <1>5. EntryIds(c) \in SUBSET Entries
    BY <1>4
  <1>6. acked' \in [Sessions -> SUBSET Entries]
    BY <1>1, <1>2, <1>3, <1>5
  <1>7. ASSUME NEW t \in Sessions, NEW e \in acked'[t]
        PROVE  e \in acked[t] \/ (t = s /\ e \in EntryIds(c))
    BY <1>1, <1>2, <1>3, <1>7
  <1> QED BY <1>4, <1>6, <1>7 DEF Ack, c

LEMMA WriteNewlineKeeps ==
  ASSUME FileInv, NEW w \in Writers, WriteNewline(w)
  PROVE  FileInv'
  <1> DEFINE s == op[w].session  f == files[s]  c == op[w].content
             g == [f EXCEPT !.closed = Append(f.closed, f.tail), !.tail = <<>>]
  <1>1. op[w].step = "newline"
    BY DEF WriteNewline
  <1>2. s \in Sessions /\ f \in File /\ f.exists /\ c \in Seq(Text) /\ c # <<>>
    BY <1>1, OpParts
  <1>3. Len(c) = 1 /\ Held(f, c[1])
    BY <1>1 DEF FileInv, OpsFit, Kept
  <1>4. Writes(f, g, ToAdd(w)) /\ \A t : Held(f, t) => Closed(g, t)
    <2> DEFINE a == ToAdd(w)
    <2> HIDE DEF f, a
    <2>1. f \in File /\ f.exists
      BY <1>2
    <2>2. Writes(f, g, a)
      BY <2>1, NewlineWrites
    <2>3. \A t : Held(f, t) => Closed(g, t)
      BY <2>1, NewlineWrites
    <2> QED BY <2>2, <2>3, Zenon DEF a
  <1>5. files' = [files EXCEPT ![s] = g]
    BY DEF WriteNewline
  <1>6. Ack(w) /\ nextEntry' = nextEntry
    BY DEF WriteNewline
  <1>7. /\ op' = [op EXCEPT ![w] = Idle]
        /\ acked' \in [Sessions -> SUBSET Entries]
        /\ \A t \in Sessions : \A e \in acked'[t] :
             e \in acked[t] \/ (t = s /\ \E j \in DOMAIN c : c[j] = Entry(e))
    BY <1>1, <1>6, AckParts
  <1> HIDE DEF g, f
  <1>8. ASSUME NEW t \in Sessions, NEW e \in acked'[t]
        PROVE  e \in acked[t] \/ (t = s /\ Closed(g, Entry(e)))
    <2>1. CASE e \in acked[t]
      BY <2>1
    <2>2. CASE t = s /\ \E j \in DOMAIN c : c[j] = Entry(e)
      <3>1. PICK j \in DOMAIN c : c[j] = Entry(e)
        BY <2>2
      <3>2. j = 1
        BY <1>2, <1>3
      <3> QED BY <1>3, <1>4, <2>2, <3>1, <3>2
    <2> QED BY <1>7, <2>1, <2>2
  <1>9. Settles(w, s, g, Idle)
    BY <1>1, <1>4, <1>5, <1>6, <1>7, <1>8 DEF Settles, f
  <1> QED BY <1>9, SettleKeeps

LEMMA WriteContentKeeps ==
  ASSUME FileInv, NEW w \in Writers, WriteContent(w)
  PROVE  FileInv'
  <1> DEFINE s == op[w].session  f == files[s]  c == op[w].content
             g == Extended(f, AsLines(c, Len(c)), <<>>)
  <1>1. op[w].step = "content"
    BY DEF WriteContent
  <1>2. s \in Sessions /\ f \in File /\ f.exists /\ c \in Seq(Text) /\ c # <<>> /\ ToAdd(w) = c
    BY <1>1, OpParts DEF ToAdd
  <1>3. <<>> \in Seq(Text) /\ Len(c) \in 1..Len(c)
    BY <1>2
  <1>4. Writes(f, g, c) /\ \A j \in 1..Len(c) : Closed(g, c[j])
    <2> HIDE DEF f, c
    <2> QED BY <1>2, <1>3, ContentWrites
  <1>5. files' = [files EXCEPT ![s] = g]
    BY DEF WriteContent
  <1>6. Ack(w) /\ nextEntry' = nextEntry
    BY DEF WriteContent
  <1>7. /\ op' = [op EXCEPT ![w] = Idle]
        /\ acked' \in [Sessions -> SUBSET Entries]
        /\ \A t \in Sessions : \A e \in acked'[t] :
             e \in acked[t] \/ (t = s /\ \E j \in DOMAIN c : c[j] = Entry(e))
    BY <1>1, <1>6, AckParts
  <1>8. DOMAIN c = 1..Len(c)
    BY <1>2
  <1> HIDE DEF g, f
  <1>9. ASSUME NEW t \in Sessions, NEW e \in acked'[t]
        PROVE  e \in acked[t] \/ (t = s /\ Closed(g, Entry(e)))
    BY <1>4, <1>7, <1>8, <1>9
  <1>10. Settles(w, s, g, Idle)
    BY <1>1, <1>2, <1>4, <1>5, <1>6, <1>7, <1>9 DEF Settles, f
  <1> QED BY <1>10, SettleKeeps

LEMMA InterruptKeeps ==
  ASSUME FileInv, NEW w \in Writers, Interrupt(w)
  PROVE  FileInv'
  <1> DEFINE s == op[w].session  f == files[s]  c == op[w].content
  <1>1. op[w].step # "idle"
    BY DEF Interrupt, FileInv, OpsFit
  <1>2. s \in Sessions /\ f \in File /\ f.exists /\ c \in Seq(Text) /\ c # <<>>
    BY <1>1, OpParts
  <1>3. /\ op' = [op EXCEPT ![w] = Idle] /\ nextEntry' = nextEntry /\ acked' = acked
        /\ acked' \in [Sessions -> SUBSET Entries]
    BY DEF Interrupt, FileInv, TypeOK
  <1>4. ASSUME NEW g, files' = [files EXCEPT ![s] = g], Writes(f, g, ToAdd(w))
        PROVE  FileInv'
    <2>1. Settles(w, s, g, Idle)
      BY <1>1, <1>3, <1>4 DEF Settles
    <2> QED BY <2>1, SettleKeeps
  <1>5. CASE UNCHANGED files
    <2>1. files' = [files EXCEPT ![s] = f]
      BY <1>5 DEF FileInv, TypeOK
    <2>2. Writes(f, f, ToAdd(w))
      BY <1>2, NothingWritten
    <2> QED BY <1>4, <2>1, <2>2
  <1>6. CASE op[w].step = "text" /\ files' = [files EXCEPT ![s].tail = Append(@, Torn)]
    <2> DEFINE g == [f EXCEPT !.tail = Append(@, Torn)]
    <2>1. ToAdd(w) = c
      BY <1>6 DEF ToAdd
    <2>2. files' = [files EXCEPT ![s] = g]
      BY <1>6
    <2>3. Writes(f, g, c)
      <3> HIDE DEF f, c
      <3> QED BY <1>2, TailWrites
    <2> QED BY <1>4, <2>1, <2>2, <2>3
  <1>7. ASSUME op[w].step = "content", NEW n \in 0..(Len(c) - 1),
               NEW rest \in {<<>>, <<Torn>>, <<c[n + 1]>>},
               files' = [files EXCEPT ![s] = Extended(@, AsLines(c, n), rest)]
        PROVE  FileInv'
    <2> DEFINE g == Extended(f, AsLines(c, n), rest)
    <2>1. ToAdd(w) = c
      BY <1>7 DEF ToAdd
    <2>2. files' = [files EXCEPT ![s] = g]
      BY <1>7
    <2>3. Writes(f, g, c)
      <3> HIDE DEF f, c
      <3> QED BY <1>2, PartWrites
    <2> QED BY <1>4, <2>1, <2>2, <2>3
  <1>8. CASE /\ op[w].step = "content"
             /\ \E n \in 0..(Len(c) - 1), rest \in {<<>>, <<Torn>>} :
                  \/ files' = [files EXCEPT ![s] = Extended(@, AsLines(c, n), rest)]
                  \/ files' = [files EXCEPT ![s] = Extended(@, AsLines(c, n), <<c[n + 1]>>)]
    <2>1. PICK n \in 0..(Len(c) - 1), rest \in {<<>>, <<Torn>>} :
            \/ files' = [files EXCEPT ![s] = Extended(@, AsLines(c, n), rest)]
            \/ files' = [files EXCEPT ![s] = Extended(@, AsLines(c, n), <<c[n + 1]>>)]
      BY <1>8
    <2> HIDE DEF c
    <2>2. CASE files' = [files EXCEPT ![s] = Extended(@, AsLines(c, n), rest)]
      BY <1>7, <1>8, <2>2
    <2>3. CASE files' = [files EXCEPT ![s] = Extended(@, AsLines(c, n), <<c[n + 1]>>)]
      BY <1>7, <1>8, <2>3
    <2> QED BY <2>1, <2>2, <2>3
  <1> QED BY <1>5, <1>6, <1>8 DEF Interrupt

----------------------------------------------------------------------------
(* The beginning of an operation. *)

\* A file that has only been opened, or is not there, holds nothing.
LEMMA NothingHeld ==
  ASSUME NEW f \in {NoFile, EmptyFile}
  PROVE  /\ f \in File /\ f.closed = <<>> /\ f.tail = <<>> /\ Once(f)
         /\ \A t : ~Held(f, t) /\ ~Closed(f, t)
  <1>1. f.closed = <<>> /\ f.tail = <<>> /\ f.exists \in BOOLEAN /\ f \in File
    <2>1. <<>> \in Seq(Text) /\ <<>> \in Seq(Seq(Text))
      OBVIOUS
    <2>2. NoFile \in File /\ NoFile.closed = <<>> /\ NoFile.tail = <<>>
      BY <2>1 DEF File, NoFile
    <2>3. EmptyFile \in File /\ EmptyFile.closed = <<>> /\ EmptyFile.tail = <<>>
      BY <2>2 DEF File, EmptyFile
    <2>4. f \in File /\ f.closed = <<>> /\ f.tail = <<>>
      BY <2>2, <2>3
    <2> QED BY <2>4 DEF File
  <1>2. DOMAIN <<>> = {} /\ Len(<<>>) = 0
    OBVIOUS
  <1>3. \A k \in DOMAIN Lines(f) : DOMAIN Lines(f)[k] = {}
    <2>1. DOMAIN Lines(f) = 1..(0 + 1) /\ Lines(f)[0 + 1] = <<>>
      BY <1>1, <1>2, LineParts
    <2> DEFINE ls == Lines(f)
    <2> HIDE DEF ls
    <2>2. \A k \in DOMAIN ls : k = 1
      BY <2>1 DEF ls
    <2> QED BY <1>2, <2>1, <2>2 DEF ls
  <1> QED BY <1>1, <1>2, <1>3 DEF Once, Held, Closed

\* An operation begins on a file that is there, or on one it opens.
Begins(w, s, o) ==
  /\ op[w] = Idle /\ s \in Sessions
  /\ o \in [step : {"text", "content"}, session : {s}, content : Seq(Text)]
  /\ o.content # <<>> /\ (o.step = "text" => Len(o.content) = 1)
  /\ op' = [op EXCEPT ![w] = o]
  /\ acked' = acked /\ nextEntry' \in nextEntry..(MaxEntries + 1)
  /\ OnceIn(o.content)
  /\ \A j \in DOMAIN o.content :
       /\ o.content[j] # Torn
       /\ o.content[j].kind = "session" => o.content[j].id = s
       /\ o.content[j].kind = "entry" => o.content[j].id < nextEntry'
  /\ \/ /\ files[s].exists /\ files' = files
        /\ Apart(files[s], o.content)
        /\ \A v \in Writers : v # w /\ Pending(v, s) => ApartIn(o.content, op[v].content)
     \/ /\ ~files[s].exists /\ files' = [files EXCEPT ![s] = EmptyFile]

LEMMA BeginKeeps ==
  ASSUME FileInv, NEW w \in Writers, NEW s, NEW o, Begins(w, s, o)
  PROVE  FileInv'
  <1>t. /\ files \in [Sessions -> File]
        /\ op \in [Writers -> [step : {"idle", "text", "newline", "content"},
                               session : Sessions \cup {NoSession}, content : Seq(Text)]]
        /\ nextEntry \in 1..(MaxEntries + 1) /\ acked \in [Sessions -> SUBSET Entries]
    BY DEF FileInv, TypeOK, File
  <1>1. /\ s \in Sessions /\ o.session = s /\ o.step \in {"text", "content"}
        /\ o.content \in Seq(Text) /\ o.content # <<>>
        /\ (o.step = "text" => Len(o.content) = 1) /\ OnceIn(o.content)
    BY DEF Begins
  <1>2. op'[w] = o /\ \A v \in Writers : v # w => op'[v] = op[v]
    BY <1>t DEF Begins
  <1>3. nextEntry' \in Nat /\ nextEntry \in Nat /\ nextEntry <= nextEntry' /\ nextEntry' \in 1..(MaxEntries + 1)
    BY <1>t, StoreAssumption DEF Begins
  <1>4. \A t \in Sessions : files'[t] = files[t] \/ (t = s /\ files'[t] = EmptyFile /\ files[t] = NoFile)
    <2>1. files' = files \/ (files' = [files EXCEPT ![s] = EmptyFile] /\ ~files[s].exists)
      BY DEF Begins
    <2>2. ~files[s].exists => files[s] = NoFile
      BY <1>1 DEF FileInv, FilesFit
    <2>3. CASE files' = files
      BY <2>3
    <2>4. CASE files' = [files EXCEPT ![s] = EmptyFile] /\ ~files[s].exists
      <3> DEFINE e == EmptyFile
      <3> HIDE DEF e
      <3>1. files'[s] = e /\ \A t \in Sessions : t # s => files'[t] = files[t]
        BY <1>t, <1>1, <2>4 DEF e
      <3> QED BY <2>2, <2>4, <3>1 DEF e
    <2> QED BY <2>1, <2>3, <2>4
  <1>5. files'[s].exists
    <2>1. CASE files[s].exists /\ files' = files
      BY <2>1
    <2>2. CASE files' = [files EXCEPT ![s] = EmptyFile]
      <3>1. files'[s] = EmptyFile
        BY <1>t, <1>1, <2>2
      <3>2. EmptyFile.exists
        BY DEF EmptyFile, NoFile
      <3> QED BY <3>1, <3>2
    <2> QED BY <2>1, <2>2 DEF Begins
  <1>6. EmptyFile \in File /\ Once(EmptyFile) /\ (\A t : ~Held(EmptyFile, t) /\ ~Closed(NoFile, t))
        /\ NoFile.exists = FALSE
    BY NothingHeld DEF NoFile
  <1>7. \A t \in Sessions : files[t].exists => files'[t] = files[t]
    BY <1>4, <1>6
  <1>8. \A t, x : Known(t, x) => /\ x.kind = "session" => x.id = t
                                 /\ x.kind = "entry" => x.id < nextEntry
    BY DEF Known
  <1>9. TypeOK'
    <2>1. files' \in [Sessions -> File]
      BY <1>t, <1>6 DEF Begins
    <2>2. op' \in [Writers -> [step : {"idle", "text", "newline", "content"},
                               session : Sessions \cup {NoSession}, content : Seq(Text)]]
      BY <1>t DEF Begins
    <2>3. acked' \in [Sessions -> SUBSET Entries]
      BY <1>t DEF Begins
    <2> QED BY <1>3, <2>1, <2>2, <2>3 DEF TypeOK, File
  <1>10. OpsFit'
    <2> SUFFICES ASSUME NEW v \in Writers
                 PROVE  /\ op'[v].step = "idle" => op'[v] = Idle
                        /\ op'[v].step # "idle" => /\ op'[v].session \in Sessions
                                                   /\ files'[op'[v].session].exists
                                                   /\ op'[v].content # <<>>
                        /\ op'[v].step \in {"text", "newline"} => Len(op'[v].content) = 1
                        /\ \A j \in DOMAIN op'[v].content :
                             /\ op'[v].content[j] # Torn
                             /\ op'[v].content[j].kind = "session" => op'[v].content[j].id = op'[v].session
                             /\ op'[v].content[j].kind = "entry" => op'[v].content[j].id < nextEntry'
      BY DEF OpsFit, Known, Idle, Torn
    <2>1. CASE v = w
      <3>1. \A j \in DOMAIN o.content :
              /\ o.content[j] # Torn
              /\ o.content[j].kind = "session" => o.content[j].id = s
              /\ o.content[j].kind = "entry" => o.content[j].id < nextEntry'
        BY DEF Begins
      <3> QED BY <1>1, <1>2, <1>5, <2>1, <3>1
    <2>2. CASE v # w
      <3>1. /\ op[v].step = "idle" => op[v] = Idle
            /\ op[v].step # "idle" => /\ op[v].session \in Sessions
                                      /\ files[op[v].session].exists
                                      /\ op[v].content # <<>>
            /\ op[v].step \in {"text", "newline"} => Len(op[v].content) = 1
        BY DEF FileInv, OpsFit
      <3>2. \A j \in DOMAIN op[v].content :
              /\ op[v].content[j] # Torn
              /\ op[v].content[j].kind = "session" => op[v].content[j].id = op[v].session
              /\ op[v].content[j].kind = "entry" => op[v].content[j].id < nextEntry
        BY <1>8 DEF FileInv, OpsFit
      <3>3. op[v].content \in Seq(Text)
        BY <1>t
      <3>4. \A j \in DOMAIN op[v].content : op[v].content[j].kind = "entry" => op[v].content[j].id \in Nat
        <4>1. \A x \in Text : x.kind = "entry" => x.id \in Nat
          BY StoreAssumption DEF Text, Torn, Entries
        <4> QED BY <3>3, <4>1
      <3>5. \A j \in DOMAIN op[v].content :
              op[v].content[j].kind = "entry" => op[v].content[j].id < nextEntry'
        BY <1>3, <3>2, <3>4
      <3> QED BY <1>2, <1>7, <2>2, <3>1, <3>2, <3>5
    <2> QED BY <2>1, <2>2
  <1>11. FilesFit'
    <2> SUFFICES ASSUME NEW t \in Sessions
                 PROVE  /\ ~files'[t].exists => files'[t] = NoFile
                        /\ \A x \in Text : Held(files'[t], x) =>
                             /\ x.kind = "session" => x.id = t
                             /\ x.kind = "entry" => x.id < nextEntry'
      BY DEF FilesFit, Known
    <2>1. /\ ~files[t].exists => files[t] = NoFile
          /\ \A x \in Text : Held(files[t], x) =>
               /\ x.kind = "session" => x.id = t
               /\ x.kind = "entry" => x.id < nextEntry
      BY <1>8 DEF FileInv, FilesFit
    <2>2. \A x \in Text : x.kind = "entry" => x.id \in Nat
      BY StoreAssumption DEF Text, Torn, Entries
    <2>3. \A x \in Text : x.kind = "entry" /\ x.id < nextEntry => x.id < nextEntry'
      BY <1>3, <2>2
    <2> QED BY <1>4, <1>5, <1>6, <2>1, <2>3
  <1>12. FilesOnce'
    BY <1>4, <1>6 DEF FileInv, FilesOnce
  <1>13. OpsApart'
    <2>1. \A v \in Writers : \A t : v # w => (Pending(v, t)' <=> Pending(v, t))
      BY <1>2 DEF Pending
    <2>2. \A t : Pending(w, t)' => t = s
      BY <1>1, <1>2 DEF Pending
    <2>3. \A v \in Writers : Pending(v, s) => files[s].exists
      BY DEF Pending, FileInv, OpsFit
    <2>4. \A v \in Writers : v # w /\ Pending(v, s) =>
            ApartIn(o.content, op[v].content) /\ ApartIn(op[v].content, o.content)
      <3>1. \A v \in Writers : v # w /\ Pending(v, s) => ApartIn(o.content, op[v].content)
        BY <2>3 DEF Begins
      <3>2. \A c, d : ApartIn(c, d) => ApartIn(d, c)
        BY DEF ApartIn, Same
      <3> QED BY <3>1, <3>2
    <2>5. Apart(files'[s], o.content)
      <3>1. CASE files[s].exists
        BY <3>1 DEF Begins
      <3>2. CASE ~files[s].exists
        BY <1>t, <1>1, <1>6, <3>2 DEF Begins, Apart
      <3> QED BY <3>1, <3>2
    <2> SUFFICES ASSUME NEW v \in Writers, NEW t \in Sessions, Pending(v, t)'
                 PROVE  /\ OnceIn(op'[v].content)
                        /\ Apart(files'[t], op'[v].content)
                        /\ \A u \in Writers : u # v /\ Pending(u, t)' =>
                             ApartIn(op'[v].content, op'[u].content)
      BY DEF OpsApart
    <2>6. CASE v = w
      BY <1>1, <1>2, <2>1, <2>2, <2>4, <2>5, <2>6
    <2>7. CASE v # w
      <3>1. Pending(v, t) /\ op'[v] = op[v]
        BY <1>2, <2>1, <2>7
      <3>2. /\ OnceIn(op[v].content) /\ Apart(files[t], op[v].content)
            /\ \A u \in Writers : u # v /\ Pending(u, t) => ApartIn(op[v].content, op[u].content)
        BY <3>1 DEF FileInv, OpsApart
      <3>3. Apart(files'[t], op[v].content)
        BY <1>4, <1>6, <3>2 DEF Apart
      <3>4. ASSUME NEW u \in Writers, u # v, Pending(u, t)'
            PROVE  ApartIn(op[v].content, op'[u].content)
        <4>1. CASE u = w
          BY <1>2, <2>2, <2>4, <2>7, <3>1, <3>4, <4>1
        <4>2. CASE u # w
          BY <1>2, <2>1, <3>2, <3>4, <4>2
        <4> QED BY <4>1, <4>2
      <3> QED BY <3>1, <3>2, <3>3, <3>4
    <2> QED BY <2>6, <2>7
  <1>14. Kept'
    <2>1. ASSUME NEW v \in Writers, op'[v].step = "newline"
          PROVE  Held(files'[op'[v].session], op'[v].content[1])
      <3>1. v # w
        BY <1>1, <1>2, <2>1
      <3>2. op'[v] = op[v] /\ op[v].session \in Sessions /\ files[op[v].session].exists
            /\ Held(files[op[v].session], op[v].content[1])
        BY <1>2, <2>1, <3>1 DEF FileInv, Kept, OpsFit
      <3> QED BY <1>7, <3>2
    <2>2. ASSUME NEW t \in Sessions, NEW e \in acked'[t] PROVE Closed(files'[t], Entry(e))
      <3>1. e \in acked[t]
        BY <2>2 DEF Begins
      <3>2. Closed(files[t], Entry(e))
        BY <3>1 DEF FileInv, Kept
      <3> QED BY <1>4, <1>6, <3>2
    <2>3. \A t : Entry(t)' = Entry(t)
      BY DEF Entry
    <2> QED BY <2>1, <2>2, <2>3 DEF Kept
  <1> QED BY <1>9, <1>10, <1>11, <1>12, <1>13, <1>14, Zenon DEF FileInv

\* What a fork copies of a log: some of its entries, in their order.
LEMMA CopiedParts ==
  ASSUME NEW log \in Seq(Text)
  PROVE  /\ Contract!Copied(log) \in Seq(Text)
         /\ Sub(Contract!Copied(log), log)
         /\ \A k \in DOMAIN Contract!Copied(log) : Contract!Copied(log)[k].kind # "session"
  <1> DEFINE T == {t \in {log[k] : k \in DOMAIN log} : t.kind # "session"}
             c == Keep(log, T)
  <1>1. Contract!Copied(log) = c
    BY DEF Contract!Copied, Contract!Keep, Keep
  <1>2. c \in Seq(Text) /\ Sub(c, log) /\ ToSet(c) = ToSet(log) \cap T
    BY KeepInSeq, KeepPlaces, KeepElements
  <1>3. \A t \in T : t.kind # "session"
    OBVIOUS
  <1> HIDE DEF T, c
  <1>4. \A k \in DOMAIN c : c[k] \in T
    BY <1>2 DEF ToSet
  <1> QED BY <1>1, <1>2, <1>3, <1>4

LEMMA SubOfPrefix ==
  ASSUME NEW S, NEW log \in Seq(S), NEW n \in 0..Len(log), NEW c, Sub(c, SubSeq(log, 1, n))
  PROVE  Sub(c, log)
  <1> DEFINE u == SubSeq(log, 1, n)  m == Len(log)
  <1>1. m \in Nat /\ n \in Nat /\ n <= m /\ 1..n \subseteq 1..m
    OBVIOUS
  <1>2. Len(u) = n /\ \A k \in 1..n : u[k] = log[k]
    OBVIOUS
  <1> HIDE DEF u, m
  <1>3. PICK f \in [1..Len(c) -> 1..Len(u)] :
          /\ \A i, j \in 1..Len(c) : i < j => f[i] < f[j]
          /\ \A i \in 1..Len(c) : c[i] = u[f[i]]
    BY Zenon DEF Sub, u
  <1>4. f \in [1..Len(c) -> 1..m]
    BY <1>1, <1>2
  <1>5. \A i \in 1..Len(c) : c[i] = log[f[i]]
    BY <1>2, <1>3
  <1> QED BY <1>3, <1>4, <1>5, Zenon DEF Sub, m

LEMMA EntriesParts ==
  ASSUME NEW log \in Seq(Text), NEW c \in Contract!EntriesUpTo(log)
  PROVE  /\ c \in Seq(Text) /\ Sub(c, log)
         /\ \A k \in DOMAIN c : c[k].kind # "session"
  <1>1. CASE c = Contract!Copied(log)
    BY <1>1, CopiedParts
  <1>2. CASE \E e \in Entries : Contract!Positions(log, e) # {} /\ c = Contract!Before(log, e)
    <2>1. PICK e \in Entries : Contract!Positions(log, e) # {} /\ c = Contract!Before(log, e)
      BY <1>2
    <2> DEFINE P == Contract!Positions(log, e)
               cut == CHOOSE k \in P : \A j \in P : k <= j
    <2>2. P \subseteq 1..Len(log) /\ P \subseteq Nat /\ P # {}
      BY <2>1 DEF Contract!Positions
    <2>3. c = Contract!Copied(SubSeq(log, 1, cut - 1))
      BY <2>1 DEF Contract!Before
    <2> HIDE DEF P
    <2>4. \E k \in P : \A j \in P : k <= j
      BY <2>2, MinOfPlaces
    <2>5. cut \in P
      BY <2>4
    <2> HIDE DEF cut
    <2>6. cut - 1 \in 0..Len(log)
      BY <2>2, <2>5
    <2> DEFINE u == SubSeq(log, 1, cut - 1)
    <2>7. u \in Seq(Text)
      BY <2>6
    <2>8. /\ c \in Seq(Text) /\ Sub(c, u)
          /\ \A k \in DOMAIN c : c[k].kind # "session"
      <3> HIDE DEF u
      <3>1. c = Contract!Copied(u)
        BY <2>3 DEF u
      <3> QED BY <2>7, <3>1, CopiedParts
    <2>9. Sub(c, log)
      BY <2>6, <2>8, SubOfPrefix
    <2> QED BY <2>8, <2>9
  <1> QED BY <1>1, <1>2 DEF Contract!EntriesUpTo

LEMMA CreateKeeps ==
  ASSUME FileInv, NEW w \in Writers, NEW s \in Sessions, Create(w, s)
  PROVE  FileInv'
  <1> DEFINE t == Header(s, NoSession)  c == <<t>>
             o == [step |-> "text", session |-> s, content |-> c]
  <1>1. t \in Text /\ t.kind = "session" /\ t.id = s /\ t # Torn
    BY DEF Header, Text, Torn
  <1>2. op[w] = Idle /\ op' = [op EXCEPT ![w] = o]
    BY DEF Create, Begin
  <1> HIDE DEF t
  <1>3. c \in Seq(Text) /\ Len(c) = 1 /\ c # <<>> /\ DOMAIN c = {1} /\ c[1] = t
    BY <1>1
  <1> HIDE DEF c
  <1>4. nextEntry' \in nextEntry..(MaxEntries + 1)
    BY StoreAssumption DEF Create, FileInv, TypeOK
  <1>5. OnceIn(c)
    BY <1>3 DEF OnceIn
  <1>6. ~files[s].exists /\ files' = [files EXCEPT ![s] = EmptyFile] /\ acked' = acked
    BY DEF Create
  <1>7. Begins(w, s, o)
    BY <1>1, <1>2, <1>3, <1>4, <1>5, <1>6 DEF Begins
  <1> QED BY <1>7, BeginKeeps

LEMMA AppendKeeps ==
  ASSUME FileInv, NEW w \in Writers, NEW s \in Sessions, AppendEntry(w, s)
  PROVE  FileInv'
  <1> DEFINE t == Entry(nextEntry)  c == <<t>>
             o == [step |-> "text", session |-> s, content |-> c]
  <1>1. nextEntry \in Nat /\ nextEntry >= 1 /\ MaxEntries \in Nat /\ nextEntry <= MaxEntries
        /\ nextEntry' = nextEntry + 1
    BY StoreAssumption DEF AppendEntry, FileInv, TypeOK
  <1>2. t \in Text /\ t.kind = "entry" /\ t.id = nextEntry /\ t # Torn
    BY <1>1 DEF Entry, Text, Torn, Entries
  <1>3. op[w] = Idle /\ op' = [op EXCEPT ![w] = o]
    BY DEF AppendEntry, Begin
  <1> HIDE DEF t
  <1>4. c \in Seq(Text) /\ Len(c) = 1 /\ c # <<>> /\ DOMAIN c = {1} /\ c[1] = t
    BY <1>2
  <1> HIDE DEF c
  <1>5. nextEntry' \in nextEntry..(MaxEntries + 1)
    BY <1>1
  <1>6. OnceIn(c)
    BY <1>4 DEF OnceIn
  <1>7. files[s].exists /\ files' = files /\ acked' = acked
    BY DEF AppendEntry
  <1>8. \A x : Known(s, x) => ~Same(x, t) /\ ~Same(t, x)
    BY <1>1, <1>2 DEF Known, Same
  <1>9. Apart(files[s], c)
    BY <1>4, <1>8 DEF Apart, FileInv, FilesFit
  <1>10. ASSUME NEW v \in Writers, Pending(v, s) PROVE ApartIn(c, op[v].content)
    <2>1. \A j \in DOMAIN op[v].content : Known(s, op[v].content[j])
      BY <1>10 DEF Pending, FileInv, OpsFit
    <2> QED BY <1>4, <1>8, <2>1 DEF ApartIn
  <1>11. \A j \in DOMAIN c : c[j] # Torn /\ c[j].kind = "entry" /\ c[j].id < nextEntry'
    BY <1>1, <1>2, <1>4
  <1>12. Begins(w, s, o)
    BY <1>3, <1>4, <1>5, <1>6, <1>7, <1>9, <1>10, <1>11 DEF Begins
  <1> QED BY <1>12, BeginKeeps

\* The log of a session that loads: texts of its file, each of them once.
LEMMA LogParts ==
  ASSUME NEW f \in File, Load(f).ok, Once(f)
  PROVE  /\ Load(f).entries \in Seq(Text) /\ OnceIn(Load(f).entries)
         /\ \A j \in DOMAIN Load(f).entries :
              /\ Load(f).entries[j].kind = "entry" /\ Load(f).entries[j] # Torn
              /\ Held(f, Load(f).entries[j])
         /\ Load(f).header \in Text /\ Load(f).header.kind = "session"
         /\ Held(f, Load(f).header)
         /\ \A e : Closed(f, Entry(e)) =>
              \E j \in DOMAIN Load(f).entries : Load(f).entries[j] = Entry(e)
  <1> DEFINE log == Load(f).entries  ls == Lines(f)  h == Load(f).header
  <1>1. PICK p \in Seq(Text) :
          /\ p # <<>> /\ p[1].kind = "session"
          /\ h = p[1] /\ log = Tail(p)
          /\ \A j \in 1..Len(p) : p[j] # Torn
          /\ \E at \in [1..Len(p) -> DOMAIN ls] :
               /\ \A i, j \in 1..Len(p) : i < j => at[i] < at[j]
               /\ \A j \in 1..Len(p) : ls[at[j]] = <<p[j]>>
          /\ \A t : t # Torn /\ Closed(f, t) => \E j \in 1..Len(p) : p[j] = t
    BY LoadParts
  <1>2. PICK at \in [1..Len(p) -> DOMAIN ls] :
          /\ \A i, j \in 1..Len(p) : i < j => at[i] < at[j]
          /\ \A j \in 1..Len(p) : ls[at[j]] = <<p[j]>>
    BY <1>1
  <1> HIDE DEF log, ls, h
  <1>3. /\ log \in Seq(Text) /\ Len(p) \in Nat \ {0} /\ Len(log) = Len(p) - 1
        /\ \A k \in 1..(Len(p) - 1) : log[k] = p[k + 1]
    BY <1>1, TailParts
  <1>4. ASSUME NEW j \in 1..Len(p)
        PROVE  at[j] \in DOMAIN ls /\ 1 \in DOMAIN ls[at[j]] /\ ls[at[j]][1] = p[j]
    <2>1. at[j] \in DOMAIN ls
      BY <1>2
    <2>2. ls[at[j]] = <<p[j]>>
      BY <1>2
    <2> QED BY <2>1, <2>2
  <1>5. \A j \in 1..Len(p) : Held(f, p[j])
    BY <1>4 DEF Held, ls
  <1>6. ASSUME NEW i \in 1..Len(p), NEW j \in 1..Len(p), Same(p[i], p[j]) PROVE i = j
    <2>1. at[i] = at[j]
      BY <1>4, <1>6 DEF Once, ls
    <2>2. at[i] \in Nat /\ at[j] \in Nat /\ i \in Nat /\ j \in Nat
      <3>1. DOMAIN ls \subseteq Nat
        <4>1. ls \in Seq(Seq(Text))
          BY LineParts DEF ls
        <4> QED BY <4>1
      <3> QED BY <1>4, <3>1
    <2> QED BY <1>2, <2>1, <2>2
  <1>7. \A j \in 1..Len(p) : p[j] \in Text
    BY <1>1
  <1>8. 1 \in 1..Len(p) /\ DOMAIN log = 1..(Len(p) - 1)
        /\ \A k \in 1..(Len(p) - 1) : k + 1 \in 1..Len(p) /\ k + 1 # 1
    BY <1>3
  <1>9. ASSUME NEW j \in DOMAIN log
        PROVE  log[j].kind = "entry" /\ log[j] # Torn /\ Held(f, log[j])
    <2>1. j + 1 \in 1..Len(p) /\ j + 1 # 1 /\ log[j] = p[j + 1]
      BY <1>3, <1>8
    <2>2. p[j + 1].kind # "session"
      BY <1>1, <1>6, <1>8, <2>1 DEF Same
    <2>3. \A t \in Text : t.kind = "session" \/ t.kind = "entry" \/ t = Torn
      BY DEF Text
    <2>4. p[j + 1] # Torn /\ p[j + 1] \in Text
      BY <1>1, <1>7, <2>1
    <2> QED BY <1>5, <2>1, <2>2, <2>3, <2>4
  <1>10. OnceIn(log)
    <2> SUFFICES ASSUME NEW i \in DOMAIN log, NEW j \in DOMAIN log, Same(log[i], log[j])
                 PROVE  i = j
      BY DEF OnceIn
    <2>1. i + 1 \in 1..Len(p) /\ j + 1 \in 1..Len(p) /\ Same(p[i + 1], p[j + 1])
      BY <1>3, <1>8
    <2>2. i + 1 = j + 1
      BY <1>6, <2>1
    <2> QED BY <1>8, <2>2
  <1>11. h \in Text /\ h.kind = "session" /\ Held(f, h)
    BY <1>1, <1>5, <1>7, <1>8
  <1>12. ASSUME NEW e, Closed(f, Entry(e)) PROVE \E j \in DOMAIN log : log[j] = Entry(e)
    <2>1. Entry(e) # Torn /\ Entry(e).kind = "entry"
      BY DEF Entry, Torn
    <2>2. PICK j \in 1..Len(p) : p[j] = Entry(e)
      BY <1>1, <1>12, <2>1
    <2>3. j # 1
      BY <1>1, <2>1, <2>2
    <2>4. j - 1 \in 1..(Len(p) - 1) /\ (j - 1) + 1 = j
      BY <1>3, <2>3
    <2>5. log[j - 1] = p[(j - 1) + 1]
      BY <1>3, <2>4
    <2> QED BY <1>8, <2>2, <2>4, <2>5
  <1> QED BY <1>3, <1>9, <1>10, <1>11, <1>12 DEF log, h

LEMMA ForkKeeps ==
  ASSUME FileInv, NEW w \in Writers, NEW s \in Sessions, NEW from \in Sessions,
         Fork(w, from, s)
  PROVE  FileInv'
  <1> DEFINE f == files[from]  log == Load(f).entries  h == Header(s, Load(f).header.id)
  <1>1. PICK copied \in Contract!EntriesUpTo(log) : Begin(w, "content", s, <<h>> \o copied)
    BY DEF Fork
  <1> DEFINE c == <<h>> \o copied
             o == [step |-> "content", session |-> s, content |-> c]
  <1>2. f \in File /\ Load(f).ok /\ Once(f)
    BY DEF Fork, FileInv, TypeOK, FilesOnce, File
  <1>3. /\ log \in Seq(Text) /\ OnceIn(log)
        /\ \A j \in DOMAIN log : log[j].kind = "entry" /\ log[j] # Torn /\ Held(f, log[j])
        /\ Load(f).header \in Text /\ Load(f).header.kind = "session"
    BY <1>2, LogParts
  <1>4. h \in Text /\ h.kind = "session" /\ h.id = s /\ h # Torn
    <2>1. \A t \in Text : t.kind = "session" => t.id \in Sessions
      BY DEF Text, Torn
    <2>2. Load(f).header.id \in Sessions
      BY <1>3, <2>1
    <2> QED BY <2>2 DEF Header, Text, Torn
  <1> HIDE DEF f, h, log
  <1>5. copied \in Seq(Text) /\ Sub(copied, log)
    BY <1>3, EntriesParts
  <1>6. PICK at \in [1..Len(copied) -> 1..Len(log)] :
          /\ \A i, j \in 1..Len(copied) : i < j => at[i] < at[j]
          /\ \A i \in 1..Len(copied) : copied[i] = log[at[i]]
    BY <1>5, Zenon DEF Sub
  <1>7. DOMAIN log = 1..Len(log) /\ Len(log) \in Nat /\ DOMAIN copied = 1..Len(copied) /\ Len(copied) \in Nat
    BY <1>3, <1>5
  <1>8. \A j \in 1..Len(copied) : /\ copied[j] \in Text /\ copied[j].kind = "entry"
                                  /\ copied[j] # Torn /\ Held(f, copied[j])
    <2>1. \A j \in 1..Len(copied) : at[j] \in DOMAIN log /\ copied[j] = log[at[j]]
      BY <1>6, <1>7
    <2> QED BY <1>3, <1>5, <2>1
  <1>9. OnceIn(copied)
    <2> SUFFICES ASSUME NEW i \in 1..Len(copied), NEW j \in 1..Len(copied),
                        Same(copied[i], copied[j])
                 PROVE  i = j
      BY <1>7 DEF OnceIn
    <2>1. at[i] \in DOMAIN log /\ at[j] \in DOMAIN log /\ Same(log[at[i]], log[at[j]])
      BY <1>6, <1>7
    <2>2. at[i] = at[j]
      BY <1>3, <2>1 DEF OnceIn
    <2> QED BY <1>6, <1>7, <2>1, <2>2
  <1>10. /\ c \in Seq(Text) /\ c # <<>> /\ DOMAIN c = 1..(Len(copied) + 1) /\ c[1] = h
         /\ \A k \in 2..(Len(copied) + 1) : c[k] = copied[k - 1]
    <2> DEFINE u == <<h>>
    <2>1. u \in Seq(Text) /\ Len(u) = 1 /\ u[1] = h
      BY <1>4
    <2> HIDE DEF u
    <2>2. /\ u \o copied \in Seq(Text) /\ Len(u \o copied) = Len(u) + Len(copied)
          /\ \A i \in 1..(Len(u) + Len(copied)) :
               (u \o copied)[i] = IF i <= Len(u) THEN u[i] ELSE copied[i - Len(u)]
      BY <1>5, <2>1, ConcatProperties, Zenon
    <2> DEFINE v == u \o copied
    <2>3. v = c
      BY DEF u
    <2>4. DOMAIN v = 1..Len(v)
      BY <2>2
    <2> HIDE DEF v, c
    <2>5. DOMAIN v = 1..(Len(copied) + 1) /\ Len(v) = Len(copied) + 1
      BY <1>7, <2>1, <2>2, <2>4 DEF v
    <2>6. v[1] = h
      BY <1>7, <2>1, <2>2 DEF v
    <2>7. \A k \in 2..(Len(copied) + 1) : v[k] = copied[k - 1]
      BY <1>7, <2>1, <2>2 DEF v
    <2>8. v \in Seq(Text) /\ v # <<>>
      BY <1>7, <2>2, <2>5 DEF v
    <2> QED BY <2>3, <2>5, <2>6, <2>7, <2>8
  <1>11. op[w] = Idle /\ op' = [op EXCEPT ![w] = o]
    BY <1>1 DEF Begin
  <1> HIDE DEF c
  <1>12. \A k \in DOMAIN c : k = 1 \/ (k - 1 \in 1..Len(copied) /\ k \in 2..(Len(copied) + 1))
    BY <1>7, <1>10
  <1>13. OnceIn(c)
    <2> SUFFICES ASSUME NEW i \in DOMAIN c, NEW j \in DOMAIN c, Same(c[i], c[j])
                 PROVE  i = j
      BY DEF OnceIn
    <2>1. CASE i = 1 /\ j = 1
      BY <2>1
    <2>2. CASE i # 1 /\ j # 1
      <3>1. /\ i - 1 \in 1..Len(copied) /\ j - 1 \in 1..Len(copied)
            /\ Same(copied[i - 1], copied[j - 1]) /\ i \in Int /\ j \in Int
        BY <1>7, <1>10, <1>12, <2>2
      <3>2. i - 1 = j - 1
        BY <1>7, <1>9, <3>1 DEF OnceIn
      <3> QED BY <3>1, <3>2
    <2>3. CASE i = 1 /\ j # 1
      BY <1>4, <1>8, <1>10, <1>12, <2>3 DEF Same
    <2>4. CASE i # 1 /\ j = 1
      BY <1>4, <1>8, <1>10, <1>12, <2>4 DEF Same
    <2> QED BY <2>1, <2>2, <2>3, <2>4
  <1>14. nextEntry' = nextEntry /\ nextEntry' \in nextEntry..(MaxEntries + 1)
    BY StoreAssumption DEF Fork, FileInv, TypeOK
  <1>15. \A j \in 1..Len(copied) : copied[j].id < nextEntry'
    BY <1>8, <1>14 DEF FileInv, FilesFit, Known, f
  <1>16. \A k \in DOMAIN c : /\ c[k] # Torn
                             /\ c[k].kind = "session" => c[k].id = s
                             /\ c[k].kind = "entry" => c[k].id < nextEntry'
    <2> SUFFICES ASSUME NEW k \in DOMAIN c
                 PROVE  /\ c[k] # Torn
                        /\ c[k].kind = "session" => c[k].id = s
                        /\ c[k].kind = "entry" => c[k].id < nextEntry'
      OBVIOUS
    <2>1. CASE k = 1
      BY <1>4, <1>10, <2>1
    <2>2. CASE k # 1
      <3>1. k - 1 \in 1..Len(copied) /\ c[k] = copied[k - 1]
        BY <1>10, <1>12, <2>2
      <3> QED BY <1>8, <1>15, <3>1
    <2> QED BY <2>1, <2>2
  <1>17. ~files[s].exists /\ files' = [files EXCEPT ![s] = EmptyFile] /\ acked' = acked
    BY DEF Fork
  <1>18. Begins(w, s, o)
    BY <1>10, <1>11, <1>13, <1>14, <1>16, <1>17 DEF Begins
  <1> QED BY <1>18, BeginKeeps

----------------------------------------------------------------------------
(* The theorems. *)

LEMMA FileInit == Init => FileInv
  <1> SUFFICES ASSUME Init PROVE FileInv
    OBVIOUS
  <1>1. /\ \A s \in Sessions : files[s] = NoFile
        /\ \A w \in Writers : op[w] = Idle
        /\ \A s \in Sessions : acked[s] = {}
    BY DEF Init
  <1>2. NoFile \in File /\ Once(NoFile) /\ \A t : ~Held(NoFile, t)
    BY NothingHeld
  <1>3. Idle.step = "idle" /\ Idle.content = <<>> /\ DOMAIN <<>> = {}
    BY DEF Idle
  <1>4. TypeOK
    <2>1. files \in [Sessions -> File]
      BY <1>2 DEF Init
    <2>2. Idle \in [step : {"idle", "text", "newline", "content"},
                    session : Sessions \cup {NoSession}, content : Seq(Text)]
      <3>1. <<>> \in Seq(Text)
        OBVIOUS
      <3> QED BY <3>1 DEF Idle
    <2>3. op \in [Writers -> [step : {"idle", "text", "newline", "content"},
                              session : Sessions \cup {NoSession}, content : Seq(Text)]]
      BY <2>2 DEF Init
    <2>4. acked \in [Sessions -> SUBSET Entries]
      BY DEF Init
    <2>5. nextEntry \in 1..(MaxEntries + 1)
      BY StoreAssumption DEF Init
    <2> QED BY <2>1, <2>3, <2>4, <2>5 DEF TypeOK, File
  <1>5. OpsFit
    BY <1>1, <1>3 DEF OpsFit
  <1>6. FilesFit /\ FilesOnce
    BY <1>1, <1>2 DEF FilesFit, FilesOnce
  <1>7. OpsApart
    BY <1>1, <1>3 DEF OpsApart, Pending
  <1>8. Kept
    BY <1>1, <1>3 DEF Kept
  <1> QED BY <1>4, <1>5, <1>6, <1>7, <1>8 DEF FileInv

LEMMA FileStutter ==
  ASSUME FileInv, UNCHANGED vars
  PROVE  FileInv'
  <1>1. UNCHANGED <<files, op, nextEntry, acked>>
    BY DEF vars
  <1>2. TypeOK' /\ Kept'
    BY <1>1 DEF FileInv, TypeOK, Kept
  <1>3. OpsFit' /\ FilesFit'
    BY <1>1 DEF FileInv, OpsFit, FilesFit, Known
  <1>4. FilesOnce' /\ OpsApart'
    BY <1>1 DEF FileInv, FilesOnce, OpsApart, Pending
  <1> QED BY <1>2, <1>3, <1>4 DEF FileInv

LEMMA FileStep == FileInv /\ [Next]_vars => FileInv'
  <1> SUFFICES ASSUME FileInv, [Next]_vars PROVE FileInv'
    OBVIOUS
  <1>1. CASE UNCHANGED vars
    BY <1>1, FileStutter
  <1>2. ASSUME NEW w \in Writers, NEW s \in Sessions, Create(w, s) PROVE FileInv'
    BY <1>2, CreateKeeps
  <1>3. ASSUME NEW w \in Writers, NEW s \in Sessions, AppendEntry(w, s) PROVE FileInv'
    BY <1>3, AppendKeeps
  <1>4. ASSUME NEW w \in Writers, NEW s \in Sessions, NEW from \in Sessions, Fork(w, from, s)
        PROVE  FileInv'
    BY <1>4, ForkKeeps
  <1>5. ASSUME NEW w \in Writers, WriteText(w) PROVE FileInv'
    BY <1>5, WriteTextKeeps
  <1>6. ASSUME NEW w \in Writers, WriteNewline(w) PROVE FileInv'
    BY <1>6, WriteNewlineKeeps
  <1>7. ASSUME NEW w \in Writers, WriteContent(w) PROVE FileInv'
    BY <1>7, WriteContentKeeps
  <1>8. ASSUME NEW w \in Writers, Interrupt(w) PROVE FileInv'
    BY <1>8, InterruptKeeps
  <1> QED BY <1>1, <1>2, <1>3, <1>4, <1>5, <1>6, <1>7, <1>8 DEF Next

LEMMA FileHolds == Spec => []FileInv
  <1>1. Init => FileInv
    BY FileInit
  <1>2. FileInv /\ [Next]_vars => FileInv'
    BY FileStep
  <1> QED BY <1>1, <1>2, PTL DEF Spec

\* Every reachable state has values of the right type: whatever is written,
\* whole or torn, a file is lines of texts.
THEOREM TypeCorrect == Spec => []TypeOK
  <1>1. FileInv => TypeOK
    BY DEF FileInv
  <1> QED BY <1>1, FileHolds, PTL

LEMMA FileInvIsWhole == FileInv => SessionsAreWhole
  <1> SUFFICES ASSUME FileInv, NEW s \in Sessions, files[s].exists, Load(files[s]).ok
               PROVE  /\ \A e \in acked[s] :
                           \E k \in DOMAIN Load(files[s]).entries :
                             Load(files[s]).entries[k].id = e
                      /\ \A j, k \in DOMAIN Load(files[s]).entries :
                           Load(files[s]).entries[j].id = Load(files[s]).entries[k].id => j = k
                      /\ ScanHeader(files[s]).ok
                      /\ ScanHeader(files[s]).header = Load(files[s]).header
                      /\ Load(files[s]).header.id = s
    BY DEF SessionsAreWhole, AckedEntriesLoad, ScanAgreesWithLoad
  <1> DEFINE f == files[s]  log == Load(f).entries
  <1>1. f \in File /\ Once(f)
    BY DEF FileInv, TypeOK, FilesOnce, File
  <1>2. /\ OnceIn(log) /\ \A j \in DOMAIN log : log[j].kind = "entry"
        /\ Load(f).header \in Text /\ Load(f).header.kind = "session" /\ Held(f, Load(f).header)
        /\ \A e : Closed(f, Entry(e)) => \E j \in DOMAIN log : log[j] = Entry(e)
    BY <1>1, LogParts
  <1>3. ASSUME NEW e \in acked[s] PROVE \E k \in DOMAIN log : log[k].id = e
    <2>1. PICK j \in DOMAIN log : log[j] = Entry(e)
      BY <1>2, <1>3 DEF FileInv, Kept
    <2>2. log[j].id = e
      BY <2>1 DEF Entry
    <2> QED BY <2>2
  <1>4. ASSUME NEW j \in DOMAIN log, NEW k \in DOMAIN log, log[j].id = log[k].id PROVE j = k
    BY <1>2, <1>4 DEF OnceIn, Same
  <1>5. ScanHeader(f).ok /\ ScanHeader(f).header = Load(f).header
    BY <1>1, ScanReads
  <1>6. Load(f).header.id = s
    BY <1>2 DEF FileInv, FilesFit, Known
  <1> QED BY <1>3, <1>4, <1>5, <1>6

\* Whatever writers race on a session or are interrupted in it, a session that
\* loads has every entry whose append or fork returned Ok, once, and the
\* bounded scan of its header agrees with the load (load, scan_header).
THEOREM WholeSessions == Spec => []SessionsAreWhole
  <1> QED BY FileInvIsWhole, FileHolds, PTL

----------------------------------------------------------------------------
(* One writer that is never interrupted.  Its writes are the operations of  *)
(* the contract: a session is there, or has one more entry, as soon as the  *)
(* text is written; a newline and an opened file are not visible.           *)

Proper(f) == f \in File /\ \A k \in DOMAIN f.closed : Parses(f.closed[k])

\* What a proper file holds as a session of the contract.
Loaded(p) == IF p = <<>> \/ p[1].kind # "session" THEN NoSession
             ELSE [header |-> p[1], entries |-> Tail(p)]

\* The text of the open line, when it is one.
Open(f) == IF Parses(f.tail) THEN <<f.tail[1]>> ELSE <<>>

\* The texts of one more line.
LEMMA TextsAppend ==
  ASSUME NEW c \in Seq(Seq(Text)), NEW t \in Seq(Text), Parses(t),
         \A k \in DOMAIN c : Parses(c[k])
  PROVE  /\ Texts(c) \in Seq(Text) /\ Len(Texts(c)) = Len(c)
         /\ Texts(c \o <<t>>) = Texts(c) \o <<t[1]>>
  <1> DEFINE x == t[1]  z == Len(c)  s == Texts(c)
             u == c \o <<t>>  v == Texts(c) \o <<x>>
  <1>1. x \in Text /\ z \in Nat /\ DOMAIN c = 1..z
    BY DEF Parses
  <1>2. s \in Seq(Text) /\ Len(s) = z
    <2>1. \A k \in DOMAIN c : c[k][1] \in Text
      BY DEF Parses
    <2>2. s \in [1..z -> Text]
      BY <1>1, <2>1 DEF Texts
    <2> HIDE DEF s, z
    <2> QED BY <1>1, <2>2
  <1>3. DOMAIN u = 1..(z + 1) /\ u[z + 1] = t /\ \A k \in 1..z : u[k] = c[k]
    <2>1. u = Append(c, t)
      OBVIOUS
    <2> HIDE DEF u
    <2>2. Append(c, t)[z + 1] = t
      OBVIOUS
    <2> QED BY <2>1, <2>2
  <1> HIDE DEF s, x, z
  <1>4. v \in Seq(Text) /\ DOMAIN v = 1..(z + 1) /\ v[z + 1] = x /\ \A k \in 1..z : v[k] = s[k]
    <2>1. v = Append(s, x)
      BY <1>1, <1>2 DEF s
    <2> HIDE DEF v
    <2>2. Append(s, x)[Len(s) + 1] = x
      BY <1>1, <1>2
    <2> QED BY <1>1, <1>2, <2>1, <2>2
  <1> HIDE DEF u, v
  <1>5. ASSUME NEW k \in 1..(z + 1) PROVE u[k][1] = v[k]
    <2>1. CASE k \in 1..z
      <3>1. s[k] = c[k][1]
        BY <1>1, <2>1 DEF Texts, s
      <3> QED BY <1>3, <1>4, <2>1, <3>1
    <2>2. CASE k = z + 1
      BY <1>3, <1>4, <2>2 DEF x
    <2> QED BY <1>1, <2>1, <2>2
  <1>6. Texts(u) = v
    <2>1. Texts(u) = [k \in 1..(z + 1) |-> u[k][1]]
      BY <1>3 DEF Texts
    <2>2. v = [k \in 1..(z + 1) |-> v[k]]
      BY <1>1, <1>4
    <2> QED BY <1>5, <2>1, <2>2
  <1> QED BY <1>2, <1>6 DEF s, u, v, x, z

\* A proper file is read text by text.
LEMMA ProperReads ==
  ASSUME NEW f, Proper(f)
  PROVE  /\ Texts(f.closed) \in Seq(Text)
         /\ Parsed(f) = Texts(f.closed) \o Open(f)
         /\ Load(f).ok <=> Loaded(Parsed(f)) # NoSession
         /\ Load(f).ok => Loaded(Parsed(f)) = [header |-> Load(f).header, entries |-> Load(f).entries]
  <1> DEFINE c == f.closed
  <1>1. /\ c \in Seq(Seq(Text)) /\ f.tail \in Seq(Text) /\ <<f.tail>> \in Seq(Seq(Text))
        /\ Lines(f) = c \o <<f.tail>> /\ f \in File
    BY LineParts DEF Proper
  <1> HIDE DEF c
  <1>2. \A k \in DOMAIN c : c[k] \in Seq(Text) /\ Parses(c[k])
    <2>1. \A k \in DOMAIN c : Parses(c[k])
      BY DEF Proper, c
    <2>2. \A k \in DOMAIN c : c[k] \in Seq(Text)
      BY <1>1
    <2> QED BY <2>1, <2>2
  <1>3. ToSet(c) \subseteq Whole /\ ToSet(c) \subseteq Filled
    <2>1. \A l : Parses(l) => l # <<>>
      <3>1. Len(<<>>) = 0
        OBVIOUS
      <3> QED BY <3>1 DEF Parses
    <2> QED BY <1>2, <2>1 DEF ToSet, Whole, Filled
  <1>4. Keep(c, Whole) = c /\ Keep(c, Filled) = c
    BY <1>1, <1>3, KeepAll
  <1>5. NonBlank(c) = c
    BY <1>1, <1>4, NonBlankIsFilled
  <1> DEFINE end == IF Parses(f.tail) THEN <<f.tail>> ELSE <<>>
  <1>6. Parsed(f) = Texts(c \o end)
    <2>1. end = Keep(<<f.tail>>, Whole)
      BY <1>1, KeepOne DEF Whole
    <2>2. Keep(Lines(f), Whole) = Keep(c, Whole) \o Keep(<<f.tail>>, Whole)
      BY <1>1, KeepConcat
    <2> QED BY <1>4, <2>1, <2>2 DEF Parsed, Read
  <1>7. Texts(c) \in Seq(Text) /\ Len(Texts(c)) = Len(c)
    <2>1. \A k \in DOMAIN c : c[k][1] \in Text
      BY <1>2 DEF Parses
    <2>2. DOMAIN c = 1..Len(c) /\ Len(c) \in Nat
      BY <1>1
    <2>3. Texts(c) \in [1..Len(c) -> Text]
      BY <2>1, <2>2 DEF Texts
    <2> QED BY <2>2, <2>3
  <1>8. Texts(c \o end) = Texts(c) \o Open(f)
    <2>1. CASE ~Parses(f.tail)
      <3>1. c \o end = c /\ Open(f) = <<>>
        BY <1>1, <2>1 DEF Open
      <3>2. Texts(c) \o <<>> = Texts(c)
        BY <1>7
      <3> QED BY <3>1, <3>2
    <2>2. CASE Parses(f.tail)
      <3> DEFINE t == f.tail  x == f.tail[1]
      <3>1. end = <<t>> /\ Open(f) = <<x>> /\ x = t[1] /\ t \in Seq(Text) /\ x \in Text
        BY <1>1, <2>2 DEF Open, Parses
      <3> HIDE DEF t, x, end
      <3>2. Texts(c \o <<t>>) = Texts(c) \o <<x>>
        BY <1>1, <1>2, <2>2, <3>1, TextsAppend DEF t
      <3> QED BY <3>1, <3>2
    <2> QED BY <2>1, <2>2
  <1> DEFINE p == Parsed(f)
  <1>9. Load(f) = IF p = <<>> \/ p[1].kind # "session" THEN Corrupt
                  ELSE [ok |-> TRUE, header |-> p[1], entries |-> Tail(p)]
    <2>1. \A k \in DOMAIN c : Parses(c[k])
      BY <1>2
    <2> HIDE DEF p
    <2>2. p = Texts(c \o end)
      BY <1>6 DEF p
    <2> QED BY <1>5, <2>1, <2>2 DEF Load, c
  <1>10. p \in Seq(Text)
    BY <1>1, ReadParts
  <1> HIDE DEF p
  <1>11. CASE p = <<>> \/ p[1].kind # "session"
    <2>1. Load(f).ok = FALSE
      BY <1>9, <1>11 DEF Corrupt
    <2>2. Loaded(p) = NoSession
      BY <1>11 DEF Loaded
    <2> QED BY <1>6, <1>7, <1>8, <2>1, <2>2 DEF p, c
  <1>12. CASE ~(p = <<>> \/ p[1].kind # "session")
    <2>1. Load(f).ok = TRUE /\ Load(f).header = p[1] /\ Load(f).entries = Tail(p)
      BY <1>9, <1>12
    <2>2. Loaded(p) = [header |-> p[1], entries |-> Tail(p)]
      BY <1>12 DEF Loaded
    <2>3. p[1] \in Text /\ Tail(p) \in Seq(Text)
      BY <1>10, <1>12
    <2>4. Loaded(p) # NoSession
      BY <2>2, <2>3, NoSessionAssumption
    <2> QED BY <1>6, <1>7, <1>8, <2>1, <2>2, <2>4 DEF p, c
  <1> QED BY <1>11, <1>12

\* The text of a line is in the session before its newline is.
LEMMA TextRead ==
  ASSUME NEW f, Proper(f), f.tail = <<>>, NEW x \in Text, x # Torn, NEW g,
         g = [f EXCEPT !.tail = <<x>>]
  PROVE  Proper(g) /\ g.tail = <<x>> /\ Parsed(g) = Append(Parsed(f), x)
  <1>1. f \in File /\ \A k \in DOMAIN f.closed : Parses(f.closed[k])
    BY DEF Proper
  <1>2. <<x>> \in Seq(Text) /\ Parses(<<x>>) /\ ~Parses(<<>>)
    BY DEF Parses
  <1>3. g \in File /\ g.closed = f.closed /\ g.tail = <<x>>
    <2> DEFINE t == <<x>>
    <2> HIDE DEF t
    <2>1. t \in Seq(Text) /\ g = [f EXCEPT !.tail = t]
      BY <1>2 DEF t
    <2>2. g \in File /\ g.closed = f.closed /\ g.tail = t
      BY <1>1, <2>1 DEF File
    <2> QED BY <2>2 DEF t
  <1>4. Proper(g)
    BY <1>1, <1>3 DEF Proper
  <1> DEFINE s == Texts(f.closed)
  <1>5. s \in Seq(Text) /\ Parsed(f) = s \o Open(f) /\ Parsed(g) = s \o Open(g)
    BY <1>3, <1>4, ProperReads
  <1> HIDE DEF s
  <1>6. Open(f) = <<>> /\ Open(g) = <<x>>
    BY <1>2, <1>3 DEF Open
  <1>7. s \o <<>> = s /\ s \o <<x>> = Append(s, x)
    BY <1>5
  <1> QED BY <1>3, <1>4, <1>5, <1>6, <1>7

\* A newline is not visible.
LEMMA NewlineRead ==
  ASSUME NEW f, Proper(f), NEW x \in Text, f.tail = <<x>>, x # Torn, NEW g,
         g = [f EXCEPT !.closed = Append(f.closed, f.tail), !.tail = <<>>]
  PROVE  Proper(g) /\ g.tail = <<>> /\ Parsed(g) = Parsed(f)
  <1>1. f \in File /\ \A k \in DOMAIN f.closed : Parses(f.closed[k])
    BY DEF Proper
  <1> DEFINE c == f.closed  t == f.tail  u == Append(f.closed, f.tail)
  <1>2. c \in Seq(Seq(Text)) /\ t \in Seq(Text) /\ <<>> \in Seq(Text) /\ ~Parses(<<>>)
    BY <1>1 DEF File, Parses
  <1>3. Parses(t) /\ t[1] = x
    BY DEF Parses
  <1>4. /\ u \in Seq(Seq(Text)) /\ DOMAIN u = 1..(Len(c) + 1) /\ u[Len(c) + 1] = t
        /\ \A k \in 1..Len(c) : u[k] = c[k]
        /\ u = c \o <<t>> /\ Len(c) \in Nat /\ DOMAIN c = 1..Len(c)
    <2> HIDE DEF c, t
    <2>1. Append(c, t)[Len(c) + 1] = t /\ Append(c, t) = c \o <<t>>
      BY <1>2
    <2>2. /\ Append(c, t) \in Seq(Seq(Text)) /\ DOMAIN Append(c, t) = 1..(Len(c) + 1)
          /\ \A k \in 1..Len(c) : Append(c, t)[k] = c[k]
          /\ Len(c) \in Nat /\ DOMAIN c = 1..Len(c)
      BY <1>2
    <2> QED BY <2>1, <2>2 DEF c, t
  <1>5. g \in File /\ g.closed = u /\ g.tail = <<>>
    <2> HIDE DEF u
    <2>1. g = [f EXCEPT !.closed = u, !.tail = <<>>]
      BY DEF u
    <2> QED BY <1>1, <1>2, <1>4, <2>1 DEF File
  <1> HIDE DEF u
  <1>6. Proper(g)
    <2>1. ASSUME NEW k \in DOMAIN u PROVE Parses(u[k])
      <3>1. CASE k \in 1..Len(c)
        BY <1>1, <1>4, <3>1
      <3>2. CASE k = Len(c) + 1
        BY <1>3, <1>4, <3>2
      <3> QED BY <1>4, <3>1, <3>2
    <2> QED BY <1>5, <2>1 DEF Proper
  <1> DEFINE s == Texts(c)
  <1>7. s \in Seq(Text) /\ Parsed(f) = s \o Open(f)
    BY ProperReads
  <1>8. Parsed(g) = Texts(u) \o Open(g) /\ Texts(u) \in Seq(Text)
    BY <1>5, <1>6, ProperReads
  <1>9. Open(f) = <<x>> /\ Open(g) = <<>>
    BY <1>2, <1>3, <1>5 DEF Open
  <1>10. Texts(u) = s \o <<x>>
    <2>1. \A k \in DOMAIN c : Parses(c[k])
      BY <1>1
    <2> HIDE DEF c, t, s
    <2>2. Texts(c \o <<t>>) = Texts(c) \o <<t[1]>>
      BY <1>2, <1>3, <2>1, TextsAppend
    <2> QED BY <1>3, <1>4, <2>2 DEF s
  <1> HIDE DEF s
  <1> DEFINE y == Texts(u)
  <1> HIDE DEF y
  <1>11. y \o <<>> = y
    BY <1>8 DEF y
  <1> QED BY <1>5, <1>6, <1>7, <1>8, <1>9, <1>10, <1>11 DEF y

\* A fork that is written at once has all of its content.
LEMMA ContentRead ==
  ASSUME NEW c \in Seq(Text), c # <<>>, \A k \in DOMAIN c : c[k] # Torn, NEW g,
         g = Extended(EmptyFile, AsLines(c, Len(c)), <<>>)
  PROVE  Proper(g) /\ g.tail = <<>> /\ Parsed(g) = c
  <1> DEFINE f == EmptyFile  n == Len(c)
  <1>1. f \in File /\ f.closed = <<>> /\ f.tail = <<>>
    BY NothingHeld
  <1>2. /\ n \in 1..Len(c) /\ n \in Nat /\ <<>> \in Seq(Text) /\ Len(<<>>) = 0
        /\ DOMAIN c = 1..n /\ ~Parses(<<>>)
    BY DEF Parses
  <1>3. HasLines(f, c, n, <<>>, g, 0)
    <2> HIDE DEF f, n
    <2>1. HasLines(f, c, n, <<>>, Extended(f, AsLines(c, n), <<>>), Len(f.closed))
      BY <1>1, <1>2, ContentLines
    <2> QED BY <1>1, <1>2, <2>1 DEF f, n
  <1> HIDE DEF f, n
  <1>4. /\ g \in File /\ g.tail = <<>> /\ DOMAIN g.closed = 1..n /\ Len(g.closed) = n
        /\ g.closed[1] = Append(<<>>, c[1])
        /\ \A j \in 2..n : g.closed[0 + j] = <<c[j]>>
    BY <1>1, <1>2, <1>3 DEF HasLines
  <1>5. ASSUME NEW k \in 1..n PROVE g.closed[k] = <<c[k]>>
    <2>1. Append(<<>>, c[1]) = <<c[1]>>
      OBVIOUS
    <2>2. CASE k = 1
      BY <1>4, <2>1, <2>2
    <2>3. CASE k # 1
      <3>1. k \in 2..n /\ 0 + k = k
        BY <1>2, <2>3
      <3> QED BY <1>4, <3>1
    <2> QED BY <2>2, <2>3
  <1>6. \A k \in 1..n : Parses(<<c[k]>>)
    BY <1>2 DEF Parses
  <1>7. Proper(g)
    BY <1>4, <1>5, <1>6 DEF Proper
  <1>8. Texts(g.closed) = c
    <2>1. Texts(g.closed) = [k \in 1..n |-> g.closed[k][1]]
      BY <1>4 DEF Texts
    <2>2. \A k \in 1..n : g.closed[k][1] = c[k]
      BY <1>5
    <2>3. c = [k \in 1..n |-> c[k]]
      BY <1>2
    <2> QED BY <2>1, <2>2, <2>3
  <1>9. Parsed(g) = Texts(g.closed) \o Open(g)
    BY <1>7, ProperReads
  <1>10. Open(g) = <<>>
    BY <1>2, <1>4 DEF Open
  <1>11. c \o <<>> = c
    OBVIOUS
  <1> QED BY <1>4, <1>7, <1>8, <1>9, <1>10, <1>11

LEMMA EmptyReads ==
  ASSUME NEW f \in {NoFile, EmptyFile}
  PROVE  /\ Proper(f) /\ f.tail = <<>> /\ Parsed(f) = <<>>
         /\ Loaded(Parsed(f)) = NoSession /\ ~Load(f).ok
  <1>1. f \in File /\ f.closed = <<>> /\ f.tail = <<>>
    BY NothingHeld
  <1>2. DOMAIN <<>> = {} /\ ~Parses(<<>>)
    BY DEF Parses
  <1>3. Proper(f)
    BY <1>1, <1>2 DEF Proper
  <1>4. Texts(<<>>) = <<>> /\ Open(f) = <<>>
    BY <1>1, <1>2 DEF Texts, Open
  <1>5. Parsed(f) = <<>> \o <<>>
    BY <1>1, <1>3, <1>4, ProperReads
  <1>6. Parsed(f) = <<>>
    BY <1>5
  <1>7. Loaded(Parsed(f)) = NoSession
    BY <1>6 DEF Loaded
  <1> QED BY <1>1, <1>3, <1>6, <1>7, ProperReads

\* A session with one more text at its end, or with a header first.
LEMMA LoadedAppend ==
  ASSUME NEW p \in Seq(Text), NEW x \in Text, Loaded(p) # NoSession
  PROVE  /\ Loaded(Append(p, x)) = [Loaded(p) EXCEPT !.entries = Append(@, x)]
         /\ Loaded(Append(p, x)) # NoSession
  <1>1. p # <<>> /\ p[1].kind = "session" /\ Loaded(p) = [header |-> p[1], entries |-> Tail(p)]
    BY DEF Loaded
  <1>2. /\ Append(p, x) \in Seq(Text) /\ Append(p, x) # <<>> /\ Append(p, x)[1] = p[1]
        /\ Tail(Append(p, x)) = Append(Tail(p), x)
    BY <1>1
  <1> DEFINE q == Append(p, x)  t == Tail(p)  y == Append(t, x)
  <1>3. p[1] \in Text /\ t \in Seq(Text)
    BY <1>1
  <1> HIDE DEF t
  <1>4. y \in Seq(Text)
    BY <1>3
  <1> HIDE DEF q, y
  <1>5. Loaded(q) = [header |-> p[1], entries |-> y]
    BY <1>1, <1>2 DEF Loaded, q, t, y
  <1>6. Loaded(q) # NoSession
    BY <1>3, <1>4, <1>5, NoSessionAssumption
  <1>7. Loaded(p) = [header |-> p[1], entries |-> t]
    BY <1>1 DEF t
  <1>8. [Loaded(p) EXCEPT !.entries = Append(@, x)] = [header |-> p[1], entries |-> y]
    <2> DEFINE r == Loaded(p)
    <2> HIDE DEF r, y
    <2>1. r = [header |-> p[1], entries |-> t]
      BY <1>7 DEF r
    <2>2. Append(r.entries, x) = y
      BY <2>1 DEF y
    <2>3. [r EXCEPT !.entries = y] = [header |-> p[1], entries |-> y]
      BY <2>1
    <2>4. [r EXCEPT !.entries = Append(@, x)] = [r EXCEPT !.entries = y]
      BY <2>2
    <2> QED BY <2>3, <2>4 DEF r
  <1> QED BY <1>5, <1>6, <1>8 DEF q

LEMMA LoadedFirst ==
  ASSUME NEW h \in Text, h.kind = "session", NEW c \in Seq(Text)
  PROVE  /\ Loaded(<<h>> \o c) = [header |-> h, entries |-> c]
         /\ Loaded(<<h>> \o c) # NoSession
  <1> DEFINE p == <<h>> \o c
  <1>1. p \in Seq(Text) /\ p # <<>> /\ p[1] = h /\ Tail(p) = c
    BY SMTT(30)
  <1> HIDE DEF p
  <1>2. Loaded(p) = [header |-> h, entries |-> c]
    BY <1>1 DEF Loaded
  <1> QED BY <1>2, NoSessionAssumption DEF p

\* The view of proper files.
Seen(F) == [s \in Sessions |->
              LET loaded == Load(F[s])
              IN  IF loaded.ok THEN [header |-> loaded.header, entries |-> loaded.entries]
                  ELSE NoSession]

LEMMA ViewReads ==
  ASSUME NEW F, \A s \in Sessions : Proper(F[s])
  PROVE  Seen(F) = [s \in Sessions |-> Loaded(Parsed(F[s]))]
  <1>1. ASSUME NEW s \in Sessions
        PROVE  (IF Load(F[s]).ok THEN [header |-> Load(F[s]).header, entries |-> Load(F[s]).entries]
                ELSE NoSession) = Loaded(Parsed(F[s]))
    BY ProperReads
  <1> QED BY <1>1 DEF Seen

LEMMA ViewIsSeen == View = Seen(files) /\ View' = Seen(files')
  <1>1. View = Seen(files)
    BY DEF View, Seen
  <1>2. View' = Seen(files')
    BY DEF View, Seen
  <1> QED BY <1>1, <1>2

\* What the only writer is about to write to session s.
NewHeader(w, s) == /\ files[s] = EmptyFile /\ op[w].step = "text"
                   /\ op[w].content = <<Header(s, NoSession)>>
NewEntry(w, s)  == /\ Load(files[s]).ok /\ op[w].step = "text"
                   /\ \E e \in Entries : op[w].content = <<Entry(e)>>
NewFork(w, s)   == /\ files[s] = EmptyFile /\ op[w].step = "content"
                   /\ \E from \in Sessions :
                        /\ Load(files[from]).ok
                        /\ \E copied \in Contract!EntriesUpTo(Load(files[from]).entries) :
                             op[w].content = <<Header(s, Load(files[from]).header.id)>> \o copied

\* The inductive invariant of the one writer w.
Solo(w) ==
  /\ \A s \in Sessions : Proper(files[s])
  /\ \A s \in Sessions :
       files[s].tail = IF op[w].step = "newline" /\ op[w].session = s
                         THEN op[w].content ELSE <<>>
  /\ \A s \in Sessions : files[s].exists /\ ~Pending(w, s) => Load(files[s]).ok
  /\ \A s \in Sessions : Pending(w, s) => NewHeader(w, s) \/ NewEntry(w, s) \/ NewFork(w, s)

\* To open a file is not visible.
LEMMA OpensUnseen ==
  ASSUME FileInv, NEW w \in Writers, Solo(w), op[w] = Idle, NEW s \in Sessions,
         ~files[s].exists, files' = [files EXCEPT ![s] = EmptyFile],
         NEW o, op' = [op EXCEPT ![w] = o], o.session = s, o.step \in {"text", "content"},
         NewHeader(w, s)' \/ NewFork(w, s)'
  PROVE  Solo(w)' /\ View' = View
  <1>1. files \in [Sessions -> File] /\ op'[w] = o /\ files[s] = NoFile
    BY DEF FileInv, TypeOK, FilesFit, File
  <1>2. files'[s] = EmptyFile /\ \A t \in Sessions : t # s => files'[t] = files[t]
    BY <1>1
  <1>3. /\ Proper(EmptyFile) /\ EmptyFile.tail = <<>>
        /\ Loaded(Parsed(EmptyFile)) = NoSession /\ Loaded(Parsed(NoFile)) = NoSession
    BY EmptyReads
  <1>4. Idle.step = "idle"
    BY DEF Idle
  <1>5. /\ \A t \in Sessions : Proper(files[t]) /\ files[t].tail = <<>>
        /\ \A t \in Sessions : files[t].exists => Load(files[t]).ok
    BY <1>4 DEF Solo, Pending
  <1>6. \A t \in Sessions : Proper(files'[t]) /\ files'[t].tail = <<>>
    BY <1>2, <1>3, <1>5
  <1>7. \A t \in Sessions : Pending(w, t)' <=> t = s
    BY <1>1 DEF Pending
  <1>8. Solo(w)'
    <2>1. \A t \in Sessions : files'[t].exists /\ ~Pending(w, t)' => Load(files'[t]).ok
      BY <1>2, <1>5, <1>7
    <2>2. op'[w].step # "newline"
      BY <1>1
    <2>4. \A t \in Sessions : Pending(w, t)' =>
            NewHeader(w, t)' \/ NewEntry(w, t)' \/ NewFork(w, t)'
      BY <1>7
    <2> QED BY <1>6, <2>1, <2>2, <2>4 DEF Solo, Proper
  <1>9. View' = View
    <2>1. View = [t \in Sessions |-> Loaded(Parsed(files[t]))]
      BY <1>5, ViewReads, ViewIsSeen
    <2>2. View' = [t \in Sessions |-> Loaded(Parsed(files'[t]))]
      <3> DEFINE F == files'
      <3> HIDE DEF F
      <3>1. \A t \in Sessions : Proper(F[t])
        BY <1>6 DEF F
      <3>2. Seen(F) = [t \in Sessions |-> Loaded(Parsed(F[t]))]
        BY <3>1, ViewReads, Zenon
      <3> QED BY <3>2, ViewIsSeen DEF F
    <2>3. \A t \in Sessions : Loaded(Parsed(files'[t])) = Loaded(Parsed(files[t]))
      BY <1>1, <1>2, <1>3
    <2> QED BY <2>1, <2>2, <2>3
  <1> QED BY <1>8, <1>9

LEMMA SoloViews ==
  ASSUME NEW w \in Writers, Solo(w)
  PROVE  View = [t \in Sessions |-> Loaded(Parsed(files[t]))]
  <1>1. \A t \in Sessions : Proper(files[t])
    BY DEF Solo
  <1> QED BY <1>1, ViewReads, ViewIsSeen

\* A write that leaves a session to load changes the view of it only.
Shows(w, s, g, o) ==
  /\ op[w].step # "idle" /\ op[w].session = s
  /\ files' = [files EXCEPT ![s] = g] /\ op' = [op EXCEPT ![w] = o]
  /\ Proper(g) /\ Loaded(Parsed(g)) # NoSession
  /\ \/ o = Idle /\ g.tail = <<>>
     \/ o = [op[w] EXCEPT !.step = "newline"] /\ g.tail = op[w].content

LEMMA WriteSeen ==
  ASSUME FileInv, NEW w \in Writers, Solo(w), NEW s \in Sessions, NEW g, NEW o,
         Shows(w, s, g, o)
  PROVE  /\ Solo(w)'
         /\ View[s] = Loaded(Parsed(files[s]))
         /\ View' = [View EXCEPT ![s] = Loaded(Parsed(g))]
  <1>s. /\ op[w].step # "idle" /\ op[w].session = s
        /\ files' = [files EXCEPT ![s] = g] /\ op' = [op EXCEPT ![w] = o]
        /\ Proper(g) /\ Loaded(Parsed(g)) # NoSession
    BY DEF Shows
  <1>o. \/ o = Idle /\ g.tail = <<>>
        \/ o = [op[w] EXCEPT !.step = "newline"] /\ g.tail = op[w].content
    BY DEF Shows
  <1>1. files \in [Sessions -> File] /\ op'[w] = o
    BY <1>s DEF FileInv, TypeOK, File
  <1>2. files'[s] = g /\ \A t \in Sessions : t # s => files'[t] = files[t]
    BY <1>1, <1>s
  <1>3. o.step = "idle" \/ (o.step = "newline" /\ o.session = s /\ o.content = op[w].content)
    <2>1. CASE o = Idle
      BY <2>1 DEF Idle
    <2>2. CASE o = [op[w] EXCEPT !.step = "newline"]
      <3>1. op[w] \in [step : {"idle", "text", "newline", "content"},
                       session : Sessions \cup {NoSession}, content : Seq(Text)]
        BY DEF FileInv, TypeOK
      <3> QED BY <1>s, <2>2, <3>1
    <2> QED BY <1>o, <2>1, <2>2
  <1>4. \A t \in Sessions : Proper(files'[t])
    BY <1>2, <1>s DEF Solo
  <1>5. \A t \in Sessions : t # s => files[t].tail = <<>>
    BY <1>s DEF Solo
  <1>6. g.tail = IF o.step = "newline" THEN op[w].content ELSE <<>>
    <2>1. CASE o = Idle /\ g.tail = <<>>
      BY <2>1 DEF Idle
    <2>2. CASE o = [op[w] EXCEPT !.step = "newline"] /\ g.tail = op[w].content
      <3>1. op[w] \in [step : {"idle", "text", "newline", "content"},
                       session : Sessions \cup {NoSession}, content : Seq(Text)]
        BY DEF FileInv, TypeOK
      <3> QED BY <2>2, <3>1
    <2> QED BY <1>o, <2>1, <2>2
  <1>7. Load(g).ok
    BY <1>s, ProperReads
  <1>8. \A t \in Sessions : t # s /\ files[t].exists => Load(files[t]).ok
    BY <1>s DEF Solo, Pending
  <1>9. \A t \in Sessions : ~Pending(w, t)'
    BY <1>1, <1>3 DEF Pending
  <1>10. Solo(w)'
    <2>1. \A t \in Sessions :
            files'[t].tail = IF op'[w].step = "newline" /\ op'[w].session = t
                               THEN op'[w].content ELSE <<>>
      BY <1>1, <1>2, <1>3, <1>5, <1>6
    <2>2. \A t \in Sessions : files'[t].exists /\ ~Pending(w, t)' => Load(files'[t]).ok
      BY <1>2, <1>7, <1>8
    <2> QED BY <1>4, <1>9, <2>1, <2>2 DEF Solo
  <1>11. View = [t \in Sessions |-> Loaded(Parsed(files[t]))]
    BY SoloViews
  <1>12. View' = [t \in Sessions |-> Loaded(Parsed(files'[t]))]
    <2> DEFINE F == files'
    <2> HIDE DEF F
    <2>1. \A t \in Sessions : Proper(F[t])
      BY <1>4 DEF F
    <2>2. Seen(F) = [t \in Sessions |-> Loaded(Parsed(F[t]))]
      BY <2>1, ViewReads, Zenon
    <2> QED BY <2>2, ViewIsSeen DEF F
  <1>13. View' = [View EXCEPT ![s] = Loaded(Parsed(g))]
    <2>1. [View EXCEPT ![s] = Loaded(Parsed(g))]
            = [t \in Sessions |-> IF t = s THEN Loaded(Parsed(g)) ELSE View[t]]
      BY <1>11
    <2>2. \A t \in Sessions : Loaded(Parsed(files'[t]))
                              = IF t = s THEN Loaded(Parsed(g)) ELSE View[t]
      BY <1>2, <1>11
    <2> QED BY <1>12, <2>1, <2>2
  <1> QED BY <1>10, <1>11, <1>13

LEMMA SoloCreate ==
  ASSUME FileInv, NEW w \in Writers, Solo(w), NEW s \in Sessions, Create(w, s)
  PROVE  Solo(w)' /\ View' = View
  <1> DEFINE o == [step |-> "text", session |-> s, content |-> <<Header(s, NoSession)>>]
  <1>1. /\ op[w] = Idle /\ op' = [op EXCEPT ![w] = o]
        /\ ~files[s].exists /\ files' = [files EXCEPT ![s] = EmptyFile]
    BY DEF Create, Begin
  <1>2. op'[w] = o /\ files'[s] = EmptyFile
    BY <1>1 DEF FileInv, TypeOK
  <1>3. NewHeader(w, s)'
    BY <1>2 DEF NewHeader, EmptyFile, NoFile, Header
  <1>4. o.session = s /\ o.step \in {"text", "content"}
    OBVIOUS
  <1> HIDE DEF o
  <1> QED BY <1>1, <1>3, <1>4, OpensUnseen

LEMMA SoloFork ==
  ASSUME FileInv, NEW w \in Writers, Solo(w), NEW s \in Sessions, NEW from \in Sessions,
         Fork(w, from, s)
  PROVE  Solo(w)' /\ View' = View
  <1> DEFINE h == Header(s, Load(files[from]).header.id)
  <1>1. PICK copied \in Contract!EntriesUpTo(Load(files[from]).entries) :
          Begin(w, "content", s, <<h>> \o copied)
    BY DEF Fork
  <1> DEFINE o == [step |-> "content", session |-> s, content |-> <<h>> \o copied]
  <1>2. /\ op[w] = Idle /\ op' = [op EXCEPT ![w] = o]
        /\ ~files[s].exists /\ files' = [files EXCEPT ![s] = EmptyFile]
        /\ files[from].exists /\ Load(files[from]).ok
    BY <1>1 DEF Fork, Begin
  <1>3. op'[w] = o /\ files'[s] = EmptyFile /\ files'[from] = files[from]
    BY <1>2 DEF FileInv, TypeOK
  <1>4. NewFork(w, s)'
    <2>1. op'[w].step = "content" /\ op'[w].content = <<h>> \o copied
      BY <1>3
    <2> QED BY <1>2, <1>3, <2>1 DEF NewFork
  <1>5. o.session = s /\ o.step \in {"text", "content"}
    OBVIOUS
  <1> HIDE DEF o
  <1> QED BY <1>2, <1>4, <1>5, OpensUnseen

LEMMA SoloAppend ==
  ASSUME FileInv, NEW w \in Writers, Solo(w), NEW s \in Sessions, AppendEntry(w, s)
  PROVE  Solo(w)' /\ View' = View
  <1> DEFINE o == [step |-> "text", session |-> s, content |-> <<Entry(nextEntry)>>]
  <1>1. /\ op[w] = Idle /\ op' = [op EXCEPT ![w] = o] /\ files' = files /\ files[s].exists
        /\ nextEntry \in Entries
    BY StoreAssumption DEF AppendEntry, Begin, FileInv, TypeOK, Entries
  <1>2. op'[w] = o
    BY <1>1 DEF FileInv, TypeOK
  <1>3. Idle.step = "idle"
    BY DEF Idle
  <1>4. /\ \A t \in Sessions : Proper(files[t]) /\ files[t].tail = <<>>
        /\ \A t \in Sessions : files[t].exists => Load(files[t]).ok
    BY <1>1, <1>3 DEF Solo, Pending
  <1>5. \A t \in Sessions : Pending(w, t)' <=> t = s
    BY <1>2 DEF Pending
  <1>6. NewEntry(w, s)'
    <2>1. op'[w].step = "text" /\ op'[w].content = <<Entry(nextEntry)>>
      BY <1>2
    <2>2. \E e \in Entries : op'[w].content = <<Entry(e)>>
      BY <1>1, <2>1
    <2> QED BY <1>1, <1>4, <2>1, <2>2 DEF NewEntry, Entry
  <1>7. op'[w].step # "newline"
    BY <1>2
  <1>8. Solo(w)'
    BY <1>1, <1>4, <1>5, <1>6, <1>7 DEF Solo
  <1>9. View' = View
    BY <1>1, ViewIsSeen
  <1> QED BY <1>8, <1>9

\* The text of a header creates the session, the text of an entry appends it.
LEMMA SoloWriteText ==
  ASSUME FileInv, NEW w \in Writers, Solo(w), WriteText(w)
  PROVE  Solo(w)' /\ Contract!Next
  <1> DEFINE s == op[w].session  f == files[s]  c == op[w].content  x == op[w].content[1]
             g == [f EXCEPT !.tail = <<x>>]  o == [op[w] EXCEPT !.step = "newline"]
  <1>1. op[w].step = "text" /\ op' = [op EXCEPT ![w] = o]
    BY DEF WriteText
  <1>2. /\ s \in Sessions /\ f \in File /\ c \in Seq(Text) /\ Len(c) = 1 /\ c # <<>>
        /\ Pending(w, s) /\ x # Torn
    <2>1. s \in Sessions /\ f \in File /\ c \in Seq(Text) /\ c # <<>>
      BY <1>1, OpParts
    <2>2. Len(c) = 1 /\ (\A j \in DOMAIN c : c[j] # Torn) /\ Pending(w, s)
      BY <1>1 DEF FileInv, OpsFit, Pending
    <2>3. 1 \in DOMAIN c
      BY <2>1, <2>2
    <2> QED BY <2>1, <2>2, <2>3
  <1>3. c = <<x>> /\ x \in Text
    <2> HIDE DEF c
    <2>1. c = <<c[1]>> /\ c[1] \in Text
      BY <1>2
    <2> QED BY <2>1 DEF c
  <1>4. Proper(f) /\ f.tail = <<>>
    BY <1>1, <1>2 DEF Solo
  <1>5. files' = [files EXCEPT ![s] = g]
    <2>1. files' = [files EXCEPT ![s] = [f EXCEPT !.tail = f.tail \o c]]
      BY DEF WriteText
    <2> HIDE DEF c, f
    <2>2. f.tail \o c = <<x>>
      BY <1>2, <1>3, <1>4
    <2> QED BY <2>1, <2>2
  <1>6. Proper(g) /\ g.tail = <<x>> /\ Parsed(g) = Append(Parsed(f), x)
    <2> DEFINE y == x
    <2> HIDE DEF f, x
    <2> QED BY <1>2, <1>3, <1>4, TextRead
  <1>7. Parsed(f) \in Seq(Text)
    BY <1>2, ReadParts
  <1> HIDE DEF g, o
  <1>8. ASSUME Loaded(Parsed(g)) # NoSession
        PROVE  /\ Solo(w)' /\ View[s] = Loaded(Parsed(f))
               /\ View' = [View EXCEPT ![s] = Loaded(Parsed(g))]
    <2>1. g.tail = op[w].content
      BY <1>3, <1>6
    <2>2. Shows(w, s, g, o)
      BY <1>1, <1>5, <1>6, <1>8, <2>1 DEF o, Shows
    <2> QED BY <1>1, <1>2, <2>2, WriteSeen
  <1>9. CASE NewHeader(w, s)
    <2>1. f = EmptyFile /\ x = Header(s, NoSession)
      BY <1>9 DEF NewHeader
    <2>2. Parsed(f) = <<>> /\ Loaded(Parsed(f)) = NoSession
      BY <2>1, EmptyReads
    <2>3. Parsed(g) = <<x>> /\ <<>> \in Seq(Text) /\ <<x>> \o <<>> = <<x>>
      <3> HIDE DEF x
      <3>1. Append(<<>>, x) = <<x>> /\ <<x>> \o <<>> = <<x>>
        BY <1>3
      <3> QED BY <1>6, <2>2, <3>1
    <2>4. x.kind = "session"
      BY <2>1 DEF Header
    <2>5. Loaded(Parsed(g)) = [header |-> x, entries |-> <<>>] /\ Loaded(Parsed(g)) # NoSession
      BY <1>3, <2>3, <2>4, LoadedFirst
    <2>6. Contract!Create(s)
      BY <1>8, <2>1, <2>2, <2>5 DEF Contract!Create, Contract!Record, Contract!Header, Header
    <2> QED BY <1>2, <1>8, <2>5, <2>6 DEF Contract!Next
  <1>10. CASE NewEntry(w, s)
    <2>1. PICK e \in Entries : x = Entry(e)
      BY <1>10 DEF NewEntry
    <2>2. Loaded(Parsed(f)) # NoSession
      BY <1>4, <1>10, ProperReads DEF NewEntry
    <2>3. /\ Loaded(Parsed(g)) = [Loaded(Parsed(f)) EXCEPT !.entries = Append(@, x)]
          /\ Loaded(Parsed(g)) # NoSession
      BY <1>3, <1>6, <1>7, <2>2, LoadedAppend
    <2>4. View' = [View EXCEPT ![s].entries = Append(@, Entry(e))]
      <3>1. View' = [View EXCEPT ![s] = [View[s] EXCEPT !.entries = Append(View[s].entries, x)]]
        BY <1>8, <2>3
      <3> QED BY <2>1, <3>1
    <2>5. Contract!AppendEntry(s, e)
      BY <1>8, <2>2, <2>3, <2>4 DEF Contract!AppendEntry, Contract!Entry, Entry
    <2> QED BY <1>2, <1>8, <2>3, <2>5 DEF Contract!Next
  <1>11. ~NewFork(w, s)
    BY <1>1 DEF NewFork
  <1> QED BY <1>2, <1>9, <1>10, <1>11 DEF Solo

LEMMA SoloWriteNewline ==
  ASSUME FileInv, NEW w \in Writers, Solo(w), WriteNewline(w)
  PROVE  Solo(w)' /\ View' = View
  <1> DEFINE s == op[w].session  f == files[s]  c == op[w].content  x == op[w].content[1]
             g == [f EXCEPT !.closed = Append(f.closed, f.tail), !.tail = <<>>]
  <1>1. op[w].step = "newline" /\ op' = [op EXCEPT ![w] = Idle]
    BY DEF WriteNewline, Ack
  <1>2. /\ s \in Sessions /\ f \in File /\ f.exists /\ c \in Seq(Text) /\ Len(c) = 1
        /\ c # <<>> /\ x # Torn
    <2>1. s \in Sessions /\ f \in File /\ f.exists /\ c \in Seq(Text) /\ c # <<>>
      BY <1>1, OpParts
    <2>2. Len(c) = 1 /\ (\A j \in DOMAIN c : c[j] # Torn)
      BY <1>1 DEF FileInv, OpsFit
    <2>3. 1 \in DOMAIN c
      BY <2>1, <2>2
    <2> QED BY <2>1, <2>2, <2>3
  <1>3. c = <<x>> /\ x \in Text
    <2> HIDE DEF c
    <2>1. c = <<c[1]>> /\ c[1] \in Text
      BY <1>2
    <2> QED BY <2>1 DEF c
  <1>4. Proper(f) /\ f.tail = <<x>> /\ Load(f).ok
    <2>1. f.tail = c /\ Proper(f)
      BY <1>1, <1>2 DEF Solo
    <2>2. ~Pending(w, s)
      BY <1>1 DEF Pending
    <2> QED BY <1>2, <1>3, <2>1, <2>2 DEF Solo
  <1>5. files' = [files EXCEPT ![s] = g]
    BY DEF WriteNewline
  <1>6. Proper(g) /\ g.tail = <<>> /\ Parsed(g) = Parsed(f)
    <2> HIDE DEF f, x
    <2> QED BY <1>2, <1>3, <1>4, NewlineRead
  <1>7. Loaded(Parsed(g)) # NoSession
    BY <1>4, <1>6, ProperReads
  <1> HIDE DEF g
  <1>8. /\ Solo(w)' /\ View[s] = Loaded(Parsed(f))
        /\ View' = [View EXCEPT ![s] = Loaded(Parsed(g))]
    <2> DEFINE o == Idle  r == s
    <2>1. op[w].session = r /\ r \in Sessions /\ op[w].step # "idle"
      BY <1>1, <1>2
    <2>2. files' = [files EXCEPT ![r] = g]
      BY <1>5
    <2> HIDE DEF o, r
    <2>3. op' = [op EXCEPT ![w] = o]
      BY <1>1 DEF o
    <2>4. o = Idle /\ g.tail = <<>>
      BY <1>6 DEF o
    <2>5. Proper(g) /\ Loaded(Parsed(g)) # NoSession
      BY <1>6, <1>7
    <2>6. /\ Solo(w)' /\ View[r] = Loaded(Parsed(files[r]))
          /\ View' = [View EXCEPT ![r] = Loaded(Parsed(g))]
      <3>1. Shows(w, r, g, o)
        BY <2>1, <2>2, <2>3, <2>4, <2>5 DEF Shows
      <3> QED BY <2>1, <3>1, WriteSeen
    <2> QED BY <2>6 DEF r
  <1>9. View = [t \in Sessions |-> Loaded(Parsed(files[t]))]
    BY SoloViews
  <1>10. [View EXCEPT ![s] = View[s]] = View
    BY <1>9
  <1> QED BY <1>6, <1>8, <1>10

\* The content of a fork creates the session with all of its entries.
LEMMA SoloWriteContent ==
  ASSUME FileInv, NEW w \in Writers, Solo(w), WriteContent(w)
  PROVE  Solo(w)' /\ Contract!Next
  <1> DEFINE s == op[w].session  c == op[w].content
             g == Extended(EmptyFile, AsLines(c, Len(c)), <<>>)
  <1>1. op[w].step = "content" /\ op' = [op EXCEPT ![w] = Idle]
    BY DEF WriteContent, Ack
  <1>2. /\ s \in Sessions /\ c \in Seq(Text) /\ c # <<>> /\ Pending(w, s)
        /\ \A j \in DOMAIN c : c[j] # Torn
    <2>1. s \in Sessions /\ c \in Seq(Text) /\ c # <<>>
      BY <1>1, OpParts
    <2>2. (\A j \in DOMAIN c : c[j] # Torn) /\ Pending(w, s)
      BY <1>1 DEF FileInv, OpsFit, Pending
    <2> QED BY <2>1, <2>2
  <1>3. NewFork(w, s)
    BY <1>1, <1>2 DEF Solo, NewHeader, NewEntry
  <1>4. files[s] = EmptyFile
    BY <1>3 DEF NewFork
  <1>a. PICK from \in Sessions :
          /\ Load(files[from]).ok
          /\ \E copied \in Contract!EntriesUpTo(Load(files[from]).entries) :
               c = <<Header(s, Load(files[from]).header.id)>> \o copied
    BY <1>3 DEF NewFork
  <1>5. PICK copied \in Contract!EntriesUpTo(Load(files[from]).entries) :
          /\ Load(files[from]).ok
          /\ c = <<Header(s, Load(files[from]).header.id)>> \o copied
    BY <1>a
  <1> DEFINE h == Header(s, Load(files[from]).header.id)
  <1>6. files' = [files EXCEPT ![s] = g]
    BY <1>4 DEF WriteContent
  <1>7. Proper(g) /\ g.tail = <<>> /\ Parsed(g) = c
    <2> HIDE DEF c
    <2> QED BY <1>2, ContentRead
  <1> HIDE DEF g
  <1>8. files[from] \in File /\ Once(files[from]) /\ Proper(files[from])
    BY DEF FileInv, TypeOK, FilesOnce, File, Solo
  <1>9. /\ Load(files[from]).entries \in Seq(Text)
        /\ Load(files[from]).header \in Text /\ Load(files[from]).header.kind = "session"
    BY <1>5, <1>8, LogParts
  <1>10. h \in Text /\ h.kind = "session"
    <2>1. \A t \in Text : t.kind = "session" => t.id \in Sessions
      BY DEF Text, Torn
    <2>2. Load(files[from]).header.id \in Sessions
      BY <1>9, <2>1
    <2> QED BY <1>2, <2>2 DEF Header, Text
  <1>11. copied \in Seq(Text)
    BY <1>9, EntriesParts
  <1>12. Loaded(Parsed(g)) = [header |-> h, entries |-> copied] /\ Loaded(Parsed(g)) # NoSession
    <2> HIDE DEF h
    <2>1. /\ Loaded(<<h>> \o copied) = [header |-> h, entries |-> copied]
          /\ Loaded(<<h>> \o copied) # NoSession
      BY <1>10, <1>11, LoadedFirst
    <2>2. c = <<h>> \o copied
      BY <1>5 DEF h
    <2> QED BY <1>7, <2>1, <2>2
  <1>13. /\ Solo(w)' /\ View[s] = Loaded(Parsed(files[s]))
         /\ View' = [View EXCEPT ![s] = Loaded(Parsed(g))]
    <2> DEFINE o == Idle  r == s
    <2>1. op[w].session = r /\ r \in Sessions /\ op[w].step # "idle"
      BY <1>1, <1>2
    <2>2. files' = [files EXCEPT ![r] = g]
      BY <1>6
    <2> HIDE DEF o, r
    <2>3. op' = [op EXCEPT ![w] = o]
      BY <1>1 DEF o
    <2>4. o = Idle /\ g.tail = <<>>
      BY <1>7 DEF o
    <2>5. Proper(g) /\ Loaded(Parsed(g)) # NoSession
      BY <1>7, <1>12
    <2>6. /\ Solo(w)' /\ View[r] = Loaded(Parsed(files[r]))
          /\ View' = [View EXCEPT ![r] = Loaded(Parsed(g))]
      <3>1. Shows(w, r, g, o)
        BY <2>1, <2>2, <2>3, <2>4, <2>5 DEF Shows
      <3> QED BY <2>1, <3>1, WriteSeen
    <2> QED BY <2>6 DEF r
  <1>14. View[s] = NoSession
    BY <1>4, <1>13, EmptyReads
  <1>15. View[from] = [header |-> Load(files[from]).header, entries |-> Load(files[from]).entries]
         /\ View[from] # NoSession
    <2>1. View[from] = Loaded(Parsed(files[from]))
      BY SoloViews
    <2> QED BY <1>5, <1>8, <2>1, ProperReads
  <1>16. Contract!Fork(from, s)
    <2>1. View[from].header.id = Load(files[from]).header.id /\ View[from].entries = Load(files[from]).entries
      BY <1>15
    <2>2. View' = [View EXCEPT ![s] = Contract!Record(Contract!Header(s, View[from].header.id), copied)]
      BY <1>12, <1>13, <2>1 DEF Contract!Record, Contract!Header, Header
    <2>3. copied \in Contract!EntriesUpTo(View[from].entries)
      BY <2>1
    <2> QED BY <1>14, <1>15, <2>2, <2>3 DEF Contract!Fork
  <1> QED BY <1>2, <1>13, <1>16 DEF Contract!Next

LEMMA SoloInit ==
  ASSUME NEW w \in Writers, Init
  PROVE  Solo(w) /\ Contract!Init
  <1>1. /\ files = [s \in Sessions |-> NoFile] /\ op[w] = Idle /\ Idle.step = "idle"
    BY DEF Init, Idle
  <1>2. /\ Proper(NoFile) /\ NoFile.tail = <<>> /\ Loaded(Parsed(NoFile)) = NoSession
        /\ NoFile.exists = FALSE
    BY EmptyReads DEF NoFile
  <1>3. Solo(w)
    BY <1>1, <1>2 DEF Solo, Pending
  <1>4. View = [s \in Sessions |-> NoSession]
    BY <1>1, <1>2, <1>3, SoloViews
  <1> QED BY <1>3, <1>4 DEF Contract!Init

LEMMA SoloStep ==
  ASSUME FileInv, NEW w, Writers = {w}, Interrupts = FALSE, Solo(w), [Next]_vars
  PROVE  Solo(w)' /\ (Contract!Next \/ View' = View)
  <1>1. w \in Writers /\ \A v \in Writers : v = w
    OBVIOUS
  <1>2. CASE UNCHANGED vars
    <2>1. files' = files /\ op' = op
      BY <1>2 DEF vars
    <2>2. \A t \in Sessions : Pending(w, t)' <=> Pending(w, t)
      BY <2>1 DEF Pending
    <2>3. \A t \in Sessions : NewHeader(w, t) => NewHeader(w, t)'
      BY <2>1 DEF NewHeader
    <2>4. \A t \in Sessions : NewEntry(w, t) => NewEntry(w, t)'
      BY <2>1 DEF NewEntry
    <2>5. \A t \in Sessions : NewFork(w, t) => NewFork(w, t)'
      BY <2>1 DEF NewFork
    <2>6. Solo(w)'
      BY <2>1, <2>2, <2>3, <2>4, <2>5 DEF Solo
    <2> QED BY <2>1, <2>6, ViewIsSeen
  <1>3. ASSUME NEW s \in Sessions, Create(w, s) PROVE Solo(w)' /\ View' = View
    BY <1>1, <1>3, SoloCreate
  <1>4. ASSUME NEW s \in Sessions, AppendEntry(w, s) PROVE Solo(w)' /\ View' = View
    BY <1>1, <1>4, SoloAppend
  <1>5. ASSUME NEW s \in Sessions, NEW from \in Sessions, Fork(w, from, s)
        PROVE  Solo(w)' /\ View' = View
    BY <1>1, <1>5, SoloFork
  <1>6. ASSUME WriteText(w) PROVE Solo(w)' /\ Contract!Next
    BY <1>1, <1>6, SoloWriteText
  <1>7. ASSUME WriteNewline(w) PROVE Solo(w)' /\ View' = View
    BY <1>1, <1>7, SoloWriteNewline
  <1>8. ASSUME WriteContent(w) PROVE Solo(w)' /\ Contract!Next
    BY <1>1, <1>8, SoloWriteContent
  <1>9. ~Interrupt(w)
    BY DEF Interrupt
  <1> QED BY <1>1, <1>2, <1>3, <1>4, <1>5, <1>6, <1>7, <1>8, <1>9 DEF Next

\* With one writer that is never interrupted the file store implements the
\* contract of the trait, for any number of sessions and entries: a session is
\* created, appended to or forked in one step, when its text is written, and
\* opening a file or ending a line changes nothing that a load can see.
THEOREM OneWriterImplements ==
  ASSUME NEW w, Writers = {w}, Interrupts = FALSE
  PROVE  Spec => ImplementsContract
  <1>1. w \in Writers
    OBVIOUS
  <1>2. Init => FileInv /\ Solo(w) /\ Contract!Init
    BY <1>1, FileInit, SoloInit
  <1>3. FileInv /\ Solo(w) /\ [Next]_vars => FileInv' /\ Solo(w)'
    BY FileStep, SoloStep
  <1>4. FileInv /\ Solo(w) /\ [Next]_vars => [Contract!Next]_View
    BY SoloStep
  <1>5. Spec => Contract!Init /\ [][Contract!Next]_View
    BY <1>2, <1>3, <1>4, PTL DEF Spec
  <1> QED BY <1>5 DEF ImplementsContract, Contract!Spec
=============================================================================
