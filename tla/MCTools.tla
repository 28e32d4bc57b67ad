------------------------------- MODULE MCTools -------------------------------
(***************************************************************************)
(* What a turn of the coding agent calls out to, for model checking.  A    *)
(* behaviour is about one subject:                                         *)
(*   "subprocess"  the calls into a subprocess extension;                  *)
(*   "extensions"  a session's extension chain and its hooks;              *)
(*   "files"       the edit and write tools on one file;                   *)
(*   "bash"        one bash command;                                       *)
(*   "streams"     a request to a model, or a response and its stream.      *)
(* All but the first keep their state in the slots.                        *)
(***************************************************************************)
EXTENDS SubprocessExtension

CONSTANTS
  Subjects,
  Extensions, Values, MaxRounds, MaxSends,       \* "extensions"
  Tasks, Spellings,                              \* "files"
  PipeSize, MaxWrites, MaxBytes,                 \* "bash"
  StreamSubjects, Types, Reasons, Ids, MaxBlocks, MaxPieces, ProxyBlocks,
  MaxChunk, MaxRetries, MaxMessages              \* "streams"

ASSUME ToolsAssumption ==
  /\ {"guard", "rewriter"} \subseteq Extensions
  /\ MaxBytes \in Nat
  /\ MaxPieces \in Nat

VARIABLES
  subject,
  slot1, slot2, slot3, slot4, slot5, slot6, slot7, slot8, slot9, slot10, slot11

slots1_4  == <<slot1, slot2, slot3, slot4>>
slots5_7  == <<slot5, slot6, slot7>>
slots8_9  == <<slot8, slot9>>
slots10_11 == <<slot10, slot11>>
slots == <<slots1_4, slots5_7, slots8_9, slots10_11>>
bashVars == <<slots1_4, slots5_7, slots8_9>>
modelVars == <<slot4, slot6, slot3, slot5, slot7, slot8, slot9, slot10>>

-----------------------------------------------------------------------------
(* The subjects *)

AtStart == <<"guard", "rewriter">>
Subscribers == [user |-> {"guard", "rewriter"}, end |-> {"rewriter", "late"}]

Chain == INSTANCE ExtensionChain WITH
  chain <- slot1, loaded <- slot2, errors <- slot3, setup <- slot4, task <- slot5,
  seen <- slot6, sends <- slot7

Bash == INSTANCE BashExecutor WITH
  proc <- slot1, pipe <- slot2, forwarder <- slot3, chan <- slot4, at <- slot5,
  result <- slot6, timed <- slot7, ends <- slot8, wrote <- slot9

Streams == INSTANCE MCStreams WITH
  Subjects <- StreamSubjects, subject <- slot11, sent <- slot1, pieces <- slot2,
  output <- slot3, phase <- slot4, terminals <- slot5, emitted <- slot6,
  own1 <- slot7, own2 <- slot8, own3 <- slot9, own4 <- slot10
Model == INSTANCE ModelStream WITH
  token <- slot7, caller <- slot8, wrapper <- slot9, attempt <- slot10,
  inner <- slot4, event <- slot6, transcript <- slot3, brackets <- slot5

\* The Gemini adapter makes an id of a call's name and a counter, and does not
\* look whether a call of the server has it: the server gives no such id.
MadeId(n) == Streams!Google!ToString(n)
ASSUME MadeIdsAreNew ==
  \A m, n \in 0..MaxPieces : MadeId(m) \notin Ids /\ (m # n => MadeId(m) # MadeId(n))

\* Texts with repeated and overlapping matches, both kinds of line ends, a byte
\* order mark and characters that only match when folded.
Starts ==
  {<<>>, <<"a", "b">>, <<"a", "a", "a">>, <<"a", "cr", "lf", "b">>,
   <<"a", "lf", "b">>, <<"a", "lf", "cr", "lf">>, <<"smart", "a", "plain">>,
   <<"bom", "a", "b">>, <<"a", "b", "a", "smart">>}
Olds ==
  {<<>>, <<"a">>, <<"b">>, <<"a", "b">>, <<"b", "a">>, <<"a", "a">>, <<"a", "lf">>,
   <<"a", "cr", "lf">>, <<"plain">>, <<"smart", "a">>}
News == {<<>>, <<"x">>, <<"x", "lf">>, <<"b", "smart">>}

Single  == [tool : {"edit"}, edits : {<<e>> : e \in [old : Olds, new : News]}, all : BOOLEAN]
Batches == [tool : {"multi"}, edits : {<<[old |-> a, new |-> n], [old |-> b, new |-> <<"y">>]>> :
                                         a \in Olds, b \in Olds, n \in News}]
Others  == [tool : {"write"}, text : {<<"w">>}] \cup
           {[tool |-> "edit", edits |-> <<[old |-> <<"a">>, new |-> <<"a", "c">>]>>, all |-> TRUE]}
Ops == [t \in Tasks |-> IF t = "t1" THEN Single \cup Batches \cup Others ELSE Others]

Files == INSTANCE FileTools WITH
  file <- slot1, task <- slot2, queue <- slot3, old <- slot4

-----------------------------------------------------------------------------
Off == "not used"

Off5_7   == slot5 = Off /\ slot6 = Off /\ slot7 = Off
Off8_9   == slot8 = Off /\ slot9 = Off
Off10_11 == slot10 = Off /\ slot11 = Off

MCInit ==
  /\ subject \in Subjects
  /\ Init
  /\ \/ /\ subject = "subprocess" /\ Off5_7 /\ Off8_9 /\ Off10_11
        /\ slot1 = Off /\ slot2 = Off /\ slot3 = Off /\ slot4 = Off
     \/ subject = "extensions" /\ Chain!Init /\ Off8_9 /\ Off10_11
     \/ subject = "files" /\ Files!Init /\ Off5_7 /\ Off8_9 /\ Off10_11
     \/ subject = "bash" /\ Bash!Init /\ Off10_11
     \/ subject = "streams" /\ Streams!Init

SubprocessStep == subject = "subprocess" /\ Next /\ UNCHANGED <<subject, slots>>
ChainStep  == subject = "extensions" /\ Chain!Next /\ UNCHANGED <<subject, vars, slots8_9, slots10_11>>
FilesStep  == subject = "files" /\ Files!Next
                /\ UNCHANGED <<subject, vars, slots5_7, slots8_9, slots10_11>>
BashStep   == subject = "bash" /\ Bash!Next /\ UNCHANGED <<subject, vars, slots10_11>>
StreamsStep == subject = "streams" /\ Streams!Next /\ UNCHANGED <<subject, vars>>

MCNext == SubprocessStep \/ ChainStep \/ FilesStep \/ BashStep \/ StreamsStep

OfModel == subject = "streams" /\ slot11 = "model"

\* Tasks are polled, timers fire, and the processes of a command that ends by
\* itself end: they go on writing and exit.  Streams are as MCStreams has them.
Fairness ==
  /\ WF_modelVars(OfModel /\ Model!CancelCombined)
  /\ WF_modelVars(OfModel /\ Model!Retry)
  /\ WF_modelVars(OfModel /\ Model!Cancelled)
  /\ WF_modelVars(OfModel /\ Model!Take)
  /\ WF_modelVars(OfModel /\ Model!ProviderEnds /\ slot4 = "terminal")
  /\ \A c \in Callers : WF_vars(subject = "subprocess" /\ Caller(c))
  /\ WF_bashVars(subject = "bash" /\ Bash!Wait)
  /\ WF_bashVars(subject = "bash" /\ Bash!Drain)
  /\ WF_bashVars(subject = "bash" /\ Bash!Timeout)
  /\ \A s \in {"out", "err"} : WF_bashVars(subject = "bash" /\ Bash!Forward(s))
  /\ \A p \in {"shell", "child"} :
       /\ WF_bashVars(subject = "bash" /\ slot8 /\ Bash!Ends(p))
       /\ \A s \in {"out", "err"} :
            WF_bashVars(subject = "bash" /\ slot8 /\ Bash!Writes(p, s, TRUE))

MCSpec == MCInit /\ [][MCNext]_<<subject, vars, slots>> /\ Fairness

-----------------------------------------------------------------------------
\* ExtensionChain: what a dispatch lets through was shown to everyone asked.
VettedValue == subject = "extensions" => Chain!VettedValue

\* ExtensionChain: hooks are answered by extensions that are set up, and a
\* session that is gone leaves none set up.
OnlySetUpServe == subject = "extensions" => Chain!HooksFindSetUp /\ Chain!NoneLeftUp

\* FileTools: an edit changes what it was asked to and nothing else, and tools
\* that share the file's lock do not undo each other.
FilesKeepEdits == subject = "files" => Files!EditsAreLocal /\ Files!NoEditLost

\* BashExecutor: a result holds all that was written, or its end.
OutputWhole == subject = "bash" => Bash!OutputWhole

\* BashExecutor: a command that ends, or has a timeout, returns.
BashReturns ==
  (subject = "bash" /\ slot5 # "new" /\ (slot7 \/ slot8)) ~> (subject = "bash" /\ slot5 = "returned")

\* Whatever the child of an extension or the processes of a command do, the
\* call comes back to the turn that waits for it.
ToolsReturn == CallsReturn /\ BashReturns

\* MCStreams: what is sent to a model, and what is made of its response.
MessageComplete == subject = "streams" => Streams!MessageComplete
RequestsPaired == subject = "streams" => Streams!RequestsPaired
DoneIsFinal == [][subject = "streams" => Streams!StaysFinal]_slots
AbortEndsStream == Streams!AbortEndsStream
=============================================================================
