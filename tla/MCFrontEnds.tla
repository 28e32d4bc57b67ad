----------------------------- MODULE MCFrontEnds -----------------------------
(***************************************************************************)
(* What drives a session from outside, for model checking.  A behaviour is *)
(* about one subject:                                                      *)
(*   "rpc"     the RPC server;                                             *)
(*   "driver"  the tasks of the interactive mode;                          *)
(*   "frames"  the frame scheduler of the terminal;                        *)
(*   "editor"  the prompt editor;                                          *)
(*   "web"     the browser's page, its socket and the server behind it.    *)
(* All but the first keep their state in the slots.                        *)
(***************************************************************************)
EXTENDS RpcServer

CONSTANTS
  Subjects,
  SubmitKinds, MaxSubmits, MaxEvents, MaxDialogs,  \* "driver"
  Interval, Delays, MaxQueued,                     \* "frames"
  MaxKeys, MaxCells, MaxRing, FoldCells,           \* "editor"
  MaxPrompts, MaxConns, MaxSessions, MaxHappenings, OneSave  \* "web"

VARIABLES
  subject,
  slot1, slot2, slot3, slot4, slot5, slot6, slot7, slot8,
  slot9, slot10, slot11, slot12, slot13, slot14, slot15, slot16

slots1_7   == <<slot1, slot2, slot3, slot4, slot5, slot6, slot7>>
slots9_12  == <<slot9, slot10, slot11, slot12>>
slots8_12  == <<slot8, slots9_12>>
slots13_16 == <<slot13, slot14, slot15, slot16>>
slots == <<slots1_7, slots8_12, slots13_16>>
driverVars == <<slots1_7, slots8_12>>
webVars == <<slots1_7, slot8, slot9, slot10, slot11>>

-----------------------------------------------------------------------------
Driver == INSTANCE InteractiveDriver WITH
  Kinds <- SubmitKinds,
  submits <- slot1, runner <- slot2, send <- slot3, token <- slot4, events <- slot5,
  state <- slot6, input <- slot7, overlay <- slot8, done <- slot9, answer <- slot10,
  ended <- slot11, pressed <- slot12

\* What the user submits is work the runner knows; the bounds are numbers.
ASSUME FrontEndsAssumption ==
  SubmitKinds \subseteq Driver!Work /\ MaxSubmits \in Nat /\ MaxConns \in Nat

Frames == INSTANCE FrameScheduler WITH
  chan <- slot1, open <- slot2, at <- slot3, since <- slot4, left <- slot5, drawn <- slot6,
  age <- slot7, asked <- slot8

ASSUME FramesAssumption ==
  Interval \in Nat /\ Delays \subseteq Nat /\ Delays # {}

Prompt == INSTANCE Editor WITH
  text <- slot1, caret <- slot2, registry <- slot3, nextId <- slot4, undo <- slot5,
  redo <- slot6, breakCoalesce <- slot7, ring <- slot8, yankIndex <- slot9,
  history <- slot10, browsing <- slot11, panicked <- slot12, pastes <- slot13,
  keys <- slot14, downgraded <- slot15, strayed <- slot16

Web == INSTANCE WebUi WITH
  MaxEvents <- MaxHappenings,
  conn <- slot1, sendQueue <- slot2, requests <- slot3, up <- slot4, down <- slot5,
  agent <- slot6, page <- slot7, saving <- slot8, saved <- slot9, server <- slot10,
  seen <- slot11

Off == "not used"

Off1_7   == /\ slot1 = Off /\ slot2 = Off /\ slot3 = Off /\ slot4 = Off
            /\ slot5 = Off /\ slot6 = Off /\ slot7 = Off
Off9_12  == slot9 = Off /\ slot10 = Off /\ slot11 = Off /\ slot12 = Off
Off8_12  == slot8 = Off /\ Off9_12
Off13_16 == slot13 = Off /\ slot14 = Off /\ slot15 = Off /\ slot16 = Off

MCInit ==
  /\ subject \in Subjects
  /\ Init
  /\ \/ subject = "rpc" /\ Off1_7 /\ Off8_12 /\ Off13_16
     \/ subject = "driver" /\ Driver!Init /\ Off13_16
     \/ subject = "frames" /\ Frames!Init /\ Off9_12 /\ Off13_16
     \/ subject = "editor" /\ Prompt!Init
     \/ subject = "web" /\ Web!Init /\ slot12 = Off /\ Off13_16

RpcStep    == subject = "rpc" /\ Next /\ UNCHANGED <<subject, slots>>
DriverStep == subject = "driver" /\ Driver!Next /\ UNCHANGED <<subject, vars, slots13_16>>
FramesStep == subject = "frames" /\ Frames!Next
                /\ UNCHANGED <<subject, vars, slots9_12, slots13_16>>
EditorStep == subject = "editor" /\ Prompt!Next /\ UNCHANGED <<subject, vars>>
WebStep    == subject = "web" /\ Web!Next /\ UNCHANGED <<subject, vars, slot12, slots13_16>>

MCNext == RpcStep \/ DriverStep \/ FramesStep \/ EditorStep \/ WebStep

\* The fairness of the RPC server, of the driver and of the web UI.
MCFairness ==
  /\ WF_vars(subject = "rpc" /\ Race)
  /\ WF_vars(subject = "rpc" /\ Main)
  /\ WF_vars(subject = "rpc" /\ Writing)
  /\ WF_vars(subject = "rpc" /\ PromptEnds)
  /\ WF_vars(subject = "rpc" /\ BashAborted)
  /\ WF_driverVars(subject = "driver" /\ (Driver!Runner \/ Driver!Ends))
  /\ WF_driverVars(subject = "driver" /\ Driver!Goes)
  /\ WF_driverVars(subject = "driver" /\ Driver!UserAnswers)
  /\ WF_webVars(subject = "web" /\ Web!Goes)

MCSpec == MCInit /\ [][MCNext]_<<subject, vars, slots>> /\ MCFairness

-----------------------------------------------------------------------------
\* InteractiveDriver: how a turn ended is on the terminal when all is quiet.
OutcomeReported == subject = "driver" => Driver!OutcomeReported

\* InteractiveDriver: when all is quiet nothing of what ran is left behind.
QuietIsClean == subject = "driver" => Driver!QuietIsClean

\* InteractiveDriver: what the user submits is served.
SubmitsServed ==
  (subject = "driver" /\ slot1 # <<>>) ~> (subject = "driver" /\ Driver!Served)

\* RpcServer: the server exits, and an abort_bash ends the bash it is for.
ServerSettles == ServerExits /\ AbortBashEnds

\* FrameScheduler: frames keep their distance, and none is forgotten.  Editor:
\* undo gives back what was there before the last edit, a burst of typing is one
\* unit, and a token stands for the paste it was made for.
TerminalKeepsUp ==
  CASE subject = "frames" -> Frames!DrawnInTime
    [] subject = "editor" ->
         Prompt!UndoRestores /\ Prompt!BurstsAreUnits /\ Prompt!TokensKeepPayload
    [] OTHER -> TRUE

\* WebUi: the page shows what the user said once, and takes the next prompt
\* when all is quiet.
PageFollowsServer == subject = "web" => Web!PageFollowsServer

\* WebUi: a pending request is under way.
PendingIsUnderWay == subject = "web" => Web!PendingIsUnderWay

\* WebUi: runs end while their socket is there, and dispatchers after it.
TurnsEnd == \A c \in 1..MaxConns :
  (subject = "web" /\ Web!ToSettle(c)) ~> (subject = "web" /\ (Web!Settled(c) \/ Web!Stranded(c)))
=============================================================================
