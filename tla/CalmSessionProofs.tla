--------------------------- MODULE CalmSessionProofs ---------------------------
(***************************************************************************)
(* The proofs about AgentSession, for the two sessions of MCAgentSession:  *)
(* that a calm one resumes as it is.                                       *)
(***************************************************************************)
EXTENDS MCAgentSession, TLAPS

\* The calm session is an AgentSession, to which the proofs about it apply.
Resumes == INSTANCE AgentSessionProofs WITH
  MaxMessages <- CalmMessages, MaxContinuations <- 1, Mode <- "OneAtATime",
  MayFail <- FALSE, MayTimeout <- FALSE, MayCompact <- FALSE, MayWrite <- FALSE,
  WritesFail <- FALSE

\* What the proofs assume of the constants.
LEMMA CalmConstants == Resumes!SessionAssumption /\ Resumes!Undisturbed
  <1>1. CalmMessages \in Nat /\ MaxSessions \in Nat /\ MaxSessions > 0
    BY SessionAssumption, CalmAssumption
  <1>2. {HasTurnEndHook, FALSE} \subseteq BOOLEAN
    BY SessionAssumption, Zenon
  <1> QED BY <1>1, <1>2 DEF Resumes!SessionAssumption, Resumes!Undisturbed

----------------------------------------------------------------------------
(* Both instances say the same. *)

LEMMA SameKeep == \A s, T : /\ Resumes!Keep(s, T) = Keep(s, T)
                            /\ Calm!Keep(s, T) = Keep(s, T)
  BY DEF Resumes!Keep, Calm!Keep, Keep

LEMMA SameSelect ==
  /\ \A S : Resumes!Max(S) = Max(S) /\ Calm!Max(S) = Max(S)
  /\ \A S : Resumes!Min(S) = Min(S) /\ Calm!Min(S) = Min(S)
  BY DEF Resumes!Max, Calm!Max, Max, Resumes!Min, Calm!Min, Min

LEMMA SameBuild ==
  ASSUME NEW es
  PROVE  /\ Resumes!BuildContext(es) = BuildContext(es)
         /\ Calm!BuildContext(es) = BuildContext(es)
  <1> DEFINE c1 == Resumes!SelectLastInSeq(es, LAMBDA e : e.kind = "compaction")
             c2 == Calm!SelectLastInSeq(es, LAMBDA e : e.kind = "compaction")
             c3 == SelectLastInSeq(es, LAMBDA e : e.kind = "compaction")
             f1 == IF c1 = 0 THEN 1
                   ELSE Resumes!SelectInSeq(es, LAMBDA e : Resumes!InContext(e)
                                                           /\ e.id = es[c1].firstKept)
             f2 == IF c2 = 0 THEN 1
                   ELSE Calm!SelectInSeq(es, LAMBDA e : Calm!InContext(e)
                                                        /\ e.id = es[c2].firstKept)
             f3 == IF c3 = 0 THEN 1
                   ELSE SelectInSeq(es, LAMBDA e : InContext(e) /\ e.id = es[c3].firstKept)
             k1 == IF f1 = 0 THEN <<>>
                   ELSE Resumes!Those(SubSeq(es, f1, Len(es)), Resumes!InContext)
             k2 == IF f2 = 0 THEN <<>>
                   ELSE Calm!Those(SubSeq(es, f2, Len(es)), Calm!InContext)
             k3 == IF f3 = 0 THEN <<>> ELSE Those(SubSeq(es, f3, Len(es)), InContext)
  <1>1. /\ Resumes!BuildContext(es) = [i \in DOMAIN k1 |-> Resumes!MessageOf(k1[i])]
        /\ Calm!BuildContext(es) = [i \in DOMAIN k2 |-> Calm!MessageOf(k2[i])]
        /\ BuildContext(es) = [i \in DOMAIN k3 |-> MessageOf(k3[i])]
    BY DEF Resumes!BuildContext, Calm!BuildContext, BuildContext
  <1>2. c1 = c3 /\ c2 = c3
    BY SameSelect DEF Resumes!SelectLastInSeq, Calm!SelectLastInSeq, SelectLastInSeq
  <1>3. \A e : /\ Resumes!InContext(e) <=> InContext(e)
               /\ Calm!InContext(e) <=> InContext(e)
               /\ Resumes!MessageOf(e) = MessageOf(e) /\ Calm!MessageOf(e) = MessageOf(e)
    BY DEF Resumes!InContext, Calm!InContext, InContext,
           Resumes!MessageOf, Calm!MessageOf, MessageOf
  <1> HIDE DEF c1, c2, c3
  <1>4. f1 = f3 /\ f2 = f3
    BY <1>2, <1>3, SameSelect DEF Resumes!SelectInSeq, Calm!SelectInSeq, SelectInSeq
  <1> HIDE DEF f1, f2, f3
  <1>5. \A s : /\ Resumes!Those(s, Resumes!InContext) = Those(s, InContext)
               /\ Calm!Those(s, Calm!InContext) = Those(s, InContext)
    BY SameKeep, <1>3 DEF Resumes!Those, Calm!Those, Those, Resumes!ToSet, Calm!ToSet, ToSet
  <1>6. k1 = k3 /\ k2 = k3
    BY <1>4, <1>5, Zenon
  <1> HIDE DEF k1, k2, k3
  <1> QED BY <1>1, <1>3, <1>6

LEMMA SameTurn == Resumes!Turn <=> Calm!Turn
  <1> USE SameKeep
      DEF Resumes!Msg, Calm!Msg, Resumes!Room, Calm!Room, Resumes!Make, Calm!Make,
          Resumes!EntryOf, Calm!EntryOf, Resumes!AsEntries, Calm!AsEntries,
          Resumes!NoEntry, Calm!NoEntry, Resumes!Ids, Calm!Ids, Resumes!Saves, Calm!Saves,
          Resumes!Those, Calm!Those, Resumes!ToSet, Calm!ToSet, Resumes!Last, Calm!Last,
          Resumes!Drained, Calm!Drained, Resumes!Rest, Calm!Rest,
          Resumes!Journal, Calm!Journal, Resumes!EndRun, Calm!EndRun,
          Resumes!JournalTurn, Calm!JournalTurn, Resumes!EndTurn, Calm!EndTurn,
          Resumes!conversation, Calm!conversation, Resumes!run, Calm!run,
          Resumes!queues, Calm!queues, Resumes!flags, Calm!flags
  <1>1. Resumes!Send <=> Calm!Send
    BY DEF Resumes!Send, Calm!Send
  <1>2. Resumes!HookCancels <=> Calm!HookCancels
    BY DEF Resumes!HookCancels, Calm!HookCancels
  <1>3. \A c : Resumes!BeginTurn(c) <=> Calm!BeginTurn(c)
    <2>1. \A p : Resumes!Launch(p) <=> Calm!Launch(p)
      BY DEF Resumes!Launch, Calm!Launch
    <2>2. \A c : Resumes!Prompts(c) = Calm!Prompts(c)
      BY DEF Resumes!Prompts, Calm!Prompts
    <2> QED BY <2>1, <2>2, Zenon DEF Resumes!BeginTurn, Calm!BeginTurn
  <1>4. \A c, i : Resumes!PromptNotSaved(c, i) <=> Calm!PromptNotSaved(c, i)
    BY DEF Resumes!PromptNotSaved, Calm!PromptNotSaved, Resumes!Prompts, Calm!Prompts
  <1>5. /\ Resumes!LoopFails <=> Calm!LoopFails
        /\ Resumes!Timeout <=> Calm!Timeout
    BY DEF Resumes!LoopFails, Calm!LoopFails, Resumes!Timeout, Calm!Timeout
  <1>6. Resumes!Poll <=> Calm!Poll
    BY DEF Resumes!Poll, Calm!Poll
  <1>7. Resumes!RequestAborted <=> Calm!RequestAborted
    BY DEF Resumes!RequestAborted, Calm!RequestAborted
  <1>8. Resumes!Request <=> Calm!Request
    BY DEF Resumes!Request, Calm!Request
  <1>9. Resumes!StreamBreaks <=> Calm!StreamBreaks
    BY DEF Resumes!StreamBreaks, Calm!StreamBreaks
  <1>10. \A m : Resumes!StreamDone(m) <=> Calm!StreamDone(m)
    BY DEF Resumes!StreamDone, Calm!StreamDone
  <1>11. Resumes!PollFollowUp <=> Calm!PollFollowUp
    BY DEF Resumes!PollFollowUp, Calm!PollFollowUp, Resumes!FollowUpOrEnd,
           Calm!FollowUpOrEnd, Resumes!Resume, Calm!Resume
  <1>12. Resumes!HookContinues <=> Calm!HookContinues
    BY DEF Resumes!HookContinues, Calm!HookContinues, Resumes!Resume, Calm!Resume
  <1>13. Resumes!HookLetsEnd <=> Calm!HookLetsEnd
    BY DEF Resumes!HookLetsEnd, Calm!HookLetsEnd
  <1>14. \A k : Resumes!ExtensionWrites(k) <=> Calm!ExtensionWrites(k)
    BY DEF Resumes!ExtensionWrites, Calm!ExtensionWrites
  <1>15. /\ Resumes!Compact <=> Calm!Compact
         /\ Resumes!Summarised <=> Calm!Summarised
    BY DEF Resumes!Compact, Calm!Compact, Resumes!Summarised, Calm!Summarised
  <1> QED BY <1>1, <1>2, <1>3, <1>4, <1>5, <1>6, <1>7, <1>8, <1>9, <1>10, <1>11, <1>12,
             <1>13, <1>14, <1>15, Zenon DEF Resumes!Turn, Calm!Turn

LEMMA SameManage == Resumes!Manage <=> Calm!Manage
  <1> USE DEF Resumes!Adopt, Calm!Adopt, Resumes!NewSession, Calm!NewSession,
              Resumes!run, Calm!run, Resumes!flags, Calm!flags,
              Resumes!queues, Calm!queues, Resumes!conversation, Calm!conversation
  <1>1. Resumes!SetInfo <=> Calm!SetInfo
    BY SameKeep
    DEF Resumes!SetInfo, Calm!SetInfo, Resumes!Msg, Calm!Msg, Resumes!Room, Calm!Room,
        Resumes!Make, Calm!Make, Resumes!EntryOf, Calm!EntryOf, Resumes!NoEntry, Calm!NoEntry,
        Resumes!Ids, Calm!Ids, Resumes!Saves, Calm!Saves, Resumes!Journal, Calm!Journal,
        Resumes!Those, Calm!Those, Resumes!ToSet, Calm!ToSet
  <1>2. Resumes!ResetSession <=> Calm!ResetSession
    BY SameBuild DEF Resumes!ResetSession, Calm!ResetSession
  <1>3. Resumes!CloneSession <=> Calm!CloneSession
    BY SameBuild DEF Resumes!CloneSession, Calm!CloneSession
  <1>4. \A i : Resumes!Fork(i) <=> Calm!Fork(i)
    BY SameBuild DEF Resumes!Fork, Calm!Fork, Resumes!UserMade, Calm!UserMade
  <1>5. \A b, n : Resumes!BranchFails(b, n) <=> Calm!BranchFails(b, n)
    BY DEF Resumes!BranchFails, Calm!BranchFails
  <1>6. \A s : Resumes!SwitchSession(s) <=> Calm!SwitchSession(s)
    BY SameBuild DEF Resumes!SwitchSession, Calm!SwitchSession
  <1> QED BY <1>1, <1>2, <1>3, <1>4, <1>5, <1>6, Zenon DEF Resumes!Manage, Calm!Manage

LEMMA SameNext == Resumes!Next <=> Calm!Next
  <1>1. Resumes!Handles <=> Calm!Handles
    BY DEF Resumes!Handles, Calm!Handles, Resumes!EnqueueSteer, Calm!EnqueueSteer,
           Resumes!EnqueueFollowUp, Calm!EnqueueFollowUp, Resumes!Abort, Calm!Abort,
           Resumes!Msg, Calm!Msg, Resumes!Room, Calm!Room, Resumes!Make, Calm!Make,
           Resumes!Sending, Calm!Sending, Resumes!conversation, Calm!conversation,
           Resumes!run, Calm!run, Resumes!queues, Calm!queues, Resumes!flags, Calm!flags
  <1> QED BY <1>1, SameTurn, SameManage, Zenon DEF Resumes!Next, Calm!Next

----------------------------------------------------------------------------
(* A calm session resumes. *)

CalmInv == Resumes!ControlInv /\ Resumes!ReplayInv

LEMMA CalmStarts == Init => CalmInv
  <1>1. Init => Resumes!Init
    BY DEF Init, Resumes!Init
  <1> QED BY <1>1, CalmConstants, Resumes!ControlInit, Resumes!ReplayInit DEF CalmInv

LEMMA CalmKeeps == CalmInv /\ [Calm!Next]_vars => CalmInv'
  <1>1. [Calm!Next]_vars => [Resumes!Next]_(Resumes!vars)
    BY SameNext DEF vars, Resumes!vars, conversation, Resumes!conversation, run, Resumes!run,
       queues, Resumes!queues, flags, Resumes!flags
  <1> QED BY <1>1, CalmConstants, Resumes!ControlStep, Resumes!ReplayStep DEF CalmInv

\* Between the sends of a session that meets no fault, a resume hands the model
\* the conversation it has now, through any number of continuations, aborts,
\* forks, clones, resets and switches (send_message's journal writes against
\* build_context).
THEOREM CalmSessionsResume == MCSpec => []CalmResumeReplays
  <1>1. MCInit => (subject = "calm" => CalmInv)
    BY CalmStarts DEF MCInit
  <1>2. (subject = "calm" => CalmInv) /\ [MCNext]_<<vars, subject>>
        => (subject = "calm" => CalmInv)'
    <2> SUFFICES ASSUME subject = "calm" => CalmInv, [MCNext]_<<vars, subject>>,
                        subject' = "calm"
                 PROVE  CalmInv'
      OBVIOUS
    <2>1. subject = "calm" /\ [Calm!Next]_vars
      BY DEF MCNext, FaultsStep, CalmStep
    <2> QED BY <2>1, CalmKeeps
  <1>3. (subject = "calm" => CalmInv) => CalmResumeReplays
    <2>1. CalmInv => Resumes!ResumeReplays
      BY CalmConstants, Resumes!ReplaySound DEF CalmInv
    <2>2. Resumes!ResumeReplays => ResumeReplays
      BY SameBuild DEF Resumes!ResumeReplays, ResumeReplays
    <2> QED BY <2>1, <2>2 DEF CalmResumeReplays
  <1> QED BY <1>1, <1>2, <1>3, PTL DEF MCSpec
=============================================================================
