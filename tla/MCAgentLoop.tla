---------------------------- MODULE MCAgentLoop ----------------------------
(***************************************************************************)
(* AgentLoop for model checking.  One run may make several calls, or       *)
(* several messages may be given to runs with no call, or with one: both   *)
(* at once multiply the states and add no new case.                        *)
(***************************************************************************)
EXTENDS AgentLoop

Given  == nextId - 1
Called == CallBudget - budget
Bound  == Given <= 1 \/ (Given = 2 /\ Called <= 1) \/ Called = 0

MCSpec == Init /\ [][Next /\ Bound']_vars /\ LoopFairness

-----------------------------------------------------------------------------
\* AgentLoop: every run ends, when the model and the tools answer or when it is
\* aborted.
RunsEnd == AbortEndsRun /\ RunEnds
=============================================================================
