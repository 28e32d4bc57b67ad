--------------------------- MODULE MCAgentSession ---------------------------
(***************************************************************************)
(* A session for model checking: one that meets every fault, or a calm one *)
(* with more messages, queues taken one at a time and continuations.       *)
(***************************************************************************)
EXTENDS AgentSession

CONSTANT CalmMessages

ASSUME CalmAssumption == CalmMessages \in Nat

VARIABLE subject

Calm == INSTANCE AgentSession WITH
  MaxMessages <- CalmMessages, MaxContinuations <- 1, Mode <- "OneAtATime",
  MayFail <- FALSE, MayTimeout <- FALSE, MayCompact <- FALSE, MayWrite <- FALSE,
  WritesFail <- FALSE

MCInit == subject \in {"faults", "calm"} /\ Init

FaultsStep == subject = "faults" /\ Next /\ UNCHANGED subject
CalmStep   == subject = "calm" /\ Calm!Next /\ UNCHANGED subject

MCNext == FaultsStep \/ CalmStep

MCSpec == MCInit /\ [][MCNext]_<<vars, subject>>

-----------------------------------------------------------------------------
\* AgentSession: between the sends of a session that meets no fault, a resume
\* hands the model the conversation it has now.
CalmResumeReplays == subject = "calm" => ResumeReplays
=============================================================================
