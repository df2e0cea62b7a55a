--------------------------- MODULE MCAgentRuntime ---------------------------
(***************************************************************************)
(* AgentRuntime for TLC, with four tools, of which the mode lets some run  *)
(* unasked, and answers that make one or two calls; in four parts of one   *)
(* run.  "turns": two turns of the user's runtime, with a compaction and a *)
(* steering text; "calls": one turn that comes to the limit of its calls;  *)
(* "rollback": two turns, the last of which may be taken back; "sub": a    *)
(* sub-agent in Chat mode from its dispatch to finishRun.                  *)
(***************************************************************************)
EXTENDS AgentRuntime

VARIABLE part

MCTools == {"read", "write", "plan", "ask"}

(* Read mode: reading and planning are permitted, writing is not. *)
ReadMode == {"read", "plan"}

(* Chat mode permits nothing; a model may still call what it was not given. *)
ChatMode == {}

Rounds == {<<"read">>, <<"plan", "write">>, <<"ask", "ask">>, <<"read", "read">>}
PlanRound == {<<"plan", "write">>}
AskRound == {<<"ask", "write">>}
ChatRounds == {<<"plan", "ask">>, <<"ask", "plan">>, <<"write", "plan">>}

Two == INSTANCE AgentRuntime WITH Batches <- PlanRound
Long == INSTANCE AgentRuntime WITH MaxTurns <- 1, MaxCalls <- 3
Back == INSTANCE AgentRuntime WITH
          Batches <- AskRound, MaxCompacts <- 0, MaxSteers <- 0, MaxRollbacks <- 1
Sub == INSTANCE AgentRuntime WITH
         Primary <- FALSE, Approved <- ChatMode, Batches <- ChatRounds,
         MaxTurns <- 1, MaxSteers <- 2, MaxCalls <- 6

PartsInit == \/ part \in {"turns", "calls", "rollback"} /\ Init
             \/ part = "sub" /\ Sub!Init

PartsNext == /\ UNCHANGED part
             /\ \/ part = "turns" /\ Two!Next
                \/ part = "calls" /\ Long!Next
                \/ part = "rollback" /\ Back!Next
                \/ part = "sub" /\ Sub!Next

Provides == \/ part = "turns" /\ Two!Provider
            \/ part = "calls" /\ Long!Provider
            \/ part = "rollback" /\ Back!Provider
            \/ part = "sub" /\ Sub!Provider
Fires == (part # "sub" /\ Timer) \/ (part = "sub" /\ Sub!Timer)
Runs == (part # "sub" /\ Tool) \/ (part = "sub" /\ Sub!Tool)

PartsSpec == /\ PartsInit /\ [][PartsNext]_<<vars, part>>
             /\ WF_vars(Provides) /\ WF_vars(Fires) /\ WF_vars(Runs)

(* The user's runtime by itself, for bounds that allow of a compaction     *)
(* and of taking back a turn.                                              *)
AloneSpec == part = "alone" /\ Init /\ [][Next /\ UNCHANGED part]_<<vars, part>>

(* A tool is executed only when the mode of the runtime permits it or the  *)
(* user approved that very call (permission, case ToolExec).               *)
ApprovalHonouredInPart == IF part = "sub" THEN Sub!ApprovalHonoured ELSE ApprovalHonoured
=============================================================================
