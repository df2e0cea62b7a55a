----------------------------- MODULE MCMcpClient -----------------------------
(***************************************************************************)
(* McpClient for TLC with a server of the older and one of the newer       *)
(* protocol, in two parts of one run: "failing", where an answer may not   *)
(* come; "answering", where every answer comes in the end.                 *)
(***************************************************************************)
EXTENDS McpClient

VARIABLE part

MCUrls == {"old", "new"}
Olds == {"old"}
Itself == [u \in MCUrls |-> u]
Titles == [u \in MCUrls |-> IF u = "old" THEN "Old" ELSE "New"]
TwoPages == [u \in MCUrls |-> <<{"read"}, {"write"}>>]

Answering == INSTANCE McpClient WITH MaxChanges <- 3, MaxFailures <- 0

PartsInit == part \in {"failing", "answering"} /\ McpInit

PartsNext == /\ UNCHANGED part
             /\ \/ part = "failing" /\ McpNext
                \/ part = "answering" /\ Answering!McpNext

PartsSpec == /\ PartsInit /\ [][PartsNext]_<<mcpVars, part>>
             /\ WF_mcpVars(part = "answering" /\ Replies)
             /\ WF_mcpVars(part = "answering" /\ Continue)

(* When every answer comes, a server that stays enabled has all its tools  *)
(* offered in the end, however its discoveries overlap (serverUpdate).     *)
AllExposedIfAnswered == part = "answering" => AllExposed
=============================================================================
