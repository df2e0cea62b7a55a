--------------------------- MODULE MCGitModule ---------------------------
(***************************************************************************)
(* The queue of git commands in three parts of one run, and the graph the  *)
(* log draws.  "transfer": every command that moves a transfer on, and one *)
(* for those that do not, outside a merge.  "merge": a merge that comes    *)
(* and goes, with a command of every kind that meets it; there is no       *)
(* remote, and of the watchers only that of the repository and that of the *)
(* branch report.  "faults": the same without transfers, and git may fail  *)
(* to start or print anything.  "log": every history of four commits.      *)
(***************************************************************************)
EXTENDS GitModule, GitLog

VARIABLE part

NoMerge == {"none"}
TransferMenu == {"Fetch", "Ahead", "Merge", "UpstreamSet"}
TransferFree == {"Push", "Commit", "Create", "RemoteAdd", "Log"}

Merge == INSTANCE GitModule WITH Menu <- {"Fetch"}, Free <- {"Add"}, Heads <- {"none", "Merge"}
Faulty == INSTANCE GitModule WITH Menu <- {}, Free <- {"Init"}, Heads <- {"none", "Merge"},
                                  Faults <- TRUE

NothingDrawn == parents = << >> /\ lanes = << >> /\ laneCount = 0 /\ node = << >>

PartsInit ==
  \/ part = "transfer" /\ Init /\ NothingDrawn
  \/ part \in {"merge", "faults"} /\ Merge!Init /\ NothingDrawn
  \/ part = "log" /\ LogInit /\ Init /\ running = Null

(* The bound of the parts with a merge. *)
OnlyMerges == ~remote' /\ ~upstream' /\ timers' \subseteq {"repo", "branch"}

PartsNext ==
  /\ UNCHANGED part
  /\ \/ part = "transfer" /\ Next /\ UNCHANGED drawn
     \/ part = "merge" /\ Merge!Next /\ OnlyMerges /\ UNCHANGED drawn
     \/ part = "faults" /\ Faulty!Next /\ OnlyMerges /\ UNCHANGED drawn
     \/ part = "log" /\ LogNext /\ UNCHANGED vars

(* Outside the part "transfer" nothing is owed. *)
PartsSpec ==
  /\ PartsInit /\ [][PartsNext]_<<vars, drawn, part>>
  /\ WF_vars(part = "transfer" /\ Finish)
  /\ WF_vars(part = "transfer" /\ RepoTimeout)
  /\ WF_vars(part = "transfer" /\ IndexTimeout)
  /\ WF_vars(part = "transfer" /\ BranchTimeout)

(* A transfer the user started ends, and the menus are enabled again,      *)
(* whatever else is queued (gitFetch, gitPush, processFinished).           *)
TransferEndsInPart == (part = "transfer" /\ status = "Transfer") ~> status # "Transfer"
=============================================================================
