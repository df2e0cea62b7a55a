---------------------------- MODULE MCDataTable ----------------------------
(***************************************************************************)
(* The undo history and the data table on it, in four parts of one run.    *)
(* "stack": the history alone, whose owners may refuse anything: two       *)
(* groups of up to two steps and an edit on a stack of three commands.     *)
(* The others: a table of two columns and a third key, one turn of the     *)
(* agent and one or two edits of the user.                                 *)
(***************************************************************************)
EXTENDS DataTable, TLC

CONSTANTS a, b, c, v, g1, g2, e1, e2

VARIABLE part

MCKeys == {a, b, c}
MCStart == <<a, b>>
MCValues == {v}
MCGroups == {g1, g2}
MCEdits == {e1, e2}
Alike == Permutations(MCEdits) \cup Permutations(MCGroups)

Waiting == INSTANCE DataTable WITH Apart <- TRUE, MaxRows <- 0
Cleared == INSTANCE DataTable WITH MaxSteps <- 1, MayMove <- FALSE, MayClear <- TRUE

(* The bounds of a part on the edits and on the groups. *)
AtMost(editsMade, groupsBegun) == /\ Cardinality(pushed') <= editsMade
                                  /\ Cardinality(begun') <= groupsBegun

PartsInit == part \in {"stack", "waiting", "shared", "cleared"} /\ TableInit

PartsNext ==
  /\ UNCHANGED part
  /\ \/ part = "stack" /\ Next /\ AtMost(1, 2) /\ UNCHANGED <<table, ops, shots>>
     \/ part = "waiting" /\ Waiting!TableNext /\ AtMost(2, 1)
     \/ part = "shared" /\ TableNext /\ AtMost(1, 1)
     \/ part = "cleared" /\ Cleared!TableNext /\ AtMost(2, 1)

PartsSpec == PartsInit /\ [][PartsNext]_<<tableVars, part>>

(* The table by itself, for bounds that let scripts empty it and the user  *)
(* move columns.                                                           *)
AloneSpec ==
  /\ part = "alone" /\ TableInit
  /\ [][TableNext /\ AtMost(2, 1) /\ UNCHANGED part]_<<tableVars, part>>

(* While the user waits for the agent's turn to end and no script writes,  *)
(* walking through the history gives back exactly the columns there were   *)
(* at each place and refuses nothing (datatableInsert's shared position).  *)
WalksBack == part = "waiting" => Waiting!HistoryExact

(* What is refused by the data table leaves its columns as they were, and  *)
(* what a turn compensates is accepted, so that no turn is ever in error   *)
(* (execute).                                                              *)
RefusedInPart == [][part # "stack" => RefusalKeepsKeys /\ NeverTorn']_tableVars
=============================================================================
