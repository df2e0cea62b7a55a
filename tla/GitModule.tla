----------------------------- MODULE GitModule -----------------------------
(***************************************************************************)
(* src/src/service/git/gitModule.cpp: git commands run one at a time on    *)
(* one process, in the order in which they were queued.  The handler of    *)
(* the end of a command queues what has to follow it; watchers of the      *)
(* repository refill the queue from timers.  The status decides which menu *)
(* entries the user finds enabled, and the status bar has a row per        *)
(* background task.                                                        *)
(*                                                                         *)
(* Every action is one event of the main thread, with all its handler      *)
(* calls.  The process has stopped when its end is handled, so that the    *)
(* first command queued by the handler starts the next one.  What git      *)
(* prints and what the repository is in the middle of is not the           *)
(* program's choice; the user may be at work in a terminal as well.        *)
(*                                                                         *)
(* Left out: the models the views show, and the explorer, which            *)
(* updateIndex asks for its own git status.  terminate has no effect here: *)
(* git on Windows does not heed it.                                        *)
(***************************************************************************)
EXTENDS Naturals, Sequences

CONSTANTS Menu,      \* commands of menu entries enabled only while status is Idle
          Free,      \* commands the user may give at any time
          Heads,     \* what the repository may be in the middle of
          MaxQueue,  \* bound: users and watchers wait while as much is queued
          MaxRows,   \* bound: or while as many rows are left over
          Faults     \* git may fail to start, or print what nobody expects

Merging == {"Merge", "Rebase", "CherryPick"}

(* What follows when the command succeeds, and nothing else happens.       *)
(* gitUpstreamUnset gives an UpstreamSet too.                              *)
Then == [c \in {"Init", "Create", "Rename", "Delete", "CherryPick"} |-> <<"Watch">>]
Ends == {"Status", "ShowCommit", "ShowFile", "Diff_", "ShowCommit_", "Reset",
         "Merge", "Rebase", "Restore", "Ignore"}
Asks == {"UpstreamSet", "Switch"}
Plain == DOMAIN Then \cup Ends \cup Asks \cup {"Ahead"}

Commands == Plain \cup {"Add", "Commit", "Fetch", "Push", "Continue", "Abort", "Watch",
                        "RemoteAdd", "RemoteGet", "UpstreamGet", "Branch", "Log", "Diff"}
Null == "Null"

ASSUME GitAssumption == /\ Menu \cup Free \subseteq Commands
                        /\ Heads \subseteq Merging \cup {"none"}
                        /\ MaxQueue \in Nat
                        /\ MaxRows \in Nat
                        /\ Faults \in BOOLEAN

VARIABLES queue,     \* m_queue, the commands only
          running,   \* the command of the process, Null when it is not running
          status,    \* gitStatus of the global manager
          head,      \* what the repository is in the middle of (MERGE_HEAD, ...)
          watching,  \* the watchers know their files
          timers,    \* the watcher timers that are running
          task,      \* the row with the id in m_taskId: "none" when there is none
          rows,      \* the other rows of the status bar that this module added
          remote, upstream, current,  \* m_remote, m_upstream and m_current are set
          window,    \* the push window is open and lists what is ahead
          dialog     \* the dialog that finishes a merge is open

process == <<queue, running>>
tasks == <<status, task, rows>>
branch == <<remote, upstream, current>>
front == <<window, dialog>>
vars == <<process, tasks, head, watching, timers, branch, front>>

Kinds == {"transfer", "repo"}

TypeOK == /\ queue \in Seq(Commands)
          /\ running \in Commands \cup {Null}
          /\ status \in Merging \cup {"Idle", "Transfer"}
          /\ head \in Heads
          /\ watching \in BOOLEAN
          /\ timers \subseteq {"repo", "index", "branch"}
          /\ task \in Kinds \cup {"none"}
          /\ rows \in [Kinds -> Nat]
          /\ remote \in BOOLEAN /\ upstream \in BOOLEAN /\ current \in BOOLEAN
          /\ window \in BOOLEAN /\ dialog \in BOOLEAN

(* propertySet: the first command looks for the repository, if there is one. *)
Init == /\ queue = << >>
        /\ running \in {"Watch", Null}
        /\ status = "Idle"
        /\ head \in Heads
        /\ watching = FALSE
        /\ timers = {}
        /\ task = "none"
        /\ rows = [k \in Kinds |-> 0]
        /\ remote = FALSE /\ upstream = FALSE /\ current = FALSE
        /\ window = FALSE /\ dialog = FALSE

(***************************************************************************)
(* The queue and the process.                                              *)
(***************************************************************************)

Least(a, b) == IF a < b THEN a ELSE b

(* The process is asked to take a command `attempts` times, until it runs: *)
(* a command that cannot be started is lost, and nobody is told.           *)
Launch(cmds, attempts) ==
  LET q == queue \o cmds
      tries == Least(attempts, Len(q))
  IN \E lost \in 0 .. (IF Faults THEN tries ELSE 0) :
       /\ running' = IF lost = tries THEN Null ELSE q[lost + 1]
       /\ queue' = SubSeq(q, (IF lost = tries THEN lost ELSE lost + 1) + 1, Len(q))

(* processEnqueue, for each of cmds. *)
Enqueue(cmds) ==
  IF running = Null THEN Launch(cmds, Len(cmds))
                    ELSE queue' = queue \o cmds /\ UNCHANGED running

(* processFinished queues cmds and comes to its last line. *)
Ended(cmds) == Launch(cmds, Len(cmds) + 1)

(* processFinished returns before. *)
Returned == Launch(<< >>, 0)

(***************************************************************************)
(* Rows of the status bar, and the state of the repository.                *)
(***************************************************************************)

(* appendBackground overwrites m_taskId: the row of before stays. *)
AppendTask(kind) ==
  /\ task' = kind
  /\ rows' = IF task = "none" THEN rows ELSE [rows EXCEPT ![task] = @ + 1]

(* Mutant: a row that another task took over is left. *)
RemoveTransfer == task' = (IF task = "transfer" THEN "none" ELSE task) /\ UNCHANGED rows

RemoveTask == task' = "none" /\ UNCHANGED rows

(* gitRepo, except that it queues RepoDiff. *)
RepoFound == status # "Transfer" /\ head # "none"
RepoStatus == IF RepoFound THEN head ELSE status
RepoDiff == IF RepoStatus \in Merging THEN <<"Diff">> ELSE << >>
GitRepo == /\ status' = RepoStatus
           /\ IF RepoFound THEN AppendTask("repo") ELSE UNCHANGED <<task, rows>>

Transfer == AppendTask("transfer") /\ status' = "Transfer"

(***************************************************************************)
(* processFinished.                                                        *)
(***************************************************************************)

Follow(c) == CASE c \in DOMAIN Then -> Then[c]
               [] c \in Asks -> <<"UpstreamGet">>
               [] c = "Ahead" -> <<"Diff_">>
               [] OTHER -> << >>

FinishPlain(c) ==
  /\ running = c
  /\ \E ok \in BOOLEAN : Ended(IF ok THEN Follow(c) ELSE << >>)
  /\ UNCHANGED <<tasks, head, watching, timers, branch, front>>

(* Before the first commit there is no current branch to be watched. *)
FinishChange(c) ==
  /\ running = c
  /\ \/ Ended((IF current THEN << >> ELSE <<"Watch", "Status">>)
              \o (IF c = "Add" /\ status # "Idle" THEN <<"Diff">> ELSE << >>))
     \/ Ended(<< >>)
  /\ UNCHANGED <<tasks, head, watching, timers, branch, front>>

(* Mutant: a transfer that fails leaves the status. *)
FinishTransferOnce(c) ==
  /\ running = c
  /\ \/ /\ Ended(IF c = "Fetch" THEN <<"Watch">> ELSE << >>)
        /\ RemoveTask
        /\ status' = "Idle"
     \/ Ended(<< >>) /\ UNCHANGED tasks
  /\ UNCHANGED <<head, watching, timers, branch, front>>

(* A transfer ends the status when it fails, too. *)
FinishTransfer(c) ==
  /\ running = c
  /\ \E ok \in BOOLEAN : Ended(IF ok /\ c = "Fetch" THEN <<"Watch">> ELSE << >>)
  /\ RemoveTask
  /\ status' = "Idle"
  /\ UNCHANGED <<head, watching, timers, branch, front>>

(* git reports success only when it has cleared the merge away. *)
FinishMerge(c) ==
  /\ running = c
  /\ \/ head = "none" /\ RemoveTask /\ status' = "Idle"
     \/ UNCHANGED tasks
  /\ Ended(<< >>)
  /\ UNCHANGED <<head, watching, timers, branch, front>>

FinishWatch ==
  /\ running = "Watch"
  /\ \/ /\ watching' = TRUE
        /\ GitRepo
        /\ Ended(RepoDiff \o <<"RemoteGet">>)
     \/ Ended(<< >>) /\ UNCHANGED <<tasks, watching>>
     \/ Faults /\ Returned /\ UNCHANGED <<tasks, watching>>
  /\ UNCHANGED <<head, timers, branch, front>>

FinishRemoteAdd ==
  /\ running = "RemoteAdd"
  /\ \/ Ended(<<"Fetch">>) /\ Transfer
     \/ Ended(<< >>) /\ UNCHANGED tasks
  /\ UNCHANGED <<head, watching, timers, branch, front>>

FinishRemoteGet ==
  /\ running = "RemoteGet"
  /\ \/ Ended(<<"UpstreamGet">>) /\ remote' \in BOOLEAN
     \/ Ended(<< >>) /\ UNCHANGED remote
  /\ UNCHANGED <<tasks, head, watching, timers, upstream, current, front>>

FinishUpstreamGet ==
  /\ running = "UpstreamGet"
  /\ Ended(<<"Branch">>)
  /\ upstream' \in BOOLEAN
  /\ UNCHANGED <<tasks, head, watching, timers, remote, current, front>>

FinishBranch ==
  /\ running = "Branch"
  /\ \/ current' \in BOOLEAN /\ Ended(IF current' THEN <<"Log">> ELSE << >>)
     \/ Ended(<< >>) /\ UNCHANGED current
  /\ UNCHANGED <<tasks, head, watching, timers, remote, upstream, front>>

FinishLog ==
  /\ running = "Log"
  /\ \E listed \in BOOLEAN : Ended(IF listed THEN <<"ShowCommit">> ELSE << >>)
  /\ UNCHANGED <<tasks, head, watching, timers, branch, front>>

(* The list of unresolved files is of no use outside a merge. *)
FinishDiff ==
  /\ running = "Diff"
  /\ \/ status \in Merging /\ Ended(<< >>) /\ dialog' \in {dialog, TRUE}
     \/ status \notin Merging /\ Returned /\ UNCHANGED dialog
     \/ Ended(<< >>) /\ UNCHANGED dialog
  /\ UNCHANGED <<tasks, head, watching, timers, branch, window>>

Finish == \/ \E c \in Plain : FinishPlain(c)
          \/ \E c \in {"Add", "Commit"} : FinishChange(c)
          \/ \E c \in {"Fetch", "Push"} : FinishTransfer(c)
          \/ \E c \in {"Continue", "Abort"} : FinishMerge(c)
          \/ FinishWatch \/ FinishRemoteAdd \/ FinishRemoteGet \/ FinishUpstreamGet
          \/ FinishBranch \/ FinishLog \/ FinishDiff

(***************************************************************************)
(* The watchers and their timers.                                          *)
(***************************************************************************)

Short == Len(queue) < MaxQueue
Room == Short /\ \A k \in Kinds : rows[k] < MaxRows

(* Git, here or elsewhere, changes the repository. *)
RepoChanges(h) ==
  /\ IF h = "none" THEN Short ELSE Room
  /\ head' = h
  /\ timers' = IF watching THEN timers \cup {"repo"} ELSE timers
  /\ UNCHANGED <<process, tasks, watching, branch, front>>

FileChanges(f) ==
  /\ Room
  /\ timers' = IF watching THEN timers \cup {f} ELSE timers
  /\ UNCHANGED <<process, tasks, head, watching, branch, front>>

RepoTimeout ==
  /\ "repo" \in timers
  /\ timers' = timers \ {"repo"}
  /\ GitRepo
  /\ Enqueue(RepoDiff)
  /\ UNCHANGED <<head, watching, branch, front>>

IndexTimeout ==
  /\ "index" \in timers
  /\ timers' = timers \ {"index"}
  /\ Enqueue(<<"Status">>)
  /\ UNCHANGED <<tasks, head, watching, branch, front>>

BranchTimeout ==
  /\ "branch" \in timers
  /\ timers' = timers \ {"branch"}
  /\ Enqueue(<<"Branch">>)
  /\ UNCHANGED <<tasks, head, watching, branch, front>>

Timeout == RepoTimeout \/ IndexTimeout \/ BranchTimeout

(***************************************************************************)
(* The user.                                                               *)
(***************************************************************************)

(* The push window is opened by gitPushPre, when there is where to push;   *)
(* the other way it leads to RemoteAdd.  gitLog needs a branch.            *)
Offered(c) == /\ c \in Free \/ (c \in Menu /\ status = "Idle")
              /\ (c = "Ahead" => remote /\ upstream)
              /\ (c = "RemoteAdd" => ~remote)
              /\ (c = "Push" => window)

Give(c) ==
  /\ Room
  /\ Offered(c)
  /\ Enqueue(<<c>>)
  /\ IF c \in {"Fetch", "Push"} THEN Transfer ELSE UNCHANGED tasks
  /\ window' = (c = "Ahead" \/ (window /\ c # "Push"))
  /\ UNCHANGED <<head, watching, timers, branch, dialog>>

(* The user switches the log to another branch. *)
BranchSet ==
  /\ Room
  /\ "Log" \in Free
  /\ current' = TRUE
  /\ Enqueue(<<"Log">>)
  /\ UNCHANGED <<tasks, head, watching, timers, remote, upstream, front>>

(* The dialog is accepted, or closed. *)
Answer ==
  /\ dialog
  /\ dialog' = FALSE
  /\ Enqueue(<<"Continue">>) \/ UNCHANGED process
  /\ UNCHANGED <<tasks, head, watching, timers, branch, window>>

(* backgroundAbort removes the row and calls gitAbort. *)
Abort ==
  /\ Room
  /\ \/ task # "none" /\ RemoveTask
     \/ \E k \in Kinds : /\ rows[k] > 0
                         /\ rows' = [rows EXCEPT ![k] = @ - 1]
                         /\ UNCHANGED task
  /\ Enqueue(IF status \in Merging THEN <<"Abort">> ELSE << >>)
  /\ UNCHANGED <<status, head, watching, timers, branch, front>>

(* backgroundInfo of a row that gitRepo added. *)
Info ==
  /\ Room
  /\ task = "repo" \/ rows["repo"] > 0
  /\ Enqueue(<<"Diff">>)
  /\ UNCHANGED <<tasks, head, watching, timers, branch, front>>

User == (\E c \in Menu \cup Free : Give(c)) \/ BranchSet \/ Answer \/ Abort \/ Info

World == \/ \E h \in Heads : RepoChanges(h)
         \/ \E f \in {"index", "branch"} : FileChanges(f)

Next == Finish \/ Timeout \/ User \/ World

(* Git commands end, timers expire; users and the world owe nothing. *)
Fairness == /\ WF_vars(Finish)
            /\ WF_vars(RepoTimeout) /\ WF_vars(IndexTimeout) /\ WF_vars(BranchTimeout)

Spec == Init /\ [][Next]_vars
FairSpec == Spec /\ Fairness

(***************************************************************************)
(* Properties.                                                             *)
(***************************************************************************)

Pending(c) == running = c \/ \E i \in DOMAIN queue : queue[i] = c

(* While the status says that a transfer is on, which disables the menus,  *)
(* a transfer is running or queued: gitFetch and gitPush set the status    *)
(* before their turn comes, and every end of the command resets it.        *)
TransferPending == ~Faults /\ status = "Transfer" => Pending("Fetch") \/ Pending("Push")

(* The row m_taskId names is of the operation that the status names, or is *)
(* gone: the status and the row are set and removed in seven handlers.     *)
TaskMatchesStatus == CASE task = "transfer" -> status = "Transfer"
                       [] task = "repo" -> status \in Merging
                       [] OTHER -> TRUE

(* No handler leaves commands waiting behind a process that stands still,  *)
(* but that of a Diff that came too late, or when git does not start.      *)
StallsBehindDiff ==
  [][~Faults /\ running' = Null /\ queue' # << >> => running \in {Null, "Diff"}]_vars

(* A transfer that the user started comes to its end, and with it the menus *)
(* are enabled again.                                                      *)
TransferEnds == (status = "Transfer") ~> (status # "Transfer")

(* No command waits while the process stands still, as the queue of        *)
(* CHANGELOG.md:91 is to ensure.                                           *)
NothingStalls == running = Null => queue = << >>

(* The status bar counts "tasks running": none runs when there is no       *)
(* transfer, no merge, and nothing queued.                                 *)
RowsAreTasks == status = "Idle" /\ running = Null => \A k \in Kinds : rows[k] = 0

(* When the repository stays in the middle of a merge, or out of one, the  *)
(* status comes to say so, as long as the queue moves.                     *)
StatusMeetsHead ==
  <>[](watching /\ head = "none") => []<>(status \notin Merging \/ (running = Null /\ queue # << >>))

=============================================================================
