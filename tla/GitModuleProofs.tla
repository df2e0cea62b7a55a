-------------------------- MODULE GitModuleProofs --------------------------
(***************************************************************************)
(* For every set of commands, every state of the repository and every      *)
(* bound: the types, the pending transfer, the row of the status and the   *)
(* only handler that leaves commands waiting.                              *)
(***************************************************************************)
EXTENDS GitModule, GitLog, SequenceTheorems, FiniteSetTheorems, WellFoundedInduction, TLAPS

LEMMA NullIsNoCommand == Null \notin Commands
  BY DEF Null, Commands, Plain, Then, Ends, Asks

LEMMA CommandsKnown ==
  /\ Plain \subseteq Commands
  /\ {"Add", "Commit", "Fetch", "Push", "Continue", "Abort", "Watch", "RemoteAdd",
      "RemoteGet", "UpstreamGet", "Branch", "Log", "Diff", "Status", "Ahead",
      "ShowCommit", "Diff_"} \subseteq Commands
  BY DEF Commands, Plain, Ends

(* What the process' queue holds after a launch.                        *)
LEMMA LaunchTypes ==
  ASSUME NEW cmds \in Seq(Commands), NEW n \in Nat, TypeOK, Launch(cmds, n)
  PROVE  queue' \in Seq(Commands) /\ running' \in Commands \cup {Null}
<1> DEFINE q == queue \o cmds
           tries == Least(n, Len(q))
<1>1. q \in Seq(Commands)
  BY DEF TypeOK
<1>2. tries \in 0 .. Len(q)
  BY <1>1 DEF Least
<1>3. PICK lost \in 0 .. tries :
        /\ running' = IF lost = tries THEN Null ELSE q[lost + 1]
        /\ queue' = SubSeq(q, (IF lost = tries THEN lost ELSE lost + 1) + 1, Len(q))
  <2>1. PICK lost \in 0 .. (IF Faults THEN tries ELSE 0) :
        /\ running' = IF lost = tries THEN Null ELSE q[lost + 1]
        /\ queue' = SubSeq(q, (IF lost = tries THEN lost ELSE lost + 1) + 1, Len(q))
    BY DEF Launch
  <2>2. lost \in 0 .. tries
    BY <1>2, <2>1
  <2> QED BY <2>1, <2>2
<1> HIDE DEF q, tries
<1>4. CASE lost = tries
  BY <1>1, <1>2, <1>3, <1>4
<1>5. CASE lost # tries
  <2>1. lost + 1 \in 1 .. Len(q)
    BY <1>2, <1>3, <1>5
  <2> QED BY <1>1, <1>2, <1>3, <1>5, <2>1
<1> QED BY <1>4, <1>5

(* When git starts, a launch runs the first command and keeps the others.  *)
LEMMA LaunchRuns ==
  ASSUME NEW cmds \in Seq(Commands), NEW n \in Nat, TypeOK, Launch(cmds, n), ~Faults
  PROVE  LET q == queue \o cmds
         IN IF n = 0 \/ Len(q) = 0
            THEN running' = Null /\ queue' = q
            ELSE running' = q[1] /\ queue' = SubSeq(q, 2, Len(q))
<1> DEFINE q == queue \o cmds
           tries == Least(n, Len(q))
<1>1. q \in Seq(Commands)
  BY DEF TypeOK
<1>2. tries \in Nat /\ (tries = 0 <=> n = 0 \/ Len(q) = 0)
  BY <1>1 DEF Least
<1>3. /\ running' = IF 0 = tries THEN Null ELSE q[0 + 1]
      /\ queue' = SubSeq(q, (IF 0 = tries THEN 0 ELSE 0 + 1) + 1, Len(q))
  <2>1. PICK lost \in 0 .. 0 :
        /\ running' = IF lost = tries THEN Null ELSE q[lost + 1]
        /\ queue' = SubSeq(q, (IF lost = tries THEN lost ELSE lost + 1) + 1, Len(q))
    BY DEF Launch
  <2>2. lost = 0
    BY <2>1
  <2> QED BY <2>1, <2>2
<1> HIDE DEF q, tries
<1>4. SubSeq(q, 1, Len(q)) = q
  BY <1>1
<1>5. (IF 0 = tries THEN 0 ELSE 0 + 1) + 1 = IF tries = 0 THEN 1 ELSE 2
  BY <1>2
<1>6. IF n = 0 \/ Len(q) = 0
      THEN running' = Null /\ queue' = q
      ELSE running' = q[1] /\ queue' = SubSeq(q, 2, Len(q))
  BY <1>2, <1>3, <1>4, <1>5
<1> QED BY <1>6 DEF q

Has(s, c) == \E i \in DOMAIN s : s[i] = c

LEMMA LaunchKeeps ==
  ASSUME NEW cmds \in Seq(Commands), NEW n \in Nat, TypeOK, Launch(cmds, n), ~Faults,
         NEW c, Has(queue, c) \/ Has(cmds, c)
  PROVE  Pending(c)'
<1> DEFINE q == queue \o cmds
<1>1. q \in Seq(Commands) /\ queue \in Seq(Commands)
  BY DEF TypeOK
<1>2. PICK j \in 1 .. Len(q) : q[j] = c
  <2>1. CASE Has(queue, c)
    <3>1. PICK i \in DOMAIN queue : queue[i] = c
      BY <2>1 DEF Has
    <3>2. i \in 1 .. Len(q) /\ q[i] = c
      BY <1>1, <3>1
    <3> QED BY <3>2
  <2>2. CASE Has(cmds, c)
    <3>1. PICK i \in DOMAIN cmds : cmds[i] = c
      BY <2>2 DEF Has
    <3>2. Len(queue) + i \in 1 .. Len(q) /\ q[Len(queue) + i] = c
      BY <1>1, <3>1
    <3> QED BY <3>2
  <2> QED BY <2>1, <2>2
<1>3. IF n = 0 \/ Len(q) = 0
      THEN running' = Null /\ queue' = q
      ELSE running' = q[1] /\ queue' = SubSeq(q, 2, Len(q))
  BY LaunchRuns
<1> HIDE DEF q
<1>4. CASE n = 0
  <2>1. j \in DOMAIN queue' /\ queue'[j] = c
    BY <1>1, <1>2, <1>3, <1>4
  <2> QED BY <2>1 DEF Pending
<1>5. CASE n # 0 /\ j = 1
  BY <1>1, <1>2, <1>3, <1>5 DEF Pending
<1>6. CASE n # 0 /\ j # 1
  <2>1. queue' = SubSeq(q, 2, Len(q)) /\ j - 1 \in 1 .. Len(q) - 1
    BY <1>1, <1>2, <1>3, <1>6
  <2>2. j - 1 \in DOMAIN queue' /\ queue'[j - 1] = c
    BY <1>1, <1>2, <2>1
  <2> QED BY <2>2 DEF Pending
<1> QED BY <1>4, <1>5, <1>6

LEMMA LaunchEmpties ==
  ASSUME NEW cmds \in Seq(Commands), NEW n \in Nat \ {0}, TypeOK, Launch(cmds, n), ~Faults,
         running' = Null
  PROVE  queue' = << >>
<1> DEFINE q == queue \o cmds
<1>1. q \in Seq(Commands)
  BY DEF TypeOK
<1>2. IF n = 0 \/ Len(q) = 0
      THEN running' = Null /\ queue' = q
      ELSE running' = q[1] /\ queue' = SubSeq(q, 2, Len(q))
  BY LaunchRuns
<1> HIDE DEF q
<1>3. Len(q) # 0 => q[1] \in Commands
  BY <1>1
<1>4. Len(q) = 0
  BY <1>2, <1>3, NullIsNoCommand
<1> QED BY <1>1, <1>2, <1>4

(* Enqueueing keeps what is pending, adds its commands, and starts what it *)
(* finds standing still.                                                   *)
LEMMA EnqueueTypes ==
  ASSUME NEW cmds \in Seq(Commands), TypeOK, Enqueue(cmds)
  PROVE  queue' \in Seq(Commands) /\ running' \in Commands \cup {Null}
<1>1. CASE running = Null
  <2>1. PICK n \in Nat : Launch(cmds, n)
    BY <1>1, Len(cmds) \in Nat DEF Enqueue
  <2> QED BY <2>1, LaunchTypes
<1>2. CASE running # Null
  <2>1. queue' = queue \o cmds /\ running' = running
    BY <1>2 DEF Enqueue
  <2>2. queue \in Seq(Commands) /\ running \in Commands \cup {Null}
    BY DEF TypeOK
  <2> QED BY <2>1, <2>2
<1> QED BY <1>1, <1>2

LEMMA EnqueueKeeps ==
  ASSUME NEW cmds \in Seq(Commands), TypeOK, Enqueue(cmds), ~Faults,
         NEW c \in Commands, Pending(c) \/ Has(cmds, c)
  PROVE  Pending(c)'
<1>1. CASE running = Null
  <2>1. Has(queue, c) \/ Has(cmds, c)
    BY <1>1, NullIsNoCommand DEF Pending, Has
  <2>2. Launch(cmds, Len(cmds)) /\ Len(cmds) \in Nat
    BY <1>1 DEF Enqueue
  <2> QED BY <2>1, <2>2, LaunchKeeps
<1>2. CASE running # Null
  <2>1. queue' = queue \o cmds /\ running' = running /\ queue \in Seq(Commands)
    BY <1>2 DEF Enqueue, TypeOK
  <2>2. CASE running = c
    BY <2>1, <2>2 DEF Pending
  <2>3. ASSUME NEW i \in DOMAIN queue, queue[i] = c PROVE Pending(c)'
    <3>1. i \in DOMAIN queue' /\ queue'[i] = c
      BY <2>1, <2>3
    <3> QED BY <3>1 DEF Pending
  <2>4. ASSUME NEW i \in DOMAIN cmds, cmds[i] = c PROVE Pending(c)'
    <3>1. Len(queue) + i \in DOMAIN queue' /\ queue'[Len(queue) + i] = c
      BY <2>1, <2>4
    <3> QED BY <3>1 DEF Pending
  <2> QED BY <2>2, <2>3, <2>4 DEF Pending, Has
<1> QED BY <1>1, <1>2

(***************************************************************************)
(* What the events do to the queue.                                        *)
(***************************************************************************)

LEMMA FollowTypes == \A c \in Plain : Follow(c) \in Seq(Commands)
<1>1. <<"Watch">> \in Seq(Commands) /\ <<"UpstreamGet">> \in Seq(Commands)
      /\ <<"Diff_">> \in Seq(Commands) /\ << >> \in Seq(Commands)
  BY CommandsKnown
<1>2. \A c \in DOMAIN Then : Then[c] = <<"Watch">>
  BY DEF Then
<1> QED BY <1>1, <1>2 DEF Follow

LEMMA RepoDiffTypes == RepoDiff \in Seq(Commands)
  BY CommandsKnown DEF RepoDiff

LEMMA FinishLaunches ==
  ASSUME TypeOK, Finish
  PROVE  /\ running \in Commands
         /\ \E cmds \in Seq(Commands), n \in Nat :
              /\ Launch(cmds, n)
              /\ n = 0 => Faults \/ running = "Diff"
<1> USE CommandsKnown
<1>e. ASSUME NEW cmds \in Seq(Commands), Ended(cmds)
      PROVE  \E cs \in Seq(Commands), n \in Nat :
               Launch(cs, n) /\ (n = 0 => Faults \/ running = "Diff")
  BY <1>e, Len(cmds) + 1 \in Nat \ {0} DEF Ended
<1>r. ASSUME Returned, Faults \/ running = "Diff"
      PROVE  \E cs \in Seq(Commands), n \in Nat :
               Launch(cs, n) /\ (n = 0 => Faults \/ running = "Diff")
  BY <1>r, << >> \in Seq(Commands) DEF Returned
<1>1. ASSUME NEW c \in Plain, FinishPlain(c)
      PROVE  running \in Commands /\ \E cmds \in Seq(Commands) : Ended(cmds)
  <2>1. Follow(c) \in Seq(Commands) /\ << >> \in Seq(Commands)
    BY <1>1, FollowTypes
  <2>2. running \in Commands /\ (Ended(Follow(c)) \/ Ended(<< >>))
    BY <1>1 DEF FinishPlain
  <2> QED BY <2>1, <2>2
<1>2. ASSUME NEW c \in {"Add", "Commit"}, FinishChange(c)
      PROVE  running \in Commands /\ \E cmds \in Seq(Commands) : Ended(cmds)
  <2> DEFINE watch == IF current THEN << >> ELSE <<"Watch", "Status">>
             diff == IF c = "Add" /\ status # "Idle" THEN <<"Diff">> ELSE << >>
  <2>1. watch \in Seq(Commands) /\ diff \in Seq(Commands)
    OBVIOUS
  <2>2. watch \o diff \in Seq(Commands) /\ << >> \in Seq(Commands)
    BY <2>1
  <2>3. running \in Commands /\ (Ended(watch \o diff) \/ Ended(<< >>))
    BY <1>2 DEF FinishChange
  <2> QED BY <2>2, <2>3
<1>3. ASSUME NEW c \in {"Fetch", "Push"}, FinishTransfer(c)
      PROVE  running \in Commands /\ \E cmds \in Seq(Commands) : Ended(cmds)
  <2>1. running \in Commands /\ (Ended(<<"Watch">>) \/ Ended(<< >>))
    BY <1>3 DEF FinishTransfer
  <2> QED BY <2>1, <<"Watch">> \in Seq(Commands), << >> \in Seq(Commands)
<1>4. ASSUME NEW c \in {"Continue", "Abort"}, FinishMerge(c)
      PROVE  running \in Commands /\ \E cmds \in Seq(Commands) : Ended(cmds)
  BY <1>4, << >> \in Seq(Commands) DEF FinishMerge
<1>5. CASE FinishWatch
  <2>1. RepoDiff \o <<"RemoteGet">> \in Seq(Commands)
    BY RepoDiffTypes, <<"RemoteGet">> \in Seq(Commands)
  <2>2. running \in Commands /\ << >> \in Seq(Commands)
    BY <1>5 DEF FinishWatch
  <2>3. Ended(RepoDiff \o <<"RemoteGet">>) \/ Ended(<< >>) \/ (Faults /\ Returned)
    BY <1>5 DEF FinishWatch
  <2> QED BY <1>e, <1>r, <2>1, <2>2, <2>3
<1>6. CASE FinishRemoteAdd
  <2>1. running \in Commands /\ (Ended(<<"Fetch">>) \/ Ended(<< >>))
    BY <1>6 DEF FinishRemoteAdd
  <2> QED BY <1>e, <2>1, <<"Fetch">> \in Seq(Commands), << >> \in Seq(Commands)
<1>7. CASE FinishRemoteGet
  <2>1. running \in Commands /\ (Ended(<<"UpstreamGet">>) \/ Ended(<< >>))
    BY <1>7 DEF FinishRemoteGet
  <2> QED BY <1>e, <2>1, <<"UpstreamGet">> \in Seq(Commands), << >> \in Seq(Commands)
<1>8. CASE FinishUpstreamGet
  <2>1. running \in Commands /\ Ended(<<"Branch">>)
    BY <1>8 DEF FinishUpstreamGet
  <2> QED BY <1>e, <2>1, <<"Branch">> \in Seq(Commands)
<1>9. CASE FinishBranch
  <2>1. running \in Commands /\ (Ended(<<"Log">>) \/ Ended(<< >>))
    BY <1>9 DEF FinishBranch
  <2> QED BY <1>e, <2>1, <<"Log">> \in Seq(Commands), << >> \in Seq(Commands)
<1>10. CASE FinishLog
  <2>1. running \in Commands /\ (Ended(<<"ShowCommit">>) \/ Ended(<< >>))
    BY <1>10 DEF FinishLog
  <2> QED BY <1>e, <2>1, <<"ShowCommit">> \in Seq(Commands), << >> \in Seq(Commands)
<1>11. CASE FinishDiff
  <2>1. running = "Diff" /\ (Ended(<< >>) \/ Returned)
    BY <1>11 DEF FinishDiff
  <2> QED BY <1>e, <1>r, <2>1, << >> \in Seq(Commands)
<1> QED BY <1>e, <1>1, <1>2, <1>3, <1>4, <1>5, <1>6, <1>7, <1>8, <1>9, <1>10, <1>11 DEF Finish

LEMMA OthersEnqueue ==
  ASSUME TypeOK, Timeout \/ User \/ World
  PROVE  UNCHANGED process \/ \E cmds \in Seq(Commands) : Enqueue(cmds)
<1> USE CommandsKnown
<1>1. CASE Timeout
  BY <1>1, RepoDiffTypes, <<"Status">> \in Seq(Commands), <<"Branch">> \in Seq(Commands)
  DEF Timeout, RepoTimeout, IndexTimeout, BranchTimeout
<1>2. CASE User
  <2>1. ASSUME NEW c \in Menu \cup Free, Give(c)
        PROVE  \E cmds \in Seq(Commands) : Enqueue(cmds)
    <3>1. <<c>> \in Seq(Commands)
      BY GitAssumption
    <3> QED BY <2>1, <3>1 DEF Give
  <2>2. CASE BranchSet
    BY <2>2, <<"Log">> \in Seq(Commands) DEF BranchSet
  <2>3. CASE Answer
    BY <2>3, <<"Continue">> \in Seq(Commands) DEF Answer
  <2>4. CASE Abort
    BY <2>4, <<"Abort">> \in Seq(Commands), << >> \in Seq(Commands) DEF Abort
  <2>5. CASE Info
    BY <2>5, <<"Diff">> \in Seq(Commands) DEF Info
  <2> QED BY <1>2, <2>1, <2>2, <2>3, <2>4, <2>5 DEF User
<1>3. CASE World
  BY <1>3 DEF World, RepoChanges, FileChanges
<1> QED BY <1>1, <1>2, <1>3

LEMMA ProcessTypes ==
  ASSUME TypeOK, [Next]_vars
  PROVE  queue' \in Seq(Commands) /\ running' \in Commands \cup {Null}
<1>1. CASE Finish
  BY <1>1, FinishLaunches, LaunchTypes
<1>2. CASE Timeout \/ User \/ World
  <2>1. CASE UNCHANGED process
    BY <2>1 DEF process, TypeOK
  <2>2. CASE \E cmds \in Seq(Commands) : Enqueue(cmds)
    BY <2>2, EnqueueTypes
  <2> QED BY <1>2, <2>1, <2>2, OthersEnqueue
<1>3. CASE UNCHANGED vars
  BY <1>3 DEF vars, process, TypeOK
<1> QED BY <1>1, <1>2, <1>3 DEF Next

(* The types of everything but the process. *)
TypeRest == /\ status \in Merging \cup {"Idle", "Transfer"}
            /\ head \in Heads
            /\ watching \in BOOLEAN
            /\ timers \subseteq {"repo", "index", "branch"}
            /\ task \in Kinds \cup {"none"}
            /\ rows \in [Kinds -> Nat]
            /\ remote \in BOOLEAN /\ upstream \in BOOLEAN /\ current \in BOOLEAN
            /\ window \in BOOLEAN /\ dialog \in BOOLEAN

LEMMA TypeSplit == TypeOK <=> /\ queue \in Seq(Commands)
                              /\ running \in Commands \cup {Null}
                              /\ TypeRest
  BY DEF TypeOK, TypeRest

TaskTypes == /\ status \in Merging \cup {"Idle", "Transfer"}
             /\ task \in Kinds \cup {"none"}
             /\ rows \in [Kinds -> Nat]

LEMMA AppendTaskTypes ==
  ASSUME TaskTypes, NEW k \in Kinds, AppendTask(k)
  PROVE  task' \in Kinds \cup {"none"} /\ rows' \in [Kinds -> Nat]
<1>1. task' = k /\ (rows' = rows \/ (task \in Kinds /\ rows' = [rows EXCEPT ![task] = @ + 1]))
  BY DEF AppendTask, TaskTypes
<1> QED BY <1>1 DEF TaskTypes

LEMMA GitRepoTypes ==
  ASSUME TaskTypes, head \in Heads, GitRepo
  PROVE  TaskTypes'
<1>1. status' \in Merging \cup {"Idle", "Transfer"}
  <2>1. RepoFound => head \in Merging
    BY GitAssumption DEF RepoFound
  <2> QED BY <2>1 DEF GitRepo, RepoStatus, TaskTypes
<1>2. task' \in Kinds \cup {"none"} /\ rows' \in [Kinds -> Nat]
  <2>1. AppendTask("repo") \/ UNCHANGED <<task, rows>>
    BY DEF GitRepo
  <2>2. "repo" \in Kinds
    BY DEF Kinds
  <2> QED BY <2>1, <2>2, AppendTaskTypes DEF TaskTypes
<1> QED BY <1>1, <1>2 DEF TaskTypes

LEMMA TransferTypes ==
  ASSUME TaskTypes, Transfer
  PROVE  TaskTypes'
<1>1. "transfer" \in Kinds
  BY DEF Kinds
<1> QED BY <1>1, AppendTaskTypes DEF Transfer, TaskTypes

LEMMA RemoveTaskTypes ==
  ASSUME TaskTypes, RemoveTask
  PROVE  task' \in Kinds \cup {"none"} /\ rows' \in [Kinds -> Nat]
  BY DEF RemoveTask, TaskTypes

LEMMA RestTypes ==
  ASSUME TypeOK, [Next]_vars
  PROVE  TypeRest'
<1> TypeRest /\ TaskTypes
  BY TypeSplit DEF TypeRest, TaskTypes
<1> USE DEF vars, tasks, branch, front
<1>q. ASSUME UNCHANGED tasks PROVE TaskTypes'
  BY <1>q DEF TaskTypes
<1>1. ASSUME NEW c \in Plain, FinishPlain(c) PROVE TypeRest'
  BY <1>1 DEF FinishPlain, TypeRest
<1>2. ASSUME NEW c \in {"Add", "Commit"}, FinishChange(c) PROVE TypeRest'
  BY <1>2 DEF FinishChange, TypeRest
<1>3. ASSUME NEW c \in {"Fetch", "Push"}, FinishTransfer(c) PROVE TypeRest'
  BY <1>3, RemoveTaskTypes DEF FinishTransfer, TypeRest
<1>4. ASSUME NEW c \in {"Continue", "Abort"}, FinishMerge(c) PROVE TypeRest'
  BY <1>4, RemoveTaskTypes DEF FinishMerge, TypeRest
<1>5. CASE FinishWatch
  <2>1. TaskTypes'
    BY <1>5, <1>q, GitRepoTypes DEF FinishWatch, TypeRest
  <2>2. UNCHANGED <<head, timers, branch, front>> /\ watching' \in BOOLEAN
    BY <1>5 DEF FinishWatch, TypeRest
  <2> QED BY <2>1, <2>2 DEF TypeRest, TaskTypes
<1>6. CASE FinishRemoteAdd
  <2>1. TaskTypes'
    BY <1>6, <1>q, TransferTypes DEF FinishRemoteAdd
  <2>2. UNCHANGED <<head, watching, timers, branch, front>>
    BY <1>6 DEF FinishRemoteAdd
  <2> QED BY <2>1, <2>2 DEF TypeRest, TaskTypes
<1>7. CASE FinishRemoteGet
  BY <1>7 DEF FinishRemoteGet, TypeRest
<1>8. CASE FinishUpstreamGet
  BY <1>8 DEF FinishUpstreamGet, TypeRest
<1>9. CASE FinishBranch
  BY <1>9 DEF FinishBranch, TypeRest
<1>10. CASE FinishLog
  BY <1>10 DEF FinishLog, TypeRest
<1>11. CASE FinishDiff
  BY <1>11 DEF FinishDiff, TypeRest
<1>12. CASE Finish
  BY <1>1, <1>2, <1>3, <1>4, <1>5, <1>6, <1>7, <1>8, <1>9, <1>10, <1>11, <1>12 DEF Finish
<1>13. CASE RepoTimeout
  <2>1. TaskTypes' /\ UNCHANGED <<head, watching, branch, front>> /\ timers' \subseteq timers
    BY <1>13, GitRepoTypes DEF RepoTimeout, TypeRest
  <2> QED BY <2>1 DEF TypeRest, TaskTypes
<1>14. CASE IndexTimeout
  BY <1>14 DEF IndexTimeout, TypeRest
<1>15. CASE BranchTimeout
  BY <1>15 DEF BranchTimeout, TypeRest
<1>16. ASSUME NEW c \in Menu \cup Free, Give(c) PROVE TypeRest'
  <2>1. TaskTypes'
    BY <1>16, <1>q, TransferTypes DEF Give
  <2>2. UNCHANGED <<head, watching, timers, branch, dialog>> /\ window' \in BOOLEAN
    BY <1>16 DEF Give, TypeRest
  <2> QED BY <2>1, <2>2 DEF TypeRest, TaskTypes
<1>17. CASE BranchSet
  BY <1>17 DEF BranchSet, TypeRest
<1>18. CASE Answer
  BY <1>18 DEF Answer, TypeRest
<1>19. CASE Abort
  <2>1. task' \in Kinds \cup {"none"} /\ rows' \in [Kinds -> Nat]
    <3>1. CASE RemoveTask
      BY <3>1, RemoveTaskTypes
    <3>2. ASSUME NEW k \in Kinds, rows[k] > 0, rows' = [rows EXCEPT ![k] = @ - 1], UNCHANGED task
          PROVE  task' \in Kinds \cup {"none"} /\ rows' \in [Kinds -> Nat]
      BY <3>2 DEF TaskTypes
    <3> QED BY <1>19, <3>1, <3>2 DEF Abort
  <2>2. UNCHANGED <<status, head, watching, timers, branch, front>>
    BY <1>19 DEF Abort
  <2> QED BY <2>1, <2>2 DEF TypeRest
<1>20. CASE Info
  BY <1>20 DEF Info, TypeRest
<1>21. ASSUME NEW h \in Heads, RepoChanges(h) PROVE TypeRest'
  BY <1>21 DEF RepoChanges, TypeRest
<1>22. ASSUME NEW f \in {"index", "branch"}, FileChanges(f) PROVE TypeRest'
  BY <1>22 DEF FileChanges, TypeRest
<1>23. CASE UNCHANGED vars
  BY <1>23 DEF TypeRest
<1> QED BY <1>12, <1>13, <1>14, <1>15, <1>16, <1>17, <1>18, <1>19, <1>20, <1>21, <1>22, <1>23
    DEF Next, Timeout, User, World

LEMMA TypesInit == Init => TypeOK
<1> SUFFICES ASSUME Init PROVE TypeOK
  OBVIOUS
<1>1. << >> \in Seq(Commands) /\ running \in Commands \cup {Null}
  BY CommandsKnown DEF Init
<1>2. rows \in [Kinds -> Nat]
  BY DEF Init
<1> QED BY <1>1, <1>2 DEF Init, TypeOK

LEMMA TypesStep == TypeOK /\ [Next]_vars => TypeOK'
  BY ProcessTypes, RestTypes, TypeSplit DEF TypeOK, TypeRest

(* The queue holds commands, the status and the rows stay within their     *)
(* types, whatever the handlers queue.                                     *)
THEOREM GitTypeOK == Spec => []TypeOK
  BY TypesInit, TypesStep, PTL DEF Spec

(* Only the handler of a Diff that came too late leaves commands behind.   *)
THEOREM GitStallsBehindDiff == Spec => StallsBehindDiff
<1> DEFINE Behind == ~Faults /\ running' = Null /\ queue' # << >> => running \in {Null, "Diff"}
<1>1. TypeOK /\ [Next]_vars => [Behind]_vars
  <2> SUFFICES ASSUME TypeOK, Next, ~Faults, running' = Null, queue' # << >>
               PROVE  running \in {Null, "Diff"}
    OBVIOUS
  <2>1. CASE Finish
    <3>1. PICK cmds \in Seq(Commands), n \in Nat :
            Launch(cmds, n) /\ (n = 0 => Faults \/ running = "Diff")
      BY <2>1, FinishLaunches
    <3>2. n = 0
      BY <3>1, LaunchEmpties
    <3> QED BY <3>1, <3>2
  <2>2. CASE Timeout \/ User \/ World
    <3>1. CASE UNCHANGED process
      BY <3>1 DEF process
    <3>2. CASE \E cmds \in Seq(Commands) : Enqueue(cmds)
      BY <3>2 DEF Enqueue
    <3> QED BY <2>2, <3>1, <3>2, OthersEnqueue
  <2> QED BY <2>1, <2>2 DEF Next
<1> QED BY <1>1, GitTypeOK, PTL DEF Spec, StallsBehindDiff

(***************************************************************************)
(* The row of the status.                                                  *)
(***************************************************************************)

LEMMA GitRepoMatches ==
  ASSUME TypeOK, TaskMatchesStatus, GitRepo
  PROVE  TaskMatchesStatus'
<1>1. CASE RepoFound
  <2>1. task' = "repo" /\ status' = head /\ head \in Merging
    BY <1>1, GitAssumption DEF GitRepo, AppendTask, RepoStatus, RepoFound, TypeOK
  <2> QED BY <2>1 DEF TaskMatchesStatus
<1>2. CASE ~RepoFound
  BY <1>2 DEF GitRepo, RepoStatus, TaskMatchesStatus
<1> QED BY <1>1, <1>2

LEMMA TransferMatches == Transfer => TaskMatchesStatus'
  BY DEF Transfer, AppendTask, TaskMatchesStatus

LEMMA RemoveMatches == RemoveTask => TaskMatchesStatus'
  BY DEF RemoveTask, TaskMatchesStatus

LEMMA MatchesStep ==
  ASSUME TypeOK, TaskMatchesStatus, [Next]_vars
  PROVE  TaskMatchesStatus'
<1>q. ASSUME UNCHANGED <<status, task>> PROVE TaskMatchesStatus'
  BY <1>q DEF TaskMatchesStatus
<1> USE DEF tasks
<1>1. CASE Finish
  <2>1. CASE FinishWatch
    BY <1>q, <2>1, GitRepoMatches DEF FinishWatch
  <2>2. CASE FinishRemoteAdd
    BY <1>q, <2>2, TransferMatches DEF FinishRemoteAdd
  <2>3. ASSUME NEW c \in {"Fetch", "Push"}, FinishTransfer(c) PROVE TaskMatchesStatus'
    BY <2>3, RemoveMatches DEF FinishTransfer
  <2>4. ASSUME NEW c \in {"Continue", "Abort"}, FinishMerge(c) PROVE TaskMatchesStatus'
    BY <1>q, <2>4, RemoveMatches DEF FinishMerge
  <2>5. CASE (\E c \in Plain : FinishPlain(c)) \/ (\E c \in {"Add", "Commit"} : FinishChange(c))
             \/ FinishRemoteGet \/ FinishUpstreamGet \/ FinishBranch \/ FinishLog \/ FinishDiff
    BY <1>q, <2>5 DEF FinishPlain, FinishChange, FinishRemoteGet, FinishUpstreamGet,
                      FinishBranch, FinishLog, FinishDiff
  <2> QED BY <1>1, <2>1, <2>2, <2>3, <2>4, <2>5 DEF Finish
<1>2. CASE Timeout
  BY <1>q, <1>2, GitRepoMatches DEF Timeout, RepoTimeout, IndexTimeout, BranchTimeout
<1>3. CASE User
  <2>1. ASSUME NEW c \in Menu \cup Free, Give(c) PROVE TaskMatchesStatus'
    BY <1>q, <2>1, TransferMatches DEF Give
  <2>2. CASE Abort
    BY <1>q, <2>2, RemoveMatches DEF Abort
  <2>3. CASE BranchSet \/ Answer \/ Info
    BY <1>q, <2>3 DEF BranchSet, Answer, Info
  <2> QED BY <1>3, <2>1, <2>2, <2>3 DEF User
<1>4. CASE World
  BY <1>q, <1>4 DEF World, RepoChanges, FileChanges
<1>5. CASE UNCHANGED vars
  BY <1>q, <1>5 DEF vars
<1> QED BY <1>1, <1>2, <1>3, <1>4, <1>5 DEF Next

(* The row that m_taskId names is of the operation the status names.       *)
THEOREM GitTaskMatchesStatus == Spec => []TaskMatchesStatus
<1>1. Init => TaskMatchesStatus
  BY DEF Init, TaskMatchesStatus
<1> QED BY <1>1, MatchesStep, GitTypeOK, PTL DEF Spec

(***************************************************************************)
(* The pending transfer.                                                   *)
(***************************************************************************)

Waits == Pending("Fetch") \/ Pending("Push")

(* The end of any other command keeps a transfer that waits.               *)
LEMMA FinishKeeps ==
  ASSUME TypeOK, ~Faults, Waits, Finish, running \notin {"Fetch", "Push"}
  PROVE  Waits'
<1>1. PICK cmds \in Seq(Commands), n \in Nat : Launch(cmds, n)
  BY FinishLaunches
<1>2. Has(queue, "Fetch") \/ Has(queue, "Push")
  BY DEF Waits, Pending, Has
<1> QED BY <1>1, <1>2, LaunchKeeps DEF Waits

LEMMA OthersKeep ==
  ASSUME TypeOK, ~Faults, Waits, Timeout \/ User \/ World
  PROVE  Waits'
<1>1. CASE UNCHANGED process
  BY <1>1 DEF process, Waits, Pending
<1>2. CASE \E cmds \in Seq(Commands) : Enqueue(cmds)
  BY <1>2, EnqueueKeeps, CommandsKnown DEF Waits
<1> QED BY <1>1, <1>2, OthersEnqueue

LEMMA TransferStep ==
  ASSUME TypeOK, TransferPending, [Next]_vars
  PROVE  TransferPending'
<1> SUFFICES ASSUME ~Faults, status' = "Transfer" PROVE Waits'
  BY DEF TransferPending, Waits
<1>w. status = "Transfer" => Waits
  BY DEF TransferPending, Waits
<1> USE DEF tasks
<1>r. GitRepo => status = "Transfer"
  BY GitAssumption DEF GitRepo, RepoStatus, RepoFound, TypeOK, Merging
<1>1. CASE Finish
  <2>1. CASE FinishRemoteAdd
    <3>1. CASE Ended(<<"Fetch">>)
      <4>1. Launch(<<"Fetch">>, Len(<<"Fetch">>) + 1) /\ <<"Fetch">> \in Seq(Commands)
        BY <3>1, CommandsKnown DEF Ended
      <4>2. Has(<<"Fetch">>, "Fetch") /\ Len(<<"Fetch">>) + 1 \in Nat
        BY DEF Has
      <4> QED BY <4>1, <4>2, LaunchKeeps DEF Waits
    <3>2. CASE UNCHANGED tasks
      BY <1>1, <1>w, <2>1, <3>2, FinishKeeps DEF FinishRemoteAdd
    <3> QED BY <2>1, <3>1, <3>2 DEF FinishRemoteAdd
  <2>2. ASSUME NEW c \in {"Fetch", "Push"}, FinishTransfer(c) PROVE FALSE
    BY <2>2 DEF FinishTransfer
  <2>3. ASSUME status = "Transfer", running \notin {"Fetch", "Push"} PROVE Waits'
    BY <1>1, <1>w, <2>3, FinishKeeps
  <2>4. CASE FinishWatch
    BY <1>r, <2>3, <2>4 DEF FinishWatch
  <2>5. ASSUME NEW c \in {"Continue", "Abort"}, FinishMerge(c) PROVE Waits'
    BY <2>3, <2>5 DEF FinishMerge
  <2>6. ASSUME NEW c \in Plain, FinishPlain(c) PROVE Waits'
    <3>1. c \notin {"Fetch", "Push"}
      BY DEF Plain, Then, Ends, Asks
    <3> QED BY <2>3, <2>6, <3>1 DEF FinishPlain
  <2>7. ASSUME NEW c \in {"Add", "Commit"}, FinishChange(c) PROVE Waits'
    BY <2>3, <2>7 DEF FinishChange
  <2>8. CASE FinishRemoteGet \/ FinishUpstreamGet \/ FinishBranch \/ FinishLog \/ FinishDiff
    BY <2>3, <2>8 DEF FinishRemoteGet, FinishUpstreamGet, FinishBranch, FinishLog, FinishDiff
  <2> QED BY <1>1, <2>1, <2>2, <2>4, <2>5, <2>6, <2>7, <2>8 DEF Finish
<1>2. ASSUME status = "Transfer", Timeout \/ User \/ World PROVE Waits'
  BY <1>2, <1>w, OthersKeep
<1>3. CASE Timeout
  BY <1>r, <1>2, <1>3 DEF Timeout, RepoTimeout, IndexTimeout, BranchTimeout
<1>4. CASE User
  <2>1. ASSUME NEW c \in Menu \cup Free, Give(c) PROVE Waits'
    <3>1. CASE c \in {"Fetch", "Push"}
      <4>1. Enqueue(<<c>>) /\ <<c>> \in Seq(Commands) /\ c \in Commands /\ Has(<<c>>, c)
        BY <2>1, <3>1, CommandsKnown DEF Give, Has
      <4>2. Pending(c)'
        BY <4>1, EnqueueKeeps
      <4> QED BY <3>1, <4>2 DEF Waits
    <3>2. CASE c \notin {"Fetch", "Push"}
      BY <1>2, <1>4, <2>1, <3>2 DEF Give
    <3> QED BY <3>1, <3>2
  <2>2. CASE BranchSet \/ Answer \/ Abort \/ Info
    BY <1>2, <1>4, <2>2 DEF BranchSet, Answer, Abort, Info
  <2> QED BY <1>4, <2>1, <2>2 DEF User
<1>5. CASE World
  BY <1>2, <1>5 DEF World, RepoChanges, FileChanges
<1>6. CASE UNCHANGED vars
  BY <1>6, <1>w DEF vars, process, Waits, Pending
<1> QED BY <1>1, <1>3, <1>4, <1>5, <1>6 DEF Next

(* While the menus are disabled for a transfer, one is running or queued.  *)
THEOREM GitTransferPending == Spec => []TransferPending
<1>1. Init => TransferPending
  BY DEF Init, TransferPending
<1> QED BY <1>1, TransferStep, GitTypeOK, PTL DEF Spec

(***************************************************************************)
(* The graph of the log: inserting the parents of a commit.                *)
(***************************************************************************)

(* Induction over the numbers, with a set for the predicate. *)
LEMMA SetInduction ==
  ASSUME NEW S, 0 \in S, \A n \in Nat : n \in S => n + 1 \in S
  PROVE  \A n \in Nat : n \in S
<1> DEFINE T == Nat \ S
<1> SUFFICES ASSUME T # {} PROVE FALSE
  OBVIOUS
<1>1. T \subseteq Nat
  OBVIOUS
<1>2. PICK x \in T : \A y \in T : ~(<<y, x>> \in OpToRel(<, Nat))
  <2> HIDE DEF T
  <2> QED BY <1>1, NatLessThanWellFounded, WFMin
<1>3. x \in Nat /\ x # 0 /\ x - 1 \in Nat /\ x - 1 < x
  OBVIOUS
<1>4. <<x - 1, x>> \in OpToRel(<, Nat)
  BY <1>3 DEF OpToRel
<1>5. x - 1 \in T
  BY <1>3
<1> QED BY <1>2, <1>4, <1>5

(* Putting in is a shift of what is behind. *)
LEMMA PutInIs ==
  ASSUME NEW S, NEW rest \in Seq(S), NEW lane \in 0 .. Len(rest), NEW c \in S
  PROVE  LET r == PutIn(rest, lane, <<c>>)
         IN  /\ r \in Seq(S) /\ Len(r) = Len(rest) + 1
             /\ \A i \in 1 .. Len(rest) + 1 :
                  r[i] = IF i <= lane THEN rest[i] ELSE IF i = lane + 1 THEN c ELSE rest[i - 1]
<1>1. lane \in Nat /\ Len(rest) \in Nat /\ lane <= Len(rest)
  OBVIOUS
<1>2. PICK left, right : left = SubSeq(rest, 1, lane) /\ right = SubSeq(rest, lane + 1, Len(rest))
  OBVIOUS
<1>3. /\ left \in Seq(S) /\ Len(left) = lane
      /\ \A i \in 1 .. lane : left[i] = rest[i]
  BY <1>1, <1>2
<1>4. /\ right \in Seq(S) /\ Len(right) = Len(rest) - lane
      /\ \A i \in 1 .. Len(rest) - lane : right[i] = rest[lane + i]
  BY <1>1, <1>2
<1>5. PICK start : start = left \o <<c>>
  OBVIOUS
<1>6. /\ start \in Seq(S) /\ Len(start) = lane + 1
      /\ \A i \in 1 .. lane + 1 : start[i] = IF i <= lane THEN rest[i] ELSE c
  BY <1>1, <1>3, <1>5
<1>7. PICK r : r = start \o right
  OBVIOUS
<1>8. /\ r \in Seq(S) /\ Len(r) = Len(rest) + 1
      /\ \A i \in 1 .. Len(rest) + 1 : r[i] = IF i <= lane + 1 THEN start[i] ELSE right[i - (lane + 1)]
  BY <1>1, <1>4, <1>6, <1>7, ConcatProperties
<1>9. \A i \in 1 .. Len(rest) + 1 :
        r[i] = IF i <= lane THEN rest[i] ELSE IF i = lane + 1 THEN c ELSE rest[i - 1]
  <2> TAKE i \in 1 .. Len(rest) + 1
  <2>1. CASE i <= lane + 1
    <3>1. i \in 1 .. lane + 1 /\ r[i] = start[i]
      BY <1>1, <1>8, <2>1
    <3> QED BY <1>1, <1>6, <2>1, <3>1
  <2>2. CASE i > lane + 1
    <3>1. PICK k \in 1 .. Len(rest) - lane : k = i - (lane + 1) /\ lane + k = i - 1
      BY <1>1, <2>2
    <3>2. r[i] = right[k] /\ right[k] = rest[i - 1]
      BY <1>1, <1>4, <1>8, <2>2, <3>1
    <3> QED BY <1>1, <2>2, <3>2
  <2> QED BY <1>1, <2>1, <2>2
<1>10. PutIn(rest, lane, <<c>>) = r
  BY <1>2, <1>5, <1>7 DEF PutIn
<1> QED BY <1>8, <1>9, <1>10

(* A lane that was not there keeps the lanes apart. *)
Apart(s, S) == s.lanes \in Seq(S) /\ Distinct(s.lanes) /\ s.at \in 0 .. Len(s.lanes)

LEMMA InsertLaneIs ==
  ASSUME NEW S, NEW s, Apart(s, S), NEW c \in S
  PROVE  /\ Apart(InsertLane(s, c), S)
         /\ Elements(InsertLane(s, c).lanes) = Elements(s.lanes) \cup {c}
<1>1. CASE c \in Elements(s.lanes)
  BY <1>1 DEF InsertLane, Apart
<1>2. CASE c \notin Elements(s.lanes)
  <2>1. PICK rest, lane : rest = s.lanes /\ lane = s.at
    OBVIOUS
  <2>2. PICK r : r = PutIn(rest, lane, <<c>>)
    OBVIOUS
  <2>3. rest \in Seq(S) /\ lane \in 0 .. Len(rest) /\ Len(rest) \in Nat /\ DOMAIN rest = 1 .. Len(rest)
    BY <2>1 DEF Apart
  <2>4. /\ r \in Seq(S) /\ Len(r) = Len(rest) + 1 /\ DOMAIN r = 1 .. Len(rest) + 1
        /\ \A i \in 1 .. Len(rest) + 1 :
             r[i] = IF i <= lane THEN rest[i] ELSE IF i = lane + 1 THEN c ELSE rest[i - 1]
    <3>1. c \in S /\ rest \in Seq(S) /\ lane \in 0 .. Len(rest)
      BY <2>3
    <3>2. /\ PutIn(rest, lane, <<c>>) \in Seq(S) /\ Len(PutIn(rest, lane, <<c>>)) = Len(rest) + 1
          /\ \A i \in 1 .. Len(rest) + 1 :
               PutIn(rest, lane, <<c>>)[i] =
                 IF i <= lane THEN rest[i] ELSE IF i = lane + 1 THEN c ELSE rest[i - 1]
      BY ONLY <3>1, PutInIs, SMTT(30)
    <3> QED BY <2>2, <2>3, <3>2
  <2>5. \A i \in DOMAIN rest : rest[i] # c
    BY <1>2, <2>1 DEF Elements
  <2>6. Distinct(r)
    <3>1. \A i, j \in DOMAIN rest : rest[i] = rest[j] => i = j
      BY <2>1 DEF Distinct, Apart
    <3>2. ASSUME NEW i \in DOMAIN r, NEW j \in DOMAIN r, r[i] = r[j] PROVE i = j
      <4> DEFINE At(k) == IF k <= lane THEN k ELSE k - 1
      <4>1. \A k \in DOMAIN r : k # lane + 1 => At(k) \in DOMAIN rest /\ r[k] = rest[At(k)]
        BY <2>3, <2>4
      <4>2. i = lane + 1 \/ j = lane + 1 => i = j
        <5>1. lane + 1 \in DOMAIN r /\ r[lane + 1] = c
          BY <2>3, <2>4
        <5>2. \A k \in DOMAIN r : k # lane + 1 => r[k] # c
          BY <2>5, <4>1
        <5> QED BY <3>2, <5>1, <5>2
      <4>3. i # lane + 1 /\ j # lane + 1 => At(i) = At(j)
        BY <3>1, <3>2, <4>1
      <4> QED BY <2>3, <2>4, <4>2, <4>3
    <3> QED BY <3>2 DEF Distinct
  <2>7. Elements(r) = Elements(rest) \cup {c}
    <3>1. ASSUME NEW i \in DOMAIN r PROVE r[i] \in Elements(rest) \cup {c}
      <4>1. i = lane + 1 \/ (i \in DOMAIN rest /\ r[i] = rest[i])
                \/ (i - 1 \in DOMAIN rest /\ r[i] = rest[i - 1])
        BY <2>3, <2>4
      <4>2. i = lane + 1 => r[i] = c
        BY <2>3, <2>4
      <4> QED BY <4>1, <4>2 DEF Elements
    <3>2. ASSUME NEW i \in DOMAIN rest PROVE rest[i] \in Elements(r)
      <4>1. CASE i <= lane
        <5>1. i \in DOMAIN r /\ r[i] = rest[i]
          BY <2>3, <2>4, <4>1
        <5> QED BY <5>1 DEF Elements
      <4>2. CASE i > lane
        <5>1. i + 1 \in DOMAIN r /\ r[i + 1] = rest[i]
          BY <2>3, <2>4, <4>2
        <5> QED BY <5>1 DEF Elements
      <4> QED BY <2>3, <4>1, <4>2
    <3>3. c \in Elements(r)
      <4>1. lane + 1 \in DOMAIN r /\ r[lane + 1] = c
        BY <2>3, <2>4
      <4> QED BY <4>1 DEF Elements
    <3> QED BY <3>1, <3>2, <3>3 DEF Elements
  <2>8. InsertLane(s, c).lanes = r /\ InsertLane(s, c).at = lane + 1
    BY <1>2, <2>1, <2>2 DEF InsertLane
  <2> QED BY <2>1, <2>3, <2>4, <2>6, <2>7, <2>8 DEF Apart
<1> QED BY <1>1, <1>2

LEMMA InsertLaneElements ==
  ASSUME NEW S, NEW s, NEW c, Apart(s, S), c \in S
  PROVE  Elements(InsertLane(s, c).lanes) = Elements(s.lanes) \cup {c}
<1> QED BY InsertLaneIs

(* The loop over the parents, up to the nth. *)
IsInserted(f, rest, lane, new, n) ==
  f = [k \in 0 .. n |-> IF k = 0 THEN [lanes |-> rest, at |-> lane] ELSE InsertLane(f[k - 1], new[k])]

LEMMA InsertedExists ==
  ASSUME NEW rest, NEW lane, NEW new
  PROVE  \A n \in Nat : \E f : IsInserted(f, rest, lane, new, n)
<1> DEFINE Exists(n) == \E f : IsInserted(f, rest, lane, new, n)
<1>1. Exists(0)
  <2> DEFINE f == [k \in 0 .. 0 |-> [lanes |-> rest, at |-> lane]]
  <2>1. IsInserted(f, rest, lane, new, 0)
    BY DEF IsInserted
  <2> QED BY <2>1
<1>2. ASSUME NEW n \in Nat, Exists(n) PROVE Exists(n + 1)
  <2>1. PICK f : IsInserted(f, rest, lane, new, n)
    BY <1>2
  <2> DEFINE g == [k \in 0 .. n + 1 |-> IF k <= n THEN f[k] ELSE InsertLane(f[n], new[n + 1])]
  <2>2. \A k \in 0 .. n : f[k] = IF k = 0 THEN [lanes |-> rest, at |-> lane]
                                 ELSE InsertLane(f[k - 1], new[k])
    BY <2>1 DEF IsInserted
  <2>3. ASSUME NEW k \in 0 .. n + 1
        PROVE  g[k] = IF k = 0 THEN [lanes |-> rest, at |-> lane] ELSE InsertLane(g[k - 1], new[k])
    <3>1. CASE k = 0
      BY <2>2, <3>1
    <3>2. CASE k \in 1 .. n
      <4>1. g[k] = f[k] /\ g[k - 1] = f[k - 1]
        BY <3>2
      <4> QED BY <2>2, <3>2, <4>1
    <3>3. CASE k = n + 1
      <4>1. g[k] = InsertLane(f[n], new[n + 1]) /\ g[k - 1] = f[n]
        BY <3>3
      <4> QED BY <3>3, <4>1
    <3> QED BY <3>1, <3>2, <3>3
  <2>4. IsInserted(g, rest, lane, new, n + 1)
    <3>1. g = [k \in 0 .. n + 1 |-> g[k]]
      OBVIOUS
    <3> HIDE DEF g
    <3> QED BY <2>3, <3>1 DEF IsInserted
  <2> QED BY <2>4
<1>3. \A n \in Nat : Exists(n)
  <2> DEFINE S == {n \in Nat : Exists(n)}
  <2> HIDE DEF Exists
  <2>1. 0 \in S /\ \A n \in Nat : n \in S => n + 1 \in S
    BY <1>1, <1>2
  <2>2. \A n \in Nat : n \in S
    <3> HIDE DEF S
    <3> QED BY <2>1, SetInduction
  <2> QED BY <2>2
<1> QED BY <1>3

LEMMA InsertIs ==
  ASSUME NEW S, NEW rest \in Seq(S), Distinct(rest), NEW lane \in 0 .. Len(rest), NEW new \in Seq(S)
  PROVE  LET r == Insert(rest, lane, new)
         IN  /\ r \in Seq(S) /\ Distinct(r)
             /\ Elements(r) = Elements(rest) \cup Elements(new)
<1>1. Len(new) \in Nat /\ \A k \in 1 .. Len(new) : new[k] \in S
  OBVIOUS
<1>2. PICK f : f = CHOOSE g : IsInserted(g, rest, lane, new, Len(new))
  OBVIOUS
<1>3. IsInserted(f, rest, lane, new, Len(new))
  BY <1>1, <1>2, InsertedExists
<1>4. Insert(rest, lane, new) = f[Len(new)].lanes
  BY <1>2 DEF Insert, IsInserted
<1>5. f[0] = [lanes |-> rest, at |-> lane] /\ \A k \in 1 .. Len(new) : f[k] = InsertLane(f[k - 1], new[k])
  BY <1>1, <1>3 DEF IsInserted
<1> DEFINE Good(k) == /\ Apart(f[k], S)
                      /\ Elements(f[k].lanes) = Elements(rest) \cup {new[i] : i \in 1 .. k}
           T == {k \in Nat : k <= Len(new) => Good(k)}
<1>6. Good(0)
  BY <1>5 DEF Apart
<1>7. ASSUME NEW k \in Nat, k + 1 <= Len(new), Good(k) PROVE Good(k + 1)
  <2>1. PICK a, c : a = f[k] /\ c = new[k + 1]
    OBVIOUS
  <2>2. f[k + 1] = InsertLane(a, c) /\ c \in S
    <3>1. k + 1 \in 1 .. Len(new) /\ k + 1 - 1 = k
      BY <1>1, <1>7
    <3> QED BY <1>1, <1>5, <2>1, <3>1
  <2>3. {new[i] : i \in 1 .. k + 1} = {new[i] : i \in 1 .. k} \cup {c}
    <3>1. 1 .. k + 1 = (1 .. k) \cup {k + 1}
      OBVIOUS
    <3> QED BY <2>1, <3>1
  <2>4. Apart(a, S) /\ Elements(a.lanes) = Elements(rest) \cup {new[i] : i \in 1 .. k}
    BY <1>7, <2>1
  <2>5. c \in S /\ Apart(a, S)
    BY <2>2, <2>4
  <2>6. Apart(InsertLane(a, c), S)
    BY ONLY <2>5, InsertLaneIs
  <2>7. Elements(InsertLane(a, c).lanes) = Elements(a.lanes) \cup {c}
    BY ONLY <2>5, InsertLaneElements
  <2> QED BY <2>2, <2>3, <2>4, <2>6, <2>7
<1>8. \A k \in Nat : k \in T
  <2> HIDE DEF Good
  <2>1. 0 \in T
    BY <1>6
  <2>2. \A k \in Nat : k \in T => k + 1 \in T
    BY <1>1, <1>7
  <2> HIDE DEF T
  <2> QED BY <2>1, <2>2, SetInduction
<1>9. Good(Len(new))
  <2> HIDE DEF Good
  <2> QED BY <1>1, <1>8
<1>10. {new[i] : i \in 1 .. Len(new)} = Elements(new)
  BY DEF Elements
<1> QED BY <1>4, <1>9, <1>10 DEF Apart

(***************************************************************************)
(* The graph of the log: what is drawn and what is awaited.                *)
(***************************************************************************)

LogTypes ==
  /\ parents \in Histories /\ lanes \in Seq(Commits) /\ laneCount \in Nat /\ Len(lanes) <= laneCount
  /\ Shown \subseteq Commits /\ IsFiniteSet(Shown)
  /\ \A c \in Shown : /\ node[c].lane \in Nat
                      /\ node[c].row \in Nat /\ node[c].row < Cardinality(Shown)
LogInv == LogTypes /\ LogDrawn

LEMMA ParentsAre ==
  ASSUME parents \in Histories, NEW c \in Commits
  PROVE  parents[c] \in Seq(Commits) /\ Distinct(parents[c]) /\ c \notin Elements(parents[c])
<1>1. /\ parents \in [Commits -> {<< >>} \cup {<<d>> : d \in Commits} \cup {<<d, e>> : d, e \in Commits}]
      /\ Distinct(parents[c]) /\ \A d \in Elements(parents[c]) : d > c
  BY DEF Histories
<1>2. parents[c] \in Seq(Commits)
  <2>1. CASE parents[c] = << >>
    BY <2>1
  <2>2. ASSUME NEW d \in Commits, parents[c] = <<d>> PROVE parents[c] \in Seq(Commits)
    BY <2>2
  <2>3. ASSUME NEW d \in Commits, NEW e \in Commits, parents[c] = <<d, e>>
        PROVE  parents[c] \in Seq(Commits)
    BY <2>3
  <2> QED BY <1>1, <2>1, <2>2, <2>3
<1>3. c \in Int
  BY DEF Commits
<1> QED BY <1>1, <1>2, <1>3

(* A commit is drawn in its lane, and its parents take its place among the *)
(* rest.                                                                   *)
LEMMA DrawKeeps ==
  ASSUME LogInv, NEW c \in Commits, c \notin Shown, NEW rest \in Seq(Commits), Distinct(rest),
         NEW lane \in 0 .. Len(rest), lane < IF laneCount > 1 THEN laneCount ELSE 1,
         InOrder => Elements(rest) = Awaited \ {c},
         Draw(c, lane, rest)
  PROVE  LogInv'
<1> DEFINE row == Cardinality(Shown)
<1>1. /\ parents' = parents /\ lanes' = Insert(rest, lane, parents[c])
      /\ laneCount' = Count(rest, lanes')
      /\ Shown' = Shown \cup {c} /\ \A d \in Shown : node'[d] = node[d]
      /\ node'[c].lane = lane /\ node'[c].row = row
  BY DEF Draw, Shown
<1>2. parents[c] \in Seq(Commits) /\ c \notin Elements(parents[c])
  BY ParentsAre DEF LogInv, LogTypes
<1>3. /\ lanes' \in Seq(Commits) /\ Distinct(lanes')
      /\ Elements(lanes') = Elements(rest) \cup Elements(parents[c])
  <2>1. PICK new : new = parents[c]
    OBVIOUS
  <2> QED BY <1>1, <1>2, <2>1, InsertIs
<1>4. row \in Nat /\ Cardinality(Shown') = row + 1 /\ IsFiniteSet(Shown')
  BY <1>1, FS_CardinalityType, FS_AddElement DEF LogInv, LogTypes
<1>5. laneCount' \in Nat /\ laneCount <= laneCount' /\ Len(lanes') <= laneCount' /\ laneCount \in Nat
  <2>1. Len(lanes') \in Nat /\ laneCount \in Nat
    BY <1>3 DEF LogInv, LogTypes
  <2> QED BY <1>1, <2>1 DEF Count
<1>6. lane \in Nat
  OBVIOUS
<1>7. LogTypes'
  <2>1. \A d \in Shown' : /\ node'[d].lane \in Nat
                          /\ node'[d].row \in Nat /\ node'[d].row < Cardinality(Shown')
    BY <1>1, <1>4, <1>6 DEF LogInv, LogTypes
  <2> QED BY <1>1, <1>3, <1>4, <1>5, <2>1 DEF LogInv, LogTypes
<1>8. NodesInCanvas'
  <2> SUFFICES ASSUME NEW d \in Shown'
               PROVE  node'[d].lane < IF laneCount' > 1 THEN laneCount' ELSE 1
    BY DEF NodesInCanvas
  <2>1. node'[d].lane \in Nat /\ node'[d].lane < IF laneCount > 1 THEN laneCount ELSE 1
    BY <1>1, <1>6 DEF LogInv, LogTypes, LogDrawn, NodesInCanvas
  <2> QED BY <1>5, <2>1
<1>9. ASSUME InOrder' PROVE Elements(lanes') = Awaited'
  <2>1. InOrder
    BY <1>1, <1>9 DEF InOrder
  <2>2. Elements(parents[c]) \cap Shown' = {}
    <3> SUFFICES ASSUME NEW d \in Elements(parents[c]), d \in Shown' PROVE FALSE
      OBVIOUS
    <3>1. d \in Shown /\ node'[c].row < node'[d].row
      BY <1>1, <1>2, <1>9 DEF InOrder
    <3>2. node[d].row < row /\ node[d].row \in Nat
      BY <3>1 DEF LogInv, LogTypes
    <3> QED BY <1>1, <1>4, <3>1, <3>2
  <2> DEFINE Of(D) == UNION {Elements(parents[d]) : d \in D}
  <2>3. ASSUME NEW D PROVE Of(D \cup {c}) = Of(D) \cup Elements(parents[c])
    OBVIOUS
  <2>4. Awaited = Of(Shown) \ Shown /\ Awaited' = Of(Shown') \ Shown'
    BY <1>1 DEF Awaited
  <2> HIDE DEF Of
  <2>5. Awaited' = (Awaited \ {c}) \cup Elements(parents[c])
    BY <1>1, <2>2, <2>3, <2>4
  <2> QED BY <1>3, <1>9, <2>1, <2>5
<1>10. LanesAreAwaited'
  BY <1>3, <1>9 DEF LanesAreAwaited
<1> QED BY <1>7, <1>8, <1>10 DEF LogInv, LogDrawn

LEMMA TipKeeps == ASSUME LogInv, LogAssumption, Tip PROVE LogInv'
<1>1. Shown = {} /\ Draw(1, 0, lanes)
  BY DEF Tip
<1>2. Awaited = {}
  BY <1>1 DEF Awaited
<1>3. Elements(lanes) = {} /\ Distinct(lanes) /\ lanes \in Seq(Commits) /\ laneCount \in Nat
  BY <1>1, <1>2 DEF LogInv, LogTypes, LogDrawn, LanesAreAwaited, InOrder
<1>4. 1 \in Commits /\ 0 \in 0 .. Len(lanes) /\ 0 < IF laneCount > 1 THEN laneCount ELSE 1
  BY <1>3 DEF Commits, LogAssumption
<1>5. Elements(lanes) = Awaited \ {1}
  BY <1>2, <1>3
<1> QED BY <1>1, <1>3, <1>4, <1>5, DrawKeeps

LEMMA RowKeeps == ASSUME LogInv, Row PROVE LogInv'
<1>1. PICK i \in DOMAIN lanes :
         /\ lanes[i] \in Awaited
         /\ Draw(lanes[i], i - 1, SubSeq(lanes, 1, i - 1) \o SubSeq(lanes, i + 1, Len(lanes)))
  BY DEF Row
<1>2. PICK c, lane, rest :
         c = lanes[i] /\ lane = i - 1 /\ rest = SubSeq(lanes, 1, i - 1) \o SubSeq(lanes, i + 1, Len(lanes))
  OBVIOUS
<1>3. /\ lanes \in Seq(Commits) /\ Distinct(lanes) /\ laneCount \in Nat /\ Len(lanes) <= laneCount
      /\ i \in 1 .. Len(lanes) /\ Len(lanes) \in Nat
  BY DEF LogInv, LogTypes, LogDrawn, LanesAreAwaited
<1>4. /\ rest \in Seq(Commits) /\ Len(rest) = Len(lanes) - 1
      /\ \A k \in 1 .. Len(lanes) - 1 : rest[k] = IF k < i THEN lanes[k] ELSE lanes[k + 1]
  <2>1. PICK left, right : left = SubSeq(lanes, 1, i - 1) /\ right = SubSeq(lanes, i + 1, Len(lanes))
    OBVIOUS
  <2>2. left \in Seq(Commits) /\ Len(left) = i - 1 /\ \A k \in 1 .. i - 1 : left[k] = lanes[k]
    BY <1>3, <2>1
  <2>3. /\ right \in Seq(Commits) /\ Len(right) = Len(lanes) - i
        /\ \A k \in 1 .. Len(lanes) - i : right[k] = lanes[i + k]
    BY <1>3, <2>1
  <2>4. /\ rest \in Seq(Commits) /\ Len(rest) = Len(left) + Len(right)
        /\ \A k \in 1 .. Len(left) + Len(right) :
             rest[k] = IF k <= Len(left) THEN left[k] ELSE right[k - Len(left)]
    <3>1. rest = left \o right
      BY <1>2, <2>1
    <3> QED BY ONLY <2>2, <2>3, <3>1, ConcatProperties
  <2>5. Len(rest) = Len(lanes) - 1
    BY <1>3, <2>2, <2>3, <2>4
  <2>6. ASSUME NEW k \in 1 .. Len(lanes) - 1 PROVE rest[k] = IF k < i THEN lanes[k] ELSE lanes[k + 1]
    <3>1. CASE k < i
      BY <1>3, <2>2, <2>3, <2>4, <3>1
    <3>2. CASE k >= i
      <4>1. PICK j \in 1 .. Len(lanes) - i : j = k - (i - 1) /\ i + j = k + 1
        BY <1>3, <3>2
      <4>2. k \in 1 .. Len(left) + Len(right) /\ ~(k <= Len(left)) /\ k - Len(left) = j
        <5>1. PICK l, m, n : l = Len(left) /\ m = Len(right) /\ n = Len(lanes)
          OBVIOUS
        <5>2. n \in Nat /\ i \in 1 .. n /\ k \in 1 .. n - 1 /\ k >= i /\ l = i - 1 /\ m = n - i /\ j = k - (i - 1)
          BY <1>3, <2>2, <2>3, <3>2, <4>1, <5>1
        <5>3. k \in 1 .. l + m /\ ~(k <= l) /\ k - l = j
          BY ONLY <5>2, SMTT(30)
        <5> QED BY ONLY <5>1, <5>3
      <4>3. rest[k] = right[j]
        BY <2>4, <4>2
      <4>4. right[j] = lanes[k + 1]
        BY <2>3, <4>1
      <4> QED BY <1>3, <3>2, <4>3, <4>4
    <3> QED BY <1>3, <3>1, <3>2
  <2> QED BY <2>4, <2>5, <2>6
<1> DEFINE From(k) == IF k < i THEN k ELSE k + 1
<1>5. \A k \in DOMAIN rest : From(k) \in DOMAIN lanes /\ From(k) # i /\ rest[k] = lanes[From(k)]
  BY <1>3, <1>4
<1>6. Distinct(rest)
  <2> SUFFICES ASSUME NEW j \in DOMAIN rest, NEW k \in DOMAIN rest, rest[j] = rest[k] PROVE j = k
    BY DEF Distinct
  <2>1. From(j) = From(k)
    BY <1>3, <1>5 DEF Distinct
  <2> QED BY <1>3, <1>4, <2>1
<1>7. Elements(rest) = Elements(lanes) \ {c}
  <2>1. ASSUME NEW k \in DOMAIN rest PROVE rest[k] \in Elements(lanes) \ {c}
    <3>1. From(k) \in DOMAIN lanes /\ From(k) # i /\ rest[k] = lanes[From(k)]
      BY <1>5
    <3> QED BY <1>2, <1>3, <3>1 DEF Elements, Distinct
  <2>2. ASSUME NEW k \in DOMAIN lanes, k # i PROVE lanes[k] \in Elements(rest)
    <3>1. CASE k < i
      <4>1. k \in DOMAIN rest /\ rest[k] = lanes[k]
        BY <1>3, <1>4, <3>1
      <4> QED BY <4>1 DEF Elements
    <3>2. CASE k > i
      <4>1. k - 1 \in DOMAIN rest /\ rest[k - 1] = lanes[k]
        BY <1>3, <1>4, <3>2
      <4> QED BY <4>1 DEF Elements
    <3> QED BY <1>3, <2>2, <3>1, <3>2
  <2> QED BY <1>2, <2>1, <2>2 DEF Elements
<1>8. c \in Commits /\ c \notin Shown
  <2>1. lanes[i] \in Awaited => lanes[i] \notin Shown
    BY DEF Awaited
  <2>2. lanes[i] \in Commits
    BY <1>3
  <2> QED BY <1>1, <1>2, <2>1, <2>2
<1>9. lane \in 0 .. Len(rest) /\ lane < IF laneCount > 1 THEN laneCount ELSE 1
  BY <1>2, <1>3, <1>4
<1>10. InOrder => Elements(rest) = Awaited \ {c}
  BY <1>7 DEF LogInv, LogDrawn, LanesAreAwaited
<1>11. Draw(c, lane, rest)
  BY <1>1, <1>2
<1> QED BY <1>4, <1>6, <1>8, <1>9, <1>10, <1>11, DrawKeeps

LEMMA LogStarts == LogInit => LogInv
<1> SUFFICES ASSUME LogInit PROVE LogInv
  OBVIOUS
<1>1. Shown = {}
  BY DEF LogInit, Shown
<1>2. lanes = << >> /\ laneCount = 0 /\ parents \in Histories
  BY DEF LogInit
<1>3. LogTypes
  BY <1>1, <1>2, FS_EmptySet DEF LogTypes
<1>4. LogDrawn
  BY <1>1, <1>2 DEF LogDrawn, NodesInCanvas, LanesAreAwaited, Distinct, Elements, Awaited
<1> QED BY <1>3, <1>4 DEF LogInv

LEMMA LogStep == ASSUME LogInv, LogAssumption, [LogNext]_drawn PROVE LogInv'
<1>1. CASE UNCHANGED drawn
  <2>1. parents' = parents /\ lanes' = lanes /\ laneCount' = laneCount /\ Shown' = Shown /\ node' = node
    BY <1>1 DEF drawn, Shown
  <2>2. LogTypes'
    BY <2>1 DEF LogInv, LogTypes
  <2>3. Awaited' = Awaited /\ (InOrder' <=> InOrder) /\ (NodesInCanvas' <=> NodesInCanvas)
    BY <2>1 DEF Awaited, InOrder, NodesInCanvas
  <2> QED BY <2>1, <2>2, <2>3 DEF LogInv, LogDrawn, LanesAreAwaited
<1> QED BY <1>1, TipKeeps, RowKeeps DEF LogNext

(* For every history of every number of commits, and every order git may   *)
(* print it in: each node lies within the canvas, and, unless a commit     *)
(* came before one of its children, a lane is kept for each commit that is *)
(* awaited and for no other; never two for one (processFinished, Log).     *)
THEOREM GitLogDrawn == LogSpec => []LogDrawn
<1>1. LogAssumption
  BY LogAssumption
<1>2. LogInv /\ [LogNext]_drawn => LogInv'
  BY <1>1, LogStep
<1>3. LogInv => LogDrawn
  BY DEF LogInv
<1> QED BY LogStarts, <1>2, <1>3, PTL DEF LogSpec

=============================================================================
