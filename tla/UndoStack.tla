----------------------------- MODULE UndoStack -----------------------------
(***************************************************************************)
(* src/src/core/undoModule.cpp: the undo history of the workspace.  On the *)
(* stack are single edits of the user and, as one command each, groups:    *)
(* the changes an agent made in one turn, or a rename across documents.    *)
(* A group is filled while it is open and pushed when it is committed;     *)
(* reverting it pushes a second command that does the opposite.            *)
(*                                                                         *)
(* What a change does is known to its owner only; here it is in effect or  *)
(* not.  The owner may refuse to undo or redo it (a document has been      *)
(* edited since, a file cannot be renamed back); a refused action changes  *)
(* nothing.  The module then drops the command, and a group compensates.   *)
(*                                                                         *)
(* The stack is Qt's QUndoStack.  undo, redo, undoTo and redoTo execute    *)
(* one command after the other until the goal is reached, in one call: no  *)
(* other action comes between.  Texts and signals are left out.            *)
(***************************************************************************)
EXTENDS Naturals, Sequences

CONSTANTS Groups,    \* ids undoGroupBegin may give out; none is given twice
          Edits,     \* edits that are not part of a group
          Limit,     \* undoLimit
          MaxSteps   \* bound on the steps of a group

ASSUME UndoAssumption == /\ Groups \cap Edits = {}
                         /\ Limit \in Nat \ {0}
                         /\ MaxSteps \in Nat

VARIABLES groups,    \* UndoGroupData of every group, kept alive by its commands
          begun,     \* ids given out
          known,     \* m_undoGroups
          stack,     \* the commands, oldest first
          index,     \* the commands below it are done, the others undone
          goal,      \* where undo or redo is heading; it has arrived when = index
          edits,     \* the single edits in effect
          pushed,    \* the single edits made so far
          failed     \* groups and edits one of whose commands was refused

registry == <<begun, known>>
history == <<stack, index, goal>>
single == <<edits, pushed>>
vars == <<groups, registry, history, single, failed>>

(* steps: for each, whether its change is in effect. *)
NewGroup == [steps |-> << >>, committed |-> FALSE, applied |-> TRUE, error |-> FALSE]

Kinds == {"edit", "commit", "revert"}

Idle == goal = index

Init == /\ groups = [g \in Groups |-> NewGroup]
        /\ begun = {}
        /\ known = {}
        /\ stack = << >>
        /\ index = 0
        /\ goal = 0
        /\ edits = {}
        /\ pushed = {}
        /\ failed = {}

(***************************************************************************)
(* UndoGroupData: undo or redo of a group.                                 *)
(***************************************************************************)

(* The first k steps in the order of execution: redo goes forward, undo    *)
(* backward.                                                               *)
Ran(d, redo, k) == IF redo THEN 1 .. k ELSE Len(d.steps) - k + 1 .. Len(d.steps)

(* The steps in S have been redone or undone. *)
Turned(d, S, redo) == [i \in 1 .. Len(d.steps) |-> IF i \in S THEN redo ELSE d.steps[i]]

Whole(d, redo) == [d EXCEPT !.steps = Turned(d, Ran(d, redo, Len(d.steps)), redo),
                            !.applied = redo]

(* Mutant: a compensation that is refused is not noticed. *)
CompensatedSilently(d, redo, lost) == [d EXCEPT !.steps = Turned(d, lost, redo)]

(* After k steps the next one is refused: those k are compensated, and     *)
(* where that is refused too, at the steps in lost, the group is in error. *)
Compensated(d, redo, lost) == [d EXCEPT !.steps = Turned(d, lost, redo),
                                        !.error = lost # {}]

(* Mutant: an error of the group is not looked at. *)
ExecutedInError(d, redo) ==
    IF d.applied = redo THEN {[data |-> d, ok |-> FALSE]}
    ELSE {[data |-> Whole(d, redo), ok |-> TRUE]} \cup
         UNION {{[data |-> Compensated(d, redo, lost), ok |-> FALSE] :
                     lost \in SUBSET Ran(d, redo, k)} : k \in 0 .. Len(d.steps) - 1}

(* What redo() or undo() of a group may leave behind, and whether it       *)
(* reports success.                                                        *)
Executed(d, redo) ==
    IF d.error \/ d.applied = redo THEN {[data |-> d, ok |-> FALSE]}
    ELSE {[data |-> Whole(d, redo), ok |-> TRUE]} \cup
         UNION {{[data |-> Compensated(d, redo, lost), ok |-> FALSE] :
                     lost \in SUBSET Ran(d, redo, k)} : k \in 0 .. Len(d.steps) - 1}

(***************************************************************************)
(* Commands.                                                               *)
(***************************************************************************)

(* UndoCommand::execute: the command's action in the direction of redo.    *)
(* A revert does the opposite to its group.                                *)
ExecuteEdit(e, redo, ok) ==
    /\ edits' = IF ~ok THEN edits ELSE IF redo THEN edits \cup {e} ELSE edits \ {e}
    /\ failed' = IF ok THEN failed ELSE failed \cup {e}
    /\ UNCHANGED <<groups, registry, pushed>>

ExecuteGroup(g, redo, ok) ==
    /\ \E outcome \in Executed(groups[g], redo) :
          /\ outcome.ok = ok
          /\ groups' = [groups EXCEPT ![g] = outcome.data]
    /\ failed' = IF ok THEN failed ELSE failed \cup {g}
    /\ UNCHANGED <<registry, single>>

Execute(c, redo, ok) ==
    \/ c.kind = "edit" /\ ExecuteEdit(c.of, redo, ok)
    \/ c.kind = "commit" /\ ExecuteGroup(c.of, redo, ok)
    \/ c.kind = "revert" /\ ExecuteGroup(c.of, ~redo, ok)

(* Mutant: a refused command leaves the undone ones on the stack. *)
PushedOnBranch(c, ok) ==
    LET below == SubSeq(stack, 1, index)
        longer == IF ok THEN Append(below, c) ELSE stack
    IN /\ stack' = IF Len(longer) > Limit THEN Tail(longer) ELSE longer
       /\ index' = Len(stack')
       /\ goal' = index'

(* QUndoStack::push: the undone commands are gone, even when the new one   *)
(* is refused; beyond the limit the oldest goes.                           *)
Pushed(c, ok) ==
    LET below == SubSeq(stack, 1, index)
        longer == IF ok THEN Append(below, c) ELSE below
    IN /\ stack' = IF Len(longer) > Limit THEN Tail(longer) ELSE longer
       /\ index' = Len(stack')
       /\ goal' = index'

(* push of a single edit; its first redo may be refused. *)
PushEdit(e, ok) ==
    /\ Idle /\ e \notin pushed
    /\ pushed' = pushed \cup {e}
    /\ edits' = IF ok THEN edits \cup {e} ELSE edits
    /\ failed' = IF ok THEN failed ELSE failed \cup {e}
    /\ Pushed([kind |-> "edit", of |-> e], ok)
    /\ UNCHANGED <<groups, registry>>

(***************************************************************************)
(* Groups.                                                                 *)
(***************************************************************************)

UndoGroupBegin(g) ==
    /\ Idle /\ g \notin begun
    /\ begun' = begun \cup {g}
    /\ known' = known \cup {g}
    /\ UNCHANGED <<groups, history, single, failed>>

(* push with the id of a group: the change is made now, and kept when it   *)
(* succeeds.                                                               *)
PushStep(g) ==
    /\ Idle /\ g \in known /\ ~groups[g].committed
    /\ Len(groups[g].steps) < MaxSteps
    /\ groups' = [groups EXCEPT ![g].steps = Append(@, TRUE)]
    /\ UNCHANGED <<registry, history, single, failed>>

(* The first redo of the command does nothing: the changes are in effect.  *)
UndoGroupCommit(g) ==
    /\ Idle /\ g \in known /\ ~groups[g].committed
    /\ groups' = [groups EXCEPT ![g].committed = TRUE]
    /\ \/ /\ groups[g].steps = << >> /\ ~groups[g].error
          /\ known' = known \ {g}
          /\ UNCHANGED history
       \/ /\ groups[g].steps # << >> \/ groups[g].error
          /\ Pushed([kind |-> "commit", of |-> g], TRUE)
          /\ UNCHANGED known
    /\ UNCHANGED <<begun, single, failed>>

UndoGroupRevert(g, ok) ==
    /\ Idle /\ g \in known
    /\ groups[g].committed /\ ~groups[g].error /\ groups[g].applied
    /\ ExecuteGroup(g, FALSE, ok)
    /\ Pushed([kind |-> "revert", of |-> g], ok)

UndoGroupRelease(g) ==
    /\ Idle /\ g \in known
    /\ known' = known \ {g}
    /\ UNCHANGED <<groups, begun, history, single, failed>>

UndoGroupInvalidate(g) ==
    /\ Idle /\ g \in known /\ ~groups[g].error
    /\ groups' = [groups EXCEPT ![g].error = TRUE]
    /\ UNCHANGED <<registry, history, single, failed>>

(***************************************************************************)
(* Moving through the history.                                             *)
(***************************************************************************)

(* undo and redo go one command, undoTo and redoTo any number. *)
SetIndex(target) ==
    /\ Idle /\ target \in 0 .. Len(stack) \ {index}
    /\ goal' = target
    /\ UNCHANGED <<groups, registry, stack, index, single, failed>>

Without(i) == SubSeq(stack, 1, i - 1) \o SubSeq(stack, i + 1, Len(stack))

(* One command back.  A refused one is dropped, and the next is below it   *)
(* all the same.                                                           *)
StepBack(ok) ==
    /\ goal < index
    /\ Execute(stack[index], FALSE, ok)
    /\ stack' = IF ok THEN stack ELSE Without(index)
    /\ index' = index - 1
    /\ UNCHANGED goal

(* One command forward.  A refused one is dropped, and the goal moves down. *)
StepForward(ok) ==
    /\ goal > index
    /\ Execute(stack[index + 1], TRUE, ok)
    /\ stack' = IF ok THEN stack ELSE Without(index + 1)
    /\ index' = IF ok THEN index + 1 ELSE index
    /\ goal' = IF ok THEN goal ELSE goal - 1

Next == \/ \E g \in Groups : \/ UndoGroupBegin(g) \/ PushStep(g) \/ UndoGroupCommit(g)
                             \/ UndoGroupRelease(g) \/ UndoGroupInvalidate(g)
        \/ \E g \in Groups, ok \in BOOLEAN : UndoGroupRevert(g, ok)
        \/ \E e \in Edits, ok \in BOOLEAN : PushEdit(e, ok)
        \/ \E target \in 0 .. Limit : SetIndex(target)
        \/ \E ok \in BOOLEAN : StepBack(ok) \/ StepForward(ok)

Spec == Init /\ [][Next]_vars

(***************************************************************************)
(* Properties.                                                             *)
(***************************************************************************)

GroupData == [steps : Seq(BOOLEAN), committed : BOOLEAN, applied : BOOLEAN,
              error : BOOLEAN]

Commands == [kind : {"edit"}, of : Edits] \cup [kind : {"commit", "revert"}, of : Groups]

(* The types of the state; the index and the goal stay inside the stack,   *)
(* and the stack inside the limit.                                         *)
TypeOK == /\ groups \in [Groups -> GroupData]
          /\ begun \subseteq Groups /\ known \subseteq begun
          /\ stack \in Seq(Commands) /\ Len(stack) <= Limit
          /\ index \in 0 .. Len(stack)
          /\ goal \in 0 .. Len(stack)
          /\ edits \subseteq pushed /\ pushed \subseteq Edits
          /\ failed \subseteq Groups \cup Edits

InEffect(d) == \A i \in 1 .. Len(d.steps) : d.steps[i] = d.applied

(* How a group looks to its user.  One whose steps are partly in effect    *)
(* although nobody was told is torn, which AtomicChange does not know.     *)
StatusOf(g) == IF g \notin begun THEN "none"
               ELSE IF groups[g].error THEN "broken"
               ELSE IF ~InEffect(groups[g]) THEN "torn"
               ELSE IF ~groups[g].committed THEN IF groups[g].applied THEN "open" ELSE "torn"
               ELSE IF groups[g].applied THEN "in" ELSE "out"

(* The steps of a group are undone and redone together: when one is        *)
(* refused the others are put back, or the group is in error (execute).    *)
Change == INSTANCE AtomicChange WITH status <- [g \in Groups |-> StatusOf(g)]
GroupsAreAtomic == Change!Spec

(* A group in error is never touched again: what is left of it may be half *)
(* done, and undoing or redoing any of it would act on changes that are    *)
(* not in the state the step was recorded in (redo, undo).                 *)
BrokenStaysPut ==
    [][\A g \in Groups : groups[g].error =>
          \A i \in 1 .. Len(groups[g].steps) :
              groups'[g].steps[i] = groups[g].steps[i]]_vars

(* The last command of c at or below the index says that its change is in  *)
(* effect, or that it is reverted; the first above it the opposite.        *)
Below(x) == {i \in 1 .. index : stack[i].of = x}
Above(x) == {i \in index + 1 .. Len(stack) : stack[i].of = x}
Effective(x) == IF x \in Edits THEN x \in edits ELSE groups[x].applied

(* The history that is shown tells the truth about the workspace, for      *)
(* every change none of whose commands was refused: what is listed to be   *)
(* undone is in effect, what is listed to be redone is not, through        *)
(* reverts, dropped branches, dropped commands and the limit.              *)
HistoryTellsTruth ==
    \A x \in (Groups \cup Edits) \ failed :
        /\ \A i \in Below(x) : (\A j \in Below(x) : j <= i) =>
               (Effective(x) <=> stack[i].kind # "revert")
        /\ \A i \in Above(x) : (\A j \in Above(x) : i <= j) =>
               (Effective(x) <=> stack[i].kind = "revert")
=============================================================================
