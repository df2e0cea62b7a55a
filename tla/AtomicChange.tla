---------------------------- MODULE AtomicChange ----------------------------
(***************************************************************************)
(* What an undo group promises to the user who undoes, redoes or reverts   *)
(* it: the changes recorded in it stand or fall together.  A group grows   *)
(* while it is open; from then on all its changes are in place or none is, *)
(* until the group breaks, and a broken group stays as it is.              *)
(***************************************************************************)

CONSTANT Groups

VARIABLE status     \* of each group

Init == status = [g \in Groups |-> "none"]

Begin(g) == /\ status[g] = "none"
            /\ status' = [status EXCEPT ![g] = "open"]

Close(g) == /\ status[g] = "open"
            /\ status' = [status EXCEPT ![g] = "in"]

TakeOut(g) == /\ status[g] = "in"
              /\ status' = [status EXCEPT ![g] = "out"]

PutBack(g) == /\ status[g] = "out"
              /\ status' = [status EXCEPT ![g] = "in"]

Break(g) == /\ status[g] # "none"
            /\ status' = [status EXCEPT ![g] = "broken"]

Next == \E g \in Groups : Begin(g) \/ Close(g) \/ TakeOut(g) \/ PutBack(g) \/ Break(g)

Spec == Init /\ [][Next]_status
=============================================================================
