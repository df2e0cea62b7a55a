----------------------------- MODULE AgentTurn -----------------------------
(***************************************************************************)
(* What an agent runtime promises to the one who gives it work: turns run  *)
(* one at a time, every turn that was created ends exactly once, and its   *)
(* outcome is then on the record, in the order in which turns were         *)
(* created.  For the primary runtime the record is the conversation in the *)
(* database, for a sub-agent it is the finishRun signal its dispatcher     *)
(* counts.  The user may take the last turn of the conversation back.      *)
(***************************************************************************)
EXTENDS Naturals, Sequences

CONSTANT Status       \* how a turn may end

VARIABLES active,     \* the turn in progress, 0 for none
          created,    \* how many turns were created
          log         \* the turns on record, oldest first

Init == /\ active = 0
        /\ created = 0
        /\ log = << >>

Begin == /\ active = 0
         /\ active' = created + 1
         /\ created' = created + 1
         /\ UNCHANGED log

End(status) == /\ active # 0
               /\ log' = Append(log, [turn |-> active, status |-> status])
               /\ active' = 0
               /\ UNCHANGED created

TakeBack == /\ active = 0
            /\ log # << >>
            /\ log' = SubSeq(log, 1, Len(log) - 1)
            /\ UNCHANGED <<active, created>>

Next == \/ Begin
        \/ \E status \in Status : End(status)
        \/ TakeBack

Spec == Init /\ [][Next]_<<active, created, log>>
=============================================================================
