------------------------------- MODULE MCPort -------------------------------
(***************************************************************************)
(* Port for TLC, in two parts of one run: "calls", two scripts on a port   *)
(* of any kind; "edits", one script that reads with a deadline while the   *)
(* configuration is edited under it.                                       *)
(***************************************************************************)
EXTENDS Port

VARIABLE part

AllKinds == {"SerialPort", "TcpClient", "UdpSocket"}
TwoScripts == {"s1", "s2"}
OneOrTwo == {1, 2}
EveryThird == {3, 6}
AllReads == {0, 2, Until}
Finite == {"none", "some"}

Undisturbed == INSTANCE Port WITH MaxCalls <- 2, MaxEdits <- 0
Edited == INSTANCE Port WITH Scripts <- {"s1"}, MaxBytes <- 3

PartsInit == \/ part = "calls" /\ Init
             \/ part = "edits" /\ Edited!Init

PartsNext == /\ UNCHANGED part
             /\ \/ part = "calls" /\ Undisturbed!Next
                \/ part = "edits" /\ Edited!Next

(* What is owed is the same in both parts. *)
PartsSpec == PartsInit /\ [][PartsNext]_<<vars, part>> /\ Fairness
=============================================================================
